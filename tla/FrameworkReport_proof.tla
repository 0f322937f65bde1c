------------------------- MODULE FrameworkReport_proof -------------------------
(***************************************************************************)
(* The counters and the scores of a v1 report, for any report, weights,    *)
(* exceptions and sequence of calls.                                       *)
(***************************************************************************)
EXTENDS FrameworkReport, Lemmas

LEMMA ContainsMeansMember ==
    ASSUME NEW E, NEW s \in Seq(E), NEW x
    PROVE  Contains(s, x) <=> x \in ToSet(s)
<1>1. DOMAIN s = 1 .. Len(s)
  OBVIOUS
<1>2. QED
  BY <1>1 DEF Contains, ToSet

LEMMA AppendToDistinct ==
    ASSUME NEW E, NEW s \in Seq(E), IsInjective(s), NEW x \in E, x \notin ToSet(s)
    PROVE  IsInjective(Append(s, x))
<1> DEFINE n == Len(s)
           t == Append(s, x)
<1>1. /\ n \in Nat /\ DOMAIN s = 1 .. n /\ DOMAIN t = 1 .. n + 1
      /\ t[n + 1] = x /\ \A j \in 1 .. n : t[j] = s[j]
  OBVIOUS
<1> HIDE DEF n, t
<1>2. \A j \in 1 .. n : t[j] # x
  BY <1>1 DEF ToSet
<1>3. \A j \in 1 .. n + 1 : j \in 1 .. n \/ j = n + 1
  BY <1>1
<1>4. IsInjective(t)
  BY <1>1, <1>2, <1>3 DEF IsInjective
<1>5. QED
  BY <1>4 DEF t

-----------------------------------------------------------------------------
(* UniqueStrings.  Its fold has a solution, hence the values it passes        *)
(* through.                                                                  *)
WithUnique(unique, x) == IF Contains(unique, x) THEN unique ELSE Append(unique, x)

SolvesUnique(h, s, n) ==
    h = [p \in SUBSET (1 .. n) |->
            IF p = {} THEN << >> ELSE WithUnique(h[p \ {Max(p)}], s[Max(p)])]

LEMMA UniqueIsSolvable ==
    ASSUME NEW E, NEW n \in Nat, NEW s \in [1 .. n -> E]
    PROVE  \E h : SolvesUnique(h, s, n)
<1> DEFINE D == Seq(E)
           step == [p \in D \X E |-> WithUnique(p[1], p[2])]
<1>1. step \in [D \X E -> D] /\ << >> \in D
  BY DEF WithUnique
<1>2. \A u \in D, x \in E : step[<<u, x>>] = WithUnique(u, x)
  OBVIOUS
<1> HIDE DEF D, step
<1>3. PICK h \in [SUBSET (1 .. n) -> D] : SolvesFold(h, step, << >>, s, n)
  BY <1>1, FoldIsSolvable
<1>4. ASSUME NEW p \in SUBSET (1 .. n), p # {}
      PROVE  step[<<h[p \ {Max(p)}], s[Max(p)]>>] = WithUnique(h[p \ {Max(p)}], s[Max(p)])
  <2>1. Max(p) \in p
    BY <1>4, MaxIsMember
  <2>2. h[p \ {Max(p)}] \in D /\ s[Max(p)] \in E
    BY <2>1
  <2>3. QED
    BY <1>2, <2>2
<1>5. SolvesUnique(h, s, n)
  BY <1>3, <1>4 DEF SolvesFold, SolvesUnique
<1>6. QED
  BY <1>5

UniqueRun(upto, s, n) ==
    /\ upto[0] = << >>
    /\ \A k \in 1 .. n : upto[k] = WithUnique(upto[k - 1], s[k])
    /\ UniqueStrings(s) = upto[n]

LEMMA UniqueSteps ==
    ASSUME NEW E, NEW n \in Nat, NEW s \in [1 .. n -> E]
    PROVE  \E upto : UniqueRun(upto, s, n)
<1> DEFINE iter == CHOOSE h : SolvesUnique(h, s, n)
           upto == [k \in 0 .. n |-> iter[1 .. k]]
<1>1. SolvesUnique(iter, s, n)
  BY UniqueIsSolvable
<1>2. UniqueStrings(s) = iter[1 .. n]
  <2>1. DOMAIN s = 1 .. n
    OBVIOUS
  <2>2. QED
    BY <2>1 DEF SolvesUnique, WithUnique, UniqueStrings, FoldLeft, MapThenFoldSet
<1> HIDE DEF iter
<1>3. upto[0] = << >>
  <2>1. 1 .. 0 = {} /\ iter[{}] = << >>
    BY <1>1 DEF SolvesUnique
  <2>2. QED
    BY <2>1
<1>4. ASSUME NEW k \in 1 .. n PROVE upto[k] = WithUnique(upto[k - 1], s[k])
  <2>1. /\ 1 .. k \in SUBSET (1 .. n) /\ 1 .. k # {} /\ Max(1 .. k) = k
        /\ (1 .. k) \ {k} = 1 .. k - 1
    BY LastOfPrefix
  <2>2. iter[1 .. k] = WithUnique(iter[1 .. k - 1], s[k])
    BY <1>1, <2>1 DEF SolvesUnique
  <2>3. k \in 0 .. n /\ k - 1 \in 0 .. n
    OBVIOUS
  <2>4. QED
    BY <2>2, <2>3
<1>5. UniqueStrings(s) = upto[n]
  BY <1>2
<1> HIDE DEF upto
<1>6. UniqueRun(upto, s, n)
  BY <1>3, <1>4, <1>5 DEF UniqueRun
<1>7. QED
  BY <1>6

(* It keeps the members, each once.                                          *)
LEMMA UniqueStringsCorrect ==
    ASSUME NEW E, NEW s \in Seq(E)
    PROVE  /\ UniqueStrings(s) \in Seq(E) /\ IsInjective(UniqueStrings(s))
           /\ ToSet(UniqueStrings(s)) = ToSet(s)
           /\ Len(UniqueStrings(s)) <= Len(s)
<1> DEFINE n == Len(s)
           upTo(k) == {s[j] : j \in 1 .. k}
<1>1. n \in Nat /\ s \in [1 .. n -> E] /\ ToSet(s) = upTo(n)
  <2>1. n \in Nat /\ s \in [1 .. n -> E] /\ DOMAIN s = 1 .. n
    OBVIOUS
  <2> HIDE DEF n
  <2>2. QED
    BY <2>1 DEF ToSet
<1>2. PICK upto : UniqueRun(upto, s, n)
  BY <1>1, UniqueSteps
<1> HIDE DEF n
<1> DEFINE Good == {k \in 0 .. n : /\ upto[k] \in Seq(E) /\ IsInjective(upto[k])
                                   /\ ToSet(upto[k]) = upTo(k) /\ Len(upto[k]) <= k}
<1>3. 0 \in Good
  <2> DEFINE none == << >>
  <2>1. upto[0] = none /\ upTo(0) = {} /\ 0 \in 0 .. n
    BY <1>1, <1>2 DEF UniqueRun
  <2>2. none \in Seq(E) /\ IsInjective(none) /\ Len(none) <= 0 /\ ToSet(none) = {}
    BY MembersOfNone DEF IsInjective
  <2> HIDE DEF upTo, none
  <2>3. /\ upto[0] \in Seq(E) /\ IsInjective(upto[0])
        /\ ToSet(upto[0]) = upTo(0) /\ Len(upto[0]) <= 0
    BY <2>1, <2>2
  <2>4. QED
    BY <2>1, <2>3
<1>4. ASSUME NEW k \in 0 .. n - 1, k \in Good PROVE k + 1 \in Good
  <2> DEFINE u == upto[k]
             x == s[k + 1]
  <2>1. upto[k + 1] = WithUnique(u, x) /\ k + 1 \in 0 .. n /\ x \in E
    <3>1. k + 1 \in 1 .. n /\ k + 1 \in 0 .. n /\ (k + 1) - 1 = k
      BY <1>1
    <3>2. upto[k + 1] = WithUnique(upto[(k + 1) - 1], s[k + 1])
      BY <1>2, <3>1 DEF UniqueRun
    <3>3. QED
      BY <1>1, <3>1, <3>2
  <2>2. u \in Seq(E) /\ IsInjective(u) /\ ToSet(u) = upTo(k) /\ Len(u) <= k
    BY <1>4
  <2>3. upTo(k + 1) = upTo(k) \union {x}
    <3>1. 1 .. k + 1 = (1 .. k) \union {k + 1}
      OBVIOUS
    <3>2. QED
      BY <3>1
  <2> HIDE DEF upTo, u, x
  <2>4. CASE Contains(u, x)
    <3>1. x \in ToSet(u)
      BY <2>2, <2>4, ContainsMeansMember
    <3>2. upto[k + 1] = u /\ Len(u) <= k + 1
      BY <2>1, <2>2, <2>4 DEF WithUnique
    <3>3. QED
      BY <2>1, <2>2, <2>3, <3>1, <3>2
  <2>5. CASE ~Contains(u, x)
    <3>1. x \notin ToSet(u)
      BY <2>2, <2>5, ContainsMeansMember
    <3>2. upto[k + 1] = Append(u, x) /\ Len(Append(u, x)) <= k + 1
      BY <2>1, <2>2, <2>5 DEF WithUnique
    <3>3. Append(u, x) \in Seq(E) /\ ToSet(Append(u, x)) = ToSet(u) \union {x}
      BY <2>1, <2>2, MembersOfAppend
    <3>4. IsInjective(Append(u, x))
      BY <2>1, <2>2, <3>1, AppendToDistinct
    <3>5. QED
      BY <2>1, <2>2, <2>3, <3>2, <3>3, <3>4
  <2>6. QED
    BY <2>4, <2>5
<1>5. n \in Good
  <2>1. \A k \in 0 .. n - 1 : k \in Good => k + 1 \in Good
    BY <1>4
  <2>2. n \in Nat /\ n \in 0 .. n
    BY <1>1
  <2> HIDE DEF Good
  <2>3. QED
    BY <1>3, <2>1, <2>2, InductionUpTo
<1>6. /\ upto[n] \in Seq(E) /\ IsInjective(upto[n])
      /\ ToSet(upto[n]) = upTo(n) /\ Len(upto[n]) <= n
  BY <1>5
<1>7. UniqueStrings(s) = upto[n]
  BY <1>2 DEF UniqueRun
<1> HIDE DEF upTo
<1>8. QED
  BY <1>1, <1>6, <1>7 DEF n
-----------------------------------------------------------------------------
(* TrimStable, in the same way.                                              *)
WithTrimmed(kept, x, from) == IF Contains(from, x) THEN kept ELSE Append(kept, x)

SolvesTrim(h, s, from, n) ==
    h = [p \in SUBSET (1 .. n) |->
            IF p = {} THEN << >> ELSE WithTrimmed(h[p \ {Max(p)}], s[Max(p)], from)]

LEMMA TrimIsSolvable ==
    ASSUME NEW E, NEW n \in Nat, NEW s \in [1 .. n -> E], NEW from
    PROVE  \E h : SolvesTrim(h, s, from, n)
<1> DEFINE D == Seq(E)
           step == [p \in D \X E |-> WithTrimmed(p[1], p[2], from)]
<1>1. step \in [D \X E -> D] /\ << >> \in D
  BY DEF WithTrimmed
<1>2. \A u \in D, x \in E : step[<<u, x>>] = WithTrimmed(u, x, from)
  OBVIOUS
<1> HIDE DEF D, step
<1>3. PICK h \in [SUBSET (1 .. n) -> D] : SolvesFold(h, step, << >>, s, n)
  BY <1>1, FoldIsSolvable
<1>4. ASSUME NEW p \in SUBSET (1 .. n), p # {}
      PROVE  step[<<h[p \ {Max(p)}], s[Max(p)]>>] = WithTrimmed(h[p \ {Max(p)}], s[Max(p)], from)
  <2>1. Max(p) \in p
    BY <1>4, MaxIsMember
  <2>2. h[p \ {Max(p)}] \in D /\ s[Max(p)] \in E
    BY <2>1
  <2>3. QED
    BY <1>2, <2>2
<1>5. SolvesTrim(h, s, from, n)
  BY <1>3, <1>4 DEF SolvesFold, SolvesTrim
<1>6. QED
  BY <1>5

TrimRun(upto, s, from, n) ==
    /\ upto[0] = << >>
    /\ \A k \in 1 .. n : upto[k] = WithTrimmed(upto[k - 1], s[k], from)
    /\ TrimStable(s, from) = upto[n]

LEMMA TrimSteps ==
    ASSUME NEW E, NEW n \in Nat, NEW s \in [1 .. n -> E], NEW from
    PROVE  \E upto : TrimRun(upto, s, from, n)
<1> DEFINE iter == CHOOSE h : SolvesTrim(h, s, from, n)
           upto == [k \in 0 .. n |-> iter[1 .. k]]
<1>1. SolvesTrim(iter, s, from, n)
  BY TrimIsSolvable
<1>2. TrimStable(s, from) = iter[1 .. n]
  <2>1. DOMAIN s = 1 .. n
    OBVIOUS
  <2>2. QED
    BY <2>1 DEF SolvesTrim, WithTrimmed, TrimStable, FoldLeft, MapThenFoldSet
<1> HIDE DEF iter
<1>3. upto[0] = << >>
  <2>1. 1 .. 0 = {} /\ iter[{}] = << >>
    BY <1>1 DEF SolvesTrim
  <2>2. QED
    BY <2>1
<1>4. ASSUME NEW k \in 1 .. n PROVE upto[k] = WithTrimmed(upto[k - 1], s[k], from)
  <2>1. /\ 1 .. k \in SUBSET (1 .. n) /\ 1 .. k # {} /\ Max(1 .. k) = k
        /\ (1 .. k) \ {k} = 1 .. k - 1
    BY LastOfPrefix
  <2>2. iter[1 .. k] = WithTrimmed(iter[1 .. k - 1], s[k], from)
    BY <1>1, <2>1 DEF SolvesTrim
  <2>3. k \in 0 .. n /\ k - 1 \in 0 .. n
    OBVIOUS
  <2>4. QED
    BY <2>2, <2>3
<1>5. TrimStable(s, from) = upto[n]
  BY <1>2
<1> HIDE DEF upto
<1>6. TrimRun(upto, s, from, n)
  BY <1>3, <1>4, <1>5 DEF TrimRun
<1>7. QED
  BY <1>6

(* It removes the members of the other list and keeps the order of the rest.  *)
LEMMA TrimStableCorrect ==
    ASSUME NEW E, NEW s \in Seq(E), NEW from \in Seq(E)
    PROVE  /\ TrimStable(s, from) \in Seq(E)
           /\ ToSet(TrimStable(s, from)) = ToSet(s) \ ToSet(from)
           /\ Len(TrimStable(s, from)) <= Len(s)
           /\ IsInjective(s) => IsInjective(TrimStable(s, from))
<1> DEFINE n == Len(s)
           upTo(k) == {s[j] : j \in 1 .. k}
           gone == ToSet(from)
<1>1. n \in Nat /\ s \in [1 .. n -> E] /\ ToSet(s) = upTo(n) /\ DOMAIN s = 1 .. n
  <2>1. n \in Nat /\ s \in [1 .. n -> E] /\ DOMAIN s = 1 .. n
    OBVIOUS
  <2> HIDE DEF n
  <2>2. QED
    BY <2>1 DEF ToSet
<1>2. PICK upto : TrimRun(upto, s, from, n)
  BY <1>1, TrimSteps
<1> HIDE DEF n, gone
<1> DEFINE Good == {k \in 0 .. n : /\ upto[k] \in Seq(E) /\ Len(upto[k]) <= k
                                   /\ ToSet(upto[k]) = upTo(k) \ gone
                                   /\ IsInjective(s) => IsInjective(upto[k])}
<1>3. 0 \in Good
  <2> DEFINE none == << >>
  <2>1. upto[0] = none /\ upTo(0) = {} /\ 0 \in 0 .. n
    BY <1>1, <1>2 DEF TrimRun
  <2>2. none \in Seq(E) /\ IsInjective(none) /\ Len(none) <= 0 /\ ToSet(none) = {}
    BY MembersOfNone DEF IsInjective
  <2> HIDE DEF upTo, none
  <2>3. /\ upto[0] \in Seq(E) /\ Len(upto[0]) <= 0
        /\ ToSet(upto[0]) = upTo(0) \ gone
        /\ IsInjective(s) => IsInjective(upto[0])
    BY <2>1, <2>2
  <2>4. QED
    BY <2>1, <2>3
<1>4. ASSUME NEW k \in 0 .. n - 1, k \in Good PROVE k + 1 \in Good
  <2> DEFINE u == upto[k]
             x == s[k + 1]
  <2>1. upto[k + 1] = WithTrimmed(u, x, from) /\ k + 1 \in 0 .. n /\ x \in E
    <3>1. k + 1 \in 1 .. n /\ k + 1 \in 0 .. n /\ (k + 1) - 1 = k
      BY <1>1
    <3>2. upto[k + 1] = WithTrimmed(upto[(k + 1) - 1], s[k + 1], from)
      BY <1>2, <3>1 DEF TrimRun
    <3>3. QED
      BY <1>1, <3>1, <3>2
  <2>2. /\ u \in Seq(E) /\ Len(u) <= k /\ ToSet(u) = upTo(k) \ gone
        /\ IsInjective(s) => IsInjective(u)
    BY <1>4
  <2>3. upTo(k + 1) = upTo(k) \union {x}
    <3>1. 1 .. k + 1 = (1 .. k) \union {k + 1}
      OBVIOUS
    <3>2. QED
      BY <3>1
  <2>4. IsInjective(s) => x \notin upTo(k)
    <3>1. \A j \in 1 .. k : j \in 1 .. n /\ k + 1 \in 1 .. n /\ j # k + 1
      BY <1>1
    <3>2. QED
      BY <1>1, <3>1 DEF IsInjective
  <2>5. Contains(from, x) <=> x \in gone
    BY ContainsMeansMember DEF gone
  <2> HIDE DEF upTo, u, x
  <2>6. CASE Contains(from, x)
    <3>1. upto[k + 1] = u /\ Len(u) <= k + 1
      BY <2>1, <2>2, <2>6 DEF WithTrimmed
    <3>2. upTo(k + 1) \ gone = upTo(k) \ gone
      BY <2>3, <2>5, <2>6
    <3>3. QED
      BY <2>1, <2>2, <3>1, <3>2
  <2>7. CASE ~Contains(from, x)
    <3>1. upto[k + 1] = Append(u, x) /\ Len(Append(u, x)) <= k + 1
      BY <2>1, <2>2, <2>7 DEF WithTrimmed
    <3>2. Append(u, x) \in Seq(E) /\ ToSet(Append(u, x)) = ToSet(u) \union {x}
      BY <2>1, <2>2, MembersOfAppend
    <3>3. IsInjective(s) => IsInjective(Append(u, x))
      <4> SUFFICES ASSUME IsInjective(s) PROVE IsInjective(Append(u, x))
        OBVIOUS
      <4>1. x \notin ToSet(u) /\ IsInjective(u)
        BY <2>2, <2>4
      <4>2. QED
        BY <2>1, <2>2, <4>1, AppendToDistinct
    <3>4. ToSet(u) \union {x} = upTo(k + 1) \ gone
      BY <2>2, <2>3, <2>5, <2>7
    <3>5. QED
      BY <2>1, <3>1, <3>2, <3>3, <3>4
  <2>8. QED
    BY <2>6, <2>7
<1>5. n \in Good
  <2>1. \A k \in 0 .. n - 1 : k \in Good => k + 1 \in Good
    BY <1>4
  <2>2. n \in Nat /\ n \in 0 .. n
    BY <1>1
  <2> HIDE DEF Good
  <2>3. QED
    BY <1>3, <2>1, <2>2, InductionUpTo
<1>6. /\ upto[n] \in Seq(E) /\ Len(upto[n]) <= n
      /\ ToSet(upto[n]) = upTo(n) \ gone
      /\ IsInjective(s) => IsInjective(upto[n])
  BY <1>5
<1>7. TrimStable(s, from) = upto[n]
  BY <1>2 DEF TrimRun
<1> HIDE DEF upTo
<1>8. QED
  BY <1>1, <1>6, <1>7 DEF n, gone

-----------------------------------------------------------------------------
(* Lists of resource ids: those that fail, warn and are inputs, as sets; a    *)
(* resource is on the first list it belongs to.                              *)
Lists(E) == [failed : Seq(E), warning : Seq(E), passed : Seq(E)]

AreIDs(ids, E, F, W, I) ==
    /\ ids \in Lists(E)
    /\ IsInjective(ids.failed) /\ IsInjective(ids.warning) /\ IsInjective(ids.passed)
    /\ ToSet(ids.failed) = F
    /\ ToSet(ids.warning) = W \ F
    /\ ToSet(ids.passed) = I \ (F \union W)

LEMMA IDsCorrect ==
    ASSUME NEW E, NEW f \in Seq(E), NEW w \in Seq(E), NEW p \in Seq(E)
    PROVE  /\ AreIDs(IDs(f, w, p), E, ToSet(f), ToSet(w), ToSet(p))
           /\ Len(IDs(f, w, p).passed) <= Len(p)
<1> DEFINE uf == UniqueStrings(f)
           uw == UniqueStrings(w)
           up == UniqueStrings(p)
           tw == TrimStable(uw, uf)
           tp == TrimStable(up, uf \o tw)
<1>1. uf \in Seq(E) /\ IsInjective(uf) /\ ToSet(uf) = ToSet(f)
  BY UniqueStringsCorrect
<1>2. uw \in Seq(E) /\ IsInjective(uw) /\ ToSet(uw) = ToSet(w)
  BY UniqueStringsCorrect
<1>3. up \in Seq(E) /\ IsInjective(up) /\ ToSet(up) = ToSet(p) /\ Len(up) <= Len(p)
  BY UniqueStringsCorrect
<1> HIDE DEF uf, uw, up
<1>4. tw \in Seq(E) /\ IsInjective(tw) /\ ToSet(tw) = ToSet(uw) \ ToSet(uf)
  BY <1>1, <1>2, TrimStableCorrect
<1> HIDE DEF tw
<1>5. uf \o tw \in Seq(E) /\ ToSet(uf \o tw) = ToSet(uf) \union ToSet(tw)
  BY <1>1, <1>4, MembersOfConcat
<1> DEFINE both == uf \o tw
<1>6. both \in Seq(E) /\ ToSet(both) = ToSet(uf) \union ToSet(tw)
  BY <1>5
<1> HIDE DEF both
<1>7. /\ TrimStable(up, both) \in Seq(E) /\ IsInjective(TrimStable(up, both))
      /\ ToSet(TrimStable(up, both)) = ToSet(up) \ ToSet(both)
      /\ Len(TrimStable(up, both)) <= Len(up)
  BY <1>3, <1>6, TrimStableCorrect
<1>8. tp = TrimStable(up, both)
  BY DEF both
<1> HIDE DEF tp
<1>9. IDs(f, w, p) = [failed |-> uf, warning |-> tw, passed |-> tp]
  BY DEF IDs, uf, uw, up, tw, tp
<1>10. Len(tp) <= Len(p)
  <2>1. Len(p) \in Nat /\ Len(up) \in Nat /\ Len(tp) \in Nat
    BY <1>3, <1>7, <1>8
  <2>2. QED
    BY <1>3, <1>7, <1>8, <2>1
<1>11. ToSet(tp) = ToSet(p) \ (ToSet(f) \union ToSet(w))
  BY <1>1, <1>2, <1>3, <1>4, <1>6, <1>7, <1>8
<1>12. QED
  BY <1>1, <1>2, <1>4, <1>7, <1>8, <1>9, <1>10, <1>11 DEF AreIDs, Lists

LEMMA NoIDsCorrect == ASSUME NEW E PROVE AreIDs(NoIDs, E, {}, {}, {})
<1> DEFINE none == << >>
<1>1. none \in Seq(E) /\ IsInjective(none) /\ ToSet(none) = {}
  BY MembersOfNone DEF IsInjective
<1>2. NoIDs = [failed |-> none, warning |-> none, passed |-> none]
  BY DEF NoIDs
<1> HIDE DEF none
<1>3. QED
  BY <1>1, <1>2 DEF AreIDs, Lists

(* Appending lists is a union of sets, whatever earlier appends trimmed.      *)
LEMMA AppendCorrect ==
    ASSUME NEW E, NEW r, NEW a, NEW F, NEW W, NEW I, NEW G, NEW V, NEW J,
           AreIDs(r, E, F, W, I), AreIDs(a, E, G, V, J)
    PROVE  AreIDs(append(r, a), E, F \union G, W \union V, I \union J)
<1> DEFINE f == r.failed \o a.failed
           w == r.warning \o a.warning
           p == r.passed \o a.passed
<1>1. /\ r.failed \in Seq(E) /\ r.warning \in Seq(E) /\ r.passed \in Seq(E)
      /\ a.failed \in Seq(E) /\ a.warning \in Seq(E) /\ a.passed \in Seq(E)
  BY DEF AreIDs, Lists
<1>2. f \in Seq(E) /\ ToSet(f) = ToSet(r.failed) \union ToSet(a.failed)
  BY <1>1, MembersOfConcat
<1>3. w \in Seq(E) /\ ToSet(w) = ToSet(r.warning) \union ToSet(a.warning)
  BY <1>1, MembersOfConcat
<1>4. p \in Seq(E) /\ ToSet(p) = ToSet(r.passed) \union ToSet(a.passed)
  BY <1>1, MembersOfConcat
<1>5. append(r, a) = IDs(f, w, p)
  BY DEF append
<1> HIDE DEF f, w, p
<1>6. AreIDs(IDs(f, w, p), E, ToSet(f), ToSet(w), ToSet(p))
  BY <1>2, <1>3, <1>4, IDsCorrect
<1>7. /\ ToSet(f) = F \union G
      /\ ToSet(w) = (W \ F) \union (V \ G)
      /\ ToSet(p) = (I \ (F \union W)) \union (J \ (G \union V))
  BY <1>2, <1>3, <1>4 DEF AreIDs
<1>8. /\ ToSet(w) \ ToSet(f) = (W \union V) \ (F \union G)
      /\ ToSet(p) \ (ToSet(f) \union ToSet(w))
            = (I \union J) \ ((F \union G) \union (W \union V))
  BY <1>7
<1>9. QED
  BY <1>5, <1>6, <1>7, <1>8 DEF AreIDs

(* So is appending the lists of all controls, or of all rules of one.         *)
Appended(lists) == FoldLeft(append, NoIDs, lists)

SolvesAppended(h, lists, n) ==
    h = [p \in SUBSET (1 .. n) |->
            IF p = {} THEN NoIDs ELSE append(h[p \ {Max(p)}], lists[Max(p)])]

LEMMA AppendedIsSolvable ==
    ASSUME NEW E, NEW n \in Nat, NEW lists \in [1 .. n -> Lists(E)]
    PROVE  \E h : SolvesAppended(h, lists, n)
<1> DEFINE D == Lists(E)
           step == [p \in D \X D |-> append(p[1], p[2])]
<1>1. \A r, a \in D : append(r, a) \in D
  <2> SUFFICES ASSUME NEW r \in D, NEW a \in D PROVE append(r, a) \in D
    OBVIOUS
  <2> DEFINE f == r.failed \o a.failed
             w == r.warning \o a.warning
             p == r.passed \o a.passed
  <2>1. f \in Seq(E) /\ w \in Seq(E) /\ p \in Seq(E)
    BY DEF Lists
  <2>2. append(r, a) = IDs(f, w, p)
    BY DEF append
  <2> HIDE DEF f, w, p
  <2>3. AreIDs(IDs(f, w, p), E, ToSet(f), ToSet(w), ToSet(p))
    BY <2>1, IDsCorrect
  <2>4. QED
    BY <2>2, <2>3 DEF AreIDs
<1>2. NoIDs \in D
  BY NoIDsCorrect DEF AreIDs
<1> HIDE DEF D
<1>3. step \in [D \X D -> D]
  BY <1>1
<1>4. \A r, a \in D : step[<<r, a>>] = append(r, a)
  OBVIOUS
<1>5. lists \in [1 .. n -> D]
  BY DEF D
<1> HIDE DEF step
<1>6. PICK h \in [SUBSET (1 .. n) -> D] : SolvesFold(h, step, NoIDs, lists, n)
  BY <1>2, <1>3, <1>5, FoldIsSolvable
<1>7. ASSUME NEW p \in SUBSET (1 .. n), p # {}
      PROVE  step[<<h[p \ {Max(p)}], lists[Max(p)]>>] = append(h[p \ {Max(p)}], lists[Max(p)])
  <2>1. Max(p) \in p
    BY <1>7, MaxIsMember
  <2>2. h[p \ {Max(p)}] \in D /\ lists[Max(p)] \in D
    BY <1>5, <2>1
  <2>3. QED
    BY <1>4, <2>2
<1>8. SolvesAppended(h, lists, n)
  BY <1>6, <1>7 DEF SolvesFold, SolvesAppended
<1>9. QED
  BY <1>8

AppendedRun(upto, lists, n) ==
    /\ upto[0] = NoIDs
    /\ \A k \in 1 .. n : upto[k] = append(upto[k - 1], lists[k])
    /\ Appended(lists) = upto[n]

LEMMA AppendedSteps ==
    ASSUME NEW E, NEW n \in Nat, NEW lists \in [1 .. n -> Lists(E)]
    PROVE  \E upto : AppendedRun(upto, lists, n)
<1> DEFINE iter == CHOOSE h : SolvesAppended(h, lists, n)
           upto == [k \in 0 .. n |-> iter[1 .. k]]
<1>1. SolvesAppended(iter, lists, n)
  BY AppendedIsSolvable
<1>2. Appended(lists) = iter[1 .. n]
  <2>1. DOMAIN lists = 1 .. n
    OBVIOUS
  <2>2. QED
    BY <2>1 DEF SolvesAppended, Appended, FoldLeft, MapThenFoldSet
<1> HIDE DEF iter
<1>3. upto[0] = NoIDs
  <2>1. 1 .. 0 = {} /\ iter[{}] = NoIDs
    BY <1>1 DEF SolvesAppended
  <2>2. QED
    BY <2>1
<1>4. ASSUME NEW k \in 1 .. n PROVE upto[k] = append(upto[k - 1], lists[k])
  <2>1. /\ 1 .. k \in SUBSET (1 .. n) /\ 1 .. k # {} /\ Max(1 .. k) = k
        /\ (1 .. k) \ {k} = 1 .. k - 1
    BY LastOfPrefix
  <2>2. iter[1 .. k] = append(iter[1 .. k - 1], lists[k])
    BY <1>1, <2>1 DEF SolvesAppended
  <2>3. k \in 0 .. n /\ k - 1 \in 0 .. n
    OBVIOUS
  <2>4. QED
    BY <2>2, <2>3
<1>5. Appended(lists) = upto[n]
  BY <1>2
<1> HIDE DEF upto
<1>6. AppendedRun(upto, lists, n)
  BY <1>3, <1>4, <1>5 DEF AppendedRun
<1>7. QED
  BY <1>6

AllOf(sets, n) == UNION {sets[k] : k \in 1 .. n}

LEMMA AppendedCorrect ==
    ASSUME NEW E, NEW n \in Nat, NEW lists, lists = [k \in 1 .. n |-> lists[k]],
           NEW F, NEW W, NEW I,
           \A k \in 1 .. n : AreIDs(lists[k], E, F[k], W[k], I[k])
    PROVE  AreIDs(Appended(lists), E, AllOf(F, n), AllOf(W, n), AllOf(I, n))
<1> DEFINE f(m) == UNION {F[k] : k \in 1 .. m}
           w(m) == UNION {W[k] : k \in 1 .. m}
           i(m) == UNION {I[k] : k \in 1 .. m}
<1>1. lists \in [1 .. n -> Lists(E)]
  BY DEF AreIDs
<1>2. PICK upto : AppendedRun(upto, lists, n)
  BY <1>1, AppendedSteps
<1> DEFINE Good == {m \in 0 .. n : AreIDs(upto[m], E, f(m), w(m), i(m))}
<1>3. 0 \in Good
  <2>1. f(0) = {} /\ w(0) = {} /\ i(0) = {} /\ upto[0] = NoIDs /\ 0 \in 0 .. n
    BY <1>2 DEF AppendedRun
  <2> HIDE DEF f, w, i
  <2>2. AreIDs(upto[0], E, f(0), w(0), i(0))
    BY <2>1, NoIDsCorrect
  <2>3. QED
    BY <2>1, <2>2
<1>4. ASSUME NEW m \in 0 .. n - 1, m \in Good PROVE m + 1 \in Good
  <2> DEFINE k == m + 1
  <2>1. upto[k] = append(upto[m], lists[k]) /\ k \in 1 .. n /\ k \in 0 .. n
    <3>1. k \in 1 .. n /\ k \in 0 .. n /\ k - 1 = m
      OBVIOUS
    <3> HIDE DEF k
    <3>2. upto[k] = append(upto[k - 1], lists[k])
      BY <1>2, <3>1 DEF AppendedRun
    <3>3. QED
      BY <3>1, <3>2
  <2>2. AreIDs(upto[m], E, f(m), w(m), i(m)) /\ AreIDs(lists[k], E, F[k], W[k], I[k])
    BY <1>4, <2>1
  <2>3. f(k) = f(m) \union F[k] /\ w(k) = w(m) \union W[k] /\ i(k) = i(m) \union I[k]
    <3>1. 1 .. k = (1 .. m) \union {k}
      OBVIOUS
    <3> HIDE DEF k
    <3>2. QED
      BY <3>1
  <2> HIDE DEF f, w, i, k
  <2>4. AreIDs(append(upto[m], lists[k]), E, f(m) \union F[k], w(m) \union W[k], i(m) \union I[k])
    BY <2>2, AppendCorrect
  <2>5. AreIDs(upto[k], E, f(k), w(k), i(k))
    BY <2>1, <2>3, <2>4
  <2>6. QED
    BY <2>1, <2>5 DEF k
<1>5. n \in Good
  <2>1. \A m \in 0 .. n - 1 : m \in Good => m + 1 \in Good
    BY <1>4
  <2>2. n \in Nat /\ n \in 0 .. n
    OBVIOUS
  <2> HIDE DEF Good
  <2>3. QED
    BY <1>3, <2>1, <2>2, InductionUpTo
<1>6. AreIDs(upto[n], E, f(n), w(n), i(n))
  BY <1>5
<1>7. AllOf(F, n) = f(n) /\ AllOf(W, n) = w(n) /\ AllOf(I, n) = i(n)
  BY DEF AllOf
<1> HIDE DEF f, w, i
<1>8. QED
  BY <1>2, <1>6, <1>7 DEF AppendedRun

(* What is counted is the size of the sets.                                  *)
CountersFor(F, W, I) ==
    [total |-> Cardinality(F \union W \union I), failed |-> Cardinality(F),
     warning |-> Cardinality(W \ F)]

LEMMA DisjointUnion ==
    ASSUME NEW S, IsFiniteSet(S), NEW T, IsFiniteSet(T), S \cap T = {}
    PROVE  IsFiniteSet(S \union T) /\ Cardinality(S \union T) = Cardinality(S) + Cardinality(T)
<1>1. Cardinality(S \cap T) = 0 /\ Cardinality(S) \in Nat /\ Cardinality(T) \in Nat
  BY FS_EmptySet, FS_CardinalityType
<1>2. /\ IsFiniteSet(S \union T)
      /\ Cardinality(S \union T) = Cardinality(S) + Cardinality(T) - Cardinality(S \cap T)
  BY FS_Union
<1>3. QED
  BY <1>1, <1>2

LEMMA CountersOfIDs ==
    ASSUME NEW E, NEW ids, NEW F, NEW W, NEW I, AreIDs(ids, E, F, W, I)
    PROVE  /\ Counters(ids) = CountersFor(F, W, I)
           /\ CountersOK(Counters(ids))
           /\ Counters(ids).total \in Nat
<1> DEFINE P == I \ (F \union W)
           V == W \ F
<1>1. /\ IsFiniteSet(F) /\ Cardinality(F) = Len(ids.failed) /\ Len(ids.failed) \in Nat
      /\ IsFiniteSet(V) /\ Cardinality(V) = Len(ids.warning) /\ Len(ids.warning) \in Nat
      /\ IsFiniteSet(P) /\ Cardinality(P) = Len(ids.passed) /\ Len(ids.passed) \in Nat
  BY LengthOfDistinct DEF AreIDs, Lists
<1>2. Len(GetAllResources(ids)) = Len(ids.failed) + Len(ids.warning) + Len(ids.passed)
  BY DEF GetAllResources, AreIDs, Lists
<1>3. /\ F \cap V = {} /\ (F \union V) \cap P = {}
      /\ (F \union V) \union P = F \union W \union I
  OBVIOUS
<1> HIDE DEF P, V
<1>4. IsFiniteSet(F \union V) /\ Cardinality(F \union V) = Cardinality(F) + Cardinality(V)
  BY <1>1, <1>3, DisjointUnion
<1> DEFINE B == F \union V
<1>5. Cardinality(B \union P) = Cardinality(B) + Cardinality(P)
  BY <1>1, <1>3, <1>4, DisjointUnion
<1>6. Counters(ids) = [total |-> Cardinality(B) + Cardinality(P),
                       failed |-> Cardinality(F), warning |-> Cardinality(V)]
  BY <1>1, <1>2, <1>4 DEF Counters
<1>7. Counters(ids) = CountersFor(F, W, I)
  BY <1>3, <1>5, <1>6 DEF CountersFor, V
<1>8. /\ Counters(ids).total = Len(ids.failed) + Len(ids.warning) + Len(ids.passed)
      /\ Counters(ids).failed = Len(ids.failed) /\ Counters(ids).warning = Len(ids.warning)
  BY <1>2 DEF Counters
<1>9. CountersOK(Counters(ids)) /\ Counters(ids).total \in Nat
  <2> DEFINE k == Counters(ids)
             f == Len(ids.failed)
             w == Len(ids.warning)
             p == Len(ids.passed)
  <2>1. f \in Nat /\ w \in Nat /\ p \in Nat
    BY <1>1
  <2>2. k.total = f + w + p /\ k.failed = f /\ k.warning = w
    BY <1>8
  <2> HIDE DEF k, f, w, p
  <2>3. CountersOK(k) /\ k.total \in Nat
    BY <2>1, <2>2 DEF CountersOK
  <2>4. QED
    BY <2>3 DEF k
<1>10. QED
  BY <1>7, <1>9

-----------------------------------------------------------------------------
(* A rule: what it alerts on is as the scan gave it; its inputs may be        *)
(* rearranged and its responses excepted.                                    *)
From(rule, raw) ==
    /\ rule = [responses |-> rule.responses, inputs |-> rule.inputs]
    /\ rule.inputs \in Seq(ResourceID) /\ Len(rule.inputs) = Len(raw.inputs)
    /\ rule.responses = [i \in DOMAIN raw.responses |-> rule.responses[i]]
    /\ \A i \in DOMAIN raw.responses :
          rule.responses[i] = [resources |-> raw.responses[i].resources,
                               exception |-> rule.responses[i].exception]

IsRule(rule) == \E raw \in RawRule : From(rule, raw)

Failing(rule) == ToSet(GetFailedResources(rule))
Warned(rule) == ToSet(GetWarnignResources(rule))
Input(rule) == ToSet(rule.inputs)

LEMMA ResponsesOfRule ==
    ASSUME NEW rule, IsRule(rule)
    PROVE  \E n \in Nat :
              /\ DOMAIN rule.responses = 1 .. n
              /\ \A i \in 1 .. n : /\ rule.responses[i].resources \in Seq(ResourceID)
                                   /\ ToSet(rule.responses[i].resources) # {}
<1>1. PICK raw \in RawRule : From(rule, raw)
  BY DEF IsRule
<1>2. raw.responses \in Seq(RawResponse)
  BY DEF RawRule
<1>3. PICK n \in Nat : raw.responses \in [1 .. n -> RawResponse]
  BY <1>2
<1>4. DOMAIN rule.responses = 1 .. n
  BY <1>1, <1>3 DEF From
<1>5. ASSUME NEW i \in 1 .. n
      PROVE  /\ rule.responses[i].resources \in Seq(ResourceID)
             /\ ToSet(rule.responses[i].resources) # {}
  <2> DEFINE s == rule.responses[i].resources
  <2>1. raw.responses[i] \in RawResponse /\ s = raw.responses[i].resources
    <3>1. raw.responses[i] \in RawResponse /\ i \in DOMAIN raw.responses
      BY <1>3
    <3>2. rule.responses[i] = [resources |-> raw.responses[i].resources,
                               exception |-> rule.responses[i].exception]
      BY <1>1, <3>1 DEF From
    <3>3. QED
      BY <3>1, <3>2
  <2>2. s \in Seq(ResourceID) /\ s # << >>
    BY <2>1 DEF RawResponse
  <2> HIDE DEF s
  <2>3. 1 \in DOMAIN s
    BY <2>2
  <2>4. ToSet(s) # {}
    BY <2>3 DEF ToSet
  <2>5. QED
    BY <2>2, <2>4 DEF s
<1>6. QED
  BY <1>4, <1>5

LEMMA ResourcesOfRule ==
    ASSUME NEW rule, IsRule(rule)
    PROVE  /\ GetFailedResources(rule) \in Seq(ResourceID)
           /\ Failing(rule) = UNION {ToSet(FailedOf(rule.responses[i])) : i \in DOMAIN rule.responses}
           /\ GetWarnignResources(rule) \in Seq(ResourceID)
           /\ Warned(rule) = UNION {ToSet(WarningOf(rule.responses[i])) : i \in DOMAIN rule.responses}
<1>1. PICK n \in Nat :
          /\ DOMAIN rule.responses = 1 .. n
          /\ \A i \in 1 .. n : rule.responses[i].resources \in Seq(ResourceID)
  BY ResponsesOfRule
<1> DEFINE failed == [i \in 1 .. n |-> FailedOf(rule.responses[i])]
           warning == [i \in 1 .. n |-> WarningOf(rule.responses[i])]
<1>2. failed \in [1 .. n -> Seq(ResourceID)] /\ warning \in [1 .. n -> Seq(ResourceID)]
  BY <1>1 DEF FailedOf, WarningOf
<1>3. GetFailedResources(rule) = FlattenSeq(failed) /\ GetWarnignResources(rule) = FlattenSeq(warning)
  BY <1>1 DEF GetFailedResources, GetWarnignResources
<1>4. /\ MembersOf(failed, n) = UNION {ToSet(FailedOf(rule.responses[i])) : i \in 1 .. n}
      /\ MembersOf(warning, n) = UNION {ToSet(WarningOf(rule.responses[i])) : i \in 1 .. n}
  BY DEF MembersOf
<1> HIDE DEF failed, warning
<1>5. /\ FlattenSeq(failed) \in Seq(ResourceID) /\ ToSet(FlattenSeq(failed)) = MembersOf(failed, n)
      /\ FlattenSeq(warning) \in Seq(ResourceID)
      /\ ToSet(FlattenSeq(warning)) = MembersOf(warning, n)
  BY <1>2, FlattenMembers
<1>6. QED
  BY <1>1, <1>3, <1>4, <1>5 DEF Failing, Warned

(* The status of a rule, asked of its responses, and the resources listed.    *)
LEMMA StatusOfRule ==
    ASSUME NEW rule, IsRule(rule)
    PROVE  /\ RuleFailed(rule) <=> Failing(rule) # {}
           /\ RulePassed(rule) => Warned(rule) = {}
<1>1. PICK n \in Nat :
          /\ DOMAIN rule.responses = 1 .. n
          /\ \A i \in 1 .. n : ToSet(rule.responses[i].resources) # {}
  BY ResponsesOfRule
<1>2. \A i \in 1 .. n : ToSet(FailedOf(rule.responses[i])) # {} <=> ResponseFailed(rule.responses[i])
  <2> SUFFICES ASSUME NEW i \in 1 .. n
               PROVE  ToSet(FailedOf(rule.responses[i])) # {} <=> ResponseFailed(rule.responses[i])
    OBVIOUS
  <2>1. CASE ResponseFailed(rule.responses[i])
    BY <1>1, <2>1 DEF FailedOf
  <2>2. CASE ~ResponseFailed(rule.responses[i])
    <3>1. FailedOf(rule.responses[i]) = << >>
      BY <2>2 DEF FailedOf
    <3>2. QED
      BY <2>2, <3>1, MembersOfNone
  <2>3. QED
    BY <2>1, <2>2
<1>3. RuleFailed(rule) <=> Failing(rule) # {}
  <2>1. RuleFailed(rule) <=> \E i \in 1 .. n : ResponseFailed(rule.responses[i])
    BY <1>1 DEF RuleFailed
  <2>2. Failing(rule) = UNION {ToSet(FailedOf(rule.responses[i])) : i \in 1 .. n}
    BY <1>1, ResourcesOfRule
  <2>3. Failing(rule) # {} <=> \E i \in 1 .. n : ToSet(FailedOf(rule.responses[i])) # {}
    BY <2>2
  <2>4. QED
    BY <1>2, <2>1, <2>3
<1>4. RulePassed(rule) => Warned(rule) = {}
  <2> SUFFICES ASSUME RulePassed(rule) PROVE Warned(rule) = {}
    OBVIOUS
  <2>1. DOMAIN rule.responses = {}
    BY DEF RulePassed
  <2>2. QED
    BY <2>1, ResourcesOfRule
<1>5. QED
  BY <1>3, <1>4

LEMMA RuleIDsCorrect ==
    ASSUME NEW rule, IsRule(rule)
    PROVE  /\ AreIDs(RuleIDs(rule), ResourceID, Failing(rule), Warned(rule), Input(rule))
           /\ Len(RuleIDs(rule).passed) <= Len(rule.inputs)
<1> DEFINE f == GetFailedResources(rule)
           w == GetWarnignResources(rule)
           p == rule.inputs
<1>1. f \in Seq(ResourceID) /\ w \in Seq(ResourceID)
  BY ResourcesOfRule
<1>2. p \in Seq(ResourceID)
  BY DEF IsRule, From
<1>3. RuleIDs(rule) = IDs(f, w, p)
  BY DEF RuleIDs
<1>4. Failing(rule) = ToSet(f) /\ Warned(rule) = ToSet(w) /\ Input(rule) = ToSet(p)
  BY DEF Failing, Warned, Input
<1> HIDE DEF f, w, p
<1>5. AreIDs(IDs(f, w, p), ResourceID, ToSet(f), ToSet(w), ToSet(p))
      /\ Len(IDs(f, w, p).passed) <= Len(p)
  BY <1>1, <1>2, IDsCorrect
<1>6. QED
  BY <1>3, <1>4, <1>5 DEF p

(* What is left of an array of which the front is overwritten.                *)
LEMMA InPlaceCorrect ==
    ASSUME NEW E, NEW array \in Seq(E), NEW result \in Seq(E), Len(result) <= Len(array)
    PROVE  /\ InPlace(array, result) \in Seq(E)
           /\ Len(InPlace(array, result)) = Len(array)
           /\ ToSet(result) \subseteq ToSet(InPlace(array, result))
           /\ ToSet(InPlace(array, result)) \subseteq ToSet(result) \union ToSet(array)
<1> DEFINE m == Len(result)
           n == Len(array)
           tail == SubSeq(array, m + 1, n)
<1>1. m \in Nat /\ n \in Nat /\ m <= n /\ DOMAIN array = 1 .. n
  OBVIOUS
<1>2. tail = [i \in 1 .. n - m |-> array[i + m]] /\ Len(tail) = n - m /\ tail \in Seq(E)
  BY <1>1
<1>3. ToSet(tail) \subseteq ToSet(array)
  <2>1. DOMAIN tail = 1 .. n - m /\ \A i \in 1 .. n - m : tail[i] = array[i + m] /\ i + m \in 1 .. n
    BY <1>1, <1>2
  <2> HIDE DEF tail, m, n
  <2>2. QED
    BY <1>1, <2>1 DEF ToSet
<1> HIDE DEF tail
<1>4. result \o tail \in Seq(E) /\ ToSet(result \o tail) = ToSet(result) \union ToSet(tail)
  BY <1>2, MembersOfConcat
<1>5. Len(result \o tail) = n
  BY <1>1, <1>2
<1>6. InPlace(array, result) = result \o tail
  BY DEF InPlace, tail
<1>7. QED
  BY <1>3, <1>4, <1>5, <1>6

(* Listing the resources of a rule rearranges its inputs and loses only those *)
(* that fail or warn.                                                        *)
Covers(rule) == Failing(rule) \union Warned(rule) \union Input(rule)

LEMMA ListedCorrect ==
    ASSUME NEW raw \in RawRule, NEW rule, From(rule, raw)
    PROVE  /\ From(Listed(rule), raw)
           /\ Failing(Listed(rule)) = Failing(rule) /\ Warned(Listed(rule)) = Warned(rule)
           /\ Covers(Listed(rule)) = Covers(rule)
<1> DEFINE s == rule.inputs
           u == UniqueStrings(s)
           unique == InPlace(s, u)
           passed == RuleIDs(rule).passed
           t == InPlace(unique, passed)
<1>1. IsRule(rule) /\ s \in Seq(ResourceID) /\ Len(s) = Len(raw.inputs)
  BY DEF IsRule, From
<1>2. /\ AreIDs(RuleIDs(rule), ResourceID, Failing(rule), Warned(rule), Input(rule))
      /\ Len(passed) <= Len(s)
  BY <1>1, RuleIDsCorrect
<1>3. passed \in Seq(ResourceID) /\ ToSet(passed) = ToSet(s) \ (Failing(rule) \union Warned(rule))
  BY <1>2 DEF AreIDs, Lists, Input
<1>4. Listed(rule) = [rule EXCEPT !.inputs = t]
  BY DEF Listed
<1> HIDE DEF s, passed
<1>5. u \in Seq(ResourceID) /\ ToSet(u) = ToSet(s) /\ Len(u) <= Len(s)
  BY <1>1, UniqueStringsCorrect
<1> HIDE DEF u
<1>6. /\ unique \in Seq(ResourceID) /\ Len(unique) = Len(s)
      /\ ToSet(unique) \subseteq ToSet(s)
  BY <1>1, <1>5, InPlaceCorrect
<1> HIDE DEF unique
<1>7. /\ t \in Seq(ResourceID) /\ Len(t) = Len(s)
      /\ ToSet(passed) \subseteq ToSet(t) /\ ToSet(t) \subseteq ToSet(passed) \union ToSet(unique)
  BY <1>2, <1>3, <1>6, InPlaceCorrect
<1> HIDE DEF t
<1>8. Listed(rule).inputs = t /\ Listed(rule).responses = rule.responses
  BY <1>4 DEF From
<1>9. From(Listed(rule), raw)
  BY <1>1, <1>4, <1>7, <1>8 DEF From
<1>10. Failing(Listed(rule)) = Failing(rule) /\ Warned(Listed(rule)) = Warned(rule)
  BY <1>8 DEF Failing, Warned, GetFailedResources, GetWarnignResources
<1>11. Covers(Listed(rule)) = Covers(rule)
  BY <1>3, <1>6, <1>7, <1>8, <1>10 DEF Covers, Input, s
<1>12. QED
  BY <1>9, <1>10, <1>11

-----------------------------------------------------------------------------
(* Controls and reports: the lists of all rules below are those of the sets   *)
(* of all rules below.                                                       *)
IsControl(rules) ==
    \E n \in Nat : rules = [r \in 1 .. n |-> rules[r]] /\ \A r \in 1 .. n : IsRule(rules[r])

IsReport(report) ==
    \E n \in Nat : report = [c \in 1 .. n |-> report[c]] /\ \A c \in 1 .. n : IsControl(report[c])

AllWarned(rules) == UNION {Warned(rule) : rule \in rules}

AreIDsOf(ids, rules) ==
    AreIDs(ids, ResourceID, FailedResources(rules), AllWarned(rules), Inputs(rules))

LEMMA ControlIDsCorrect ==
    ASSUME NEW rules, IsControl(rules)
    PROVE  AreIDsOf(ControlIDs(rules), {rules[r] : r \in DOMAIN rules})
<1>1. PICK n \in Nat : rules = [r \in 1 .. n |-> rules[r]] /\ \A r \in 1 .. n : IsRule(rules[r])
  BY DEF IsControl
<1> DEFINE lists == [r \in 1 .. n |-> RuleIDs(rules[r])]
           F == [r \in 1 .. n |-> Failing(rules[r])]
           W == [r \in 1 .. n |-> Warned(rules[r])]
           I == [r \in 1 .. n |-> Input(rules[r])]
           S == {rules[r] : r \in DOMAIN rules}
<1>2. DOMAIN rules = 1 .. n
  BY <1>1
<1>3. \A r \in 1 .. n : AreIDs(lists[r], ResourceID, F[r], W[r], I[r])
  BY <1>1, RuleIDsCorrect
<1>4. /\ AllOf(F, n) = FailedResources(S)
      /\ AllOf(W, n) = AllWarned(S)
      /\ AllOf(I, n) = Inputs(S)
  BY <1>2 DEF AllOf, FailedResources, AllWarned, Inputs, Failing, Input
<1>5. ControlIDs(rules) = Appended(lists)
  BY <1>2 DEF ControlIDs, Appended
<1>6. lists = [r \in 1 .. n |-> lists[r]]
  OBVIOUS
<1> HIDE DEF lists, F, W, I, S
<1>7. AreIDs(Appended(lists), ResourceID, AllOf(F, n), AllOf(W, n), AllOf(I, n))
  BY <1>3, <1>6, AppendedCorrect
<1>8. QED
  BY <1>4, <1>5, <1>7 DEF AreIDsOf, S

LEMMA RulesOfReport ==
    ASSUME NEW report, IsReport(report)
    PROVE  /\ \A c \in DOMAIN report : IsControl(report[c])
           /\ \A rule \in AllRules(report) : IsRule(rule)
           /\ \A c \in DOMAIN report : \A r \in DOMAIN report[c] : IsRule(report[c][r])
<1>1. \A c \in DOMAIN report : IsControl(report[c])
  BY DEF IsReport
<1>2. \A c \in DOMAIN report : \A r \in DOMAIN report[c] : IsRule(report[c][r])
  BY <1>1 DEF IsControl
<1>3. QED
  BY <1>1, <1>2 DEF AllRules, RulesOf

LEMMA FrameworkIDsCorrect ==
    ASSUME NEW report, IsReport(report)
    PROVE  AreIDsOf(FrameworkIDs(report), AllRules(report))
<1>1. PICK n \in Nat :
          report = [c \in 1 .. n |-> report[c]] /\ \A c \in 1 .. n : IsControl(report[c])
  BY DEF IsReport
<1> DEFINE lists == [c \in 1 .. n |-> ControlIDs(report[c])]
           F == [c \in 1 .. n |-> FailedResources(RulesOf(report, c))]
           W == [c \in 1 .. n |-> AllWarned(RulesOf(report, c))]
           I == [c \in 1 .. n |-> Inputs(RulesOf(report, c))]
<1>2. DOMAIN report = 1 .. n
  BY <1>1
<1>3. \A c \in 1 .. n : AreIDs(lists[c], ResourceID, F[c], W[c], I[c])
  BY <1>1, ControlIDsCorrect DEF AreIDsOf, RulesOf
<1>4. /\ AllOf(F, n) = FailedResources(AllRules(report))
      /\ AllOf(W, n) = AllWarned(AllRules(report))
      /\ AllOf(I, n) = Inputs(AllRules(report))
  BY <1>2 DEF AllOf, FailedResources, AllWarned, Inputs, AllRules
<1>5. FrameworkIDs(report) = Appended(lists)
  BY <1>2 DEF FrameworkIDs, Appended
<1>6. lists = [c \in 1 .. n |-> lists[c]]
  OBVIOUS
<1> HIDE DEF lists, F, W, I
<1>7. AreIDs(Appended(lists), ResourceID, AllOf(F, n), AllOf(W, n), AllOf(I, n))
  BY <1>3, <1>6, AppendedCorrect
<1>8. QED
  BY <1>4, <1>5, <1>7 DEF AreIDsOf

(* The counters as sets, and what a count records.                           *)
CountersOf(rules) == CountersFor(FailedResources(rules), AllWarned(rules), Inputs(rules))

Recorded(report) ==
    [framework |-> CountersOf(AllRules(report)),
     controls |-> [c \in DOMAIN report |-> CountersOf(RulesOf(report, c))],
     rules |-> [c \in DOMAIN report |->
                  [r \in DOMAIN report[c] |-> CountersOf({report[c][r]})]]]

LEMMA CountersOfFramework ==
    ASSUME NEW report, IsReport(report)
    PROVE  /\ Counters(FrameworkIDs(report)) = CountersOf(AllRules(report))
           /\ CountersOK(CountersOf(AllRules(report)))
           /\ CountersOf(AllRules(report)).total \in Nat
BY FrameworkIDsCorrect, CountersOfIDs DEF AreIDsOf, CountersOf

LEMMA CountersOfControls ==
    ASSUME NEW report, IsReport(report), NEW c \in DOMAIN report
    PROVE  /\ Counters(ControlIDs(report[c])) = CountersOf(RulesOf(report, c))
           /\ CountersOK(CountersOf(RulesOf(report, c)))
           /\ CountersOf(RulesOf(report, c)).total \in Nat
<1>1. AreIDsOf(ControlIDs(report[c]), RulesOf(report, c))
  BY RulesOfReport, ControlIDsCorrect DEF RulesOf
<1>2. QED
  BY <1>1, CountersOfIDs DEF AreIDsOf, CountersOf

LEMMA CountersOfRules ==
    ASSUME NEW rule, IsRule(rule)
    PROVE  /\ Counters(RuleIDs(rule)) = CountersOf({rule})
           /\ CountersOK(CountersOf({rule}))
<1>1. /\ FailedResources({rule}) = Failing(rule) /\ AllWarned({rule}) = Warned(rule)
      /\ Inputs({rule}) = Input(rule)
  BY DEF FailedResources, AllWarned, Inputs, Failing, Input
<1>2. AreIDs(RuleIDs(rule), ResourceID, Failing(rule), Warned(rule), Input(rule))
  BY RuleIDsCorrect
<1>3. QED
  BY <1>1, <1>2, CountersOfIDs DEF CountersOf

(* Listing changes none of these sets.                                       *)
LEMMA ListedRules ==
    ASSUME NEW S, \A rule \in S : IsRule(rule)
    PROVE  LET L == {Listed(rule) : rule \in S}
           IN  /\ \A rule \in L : IsRule(rule)
               /\ CountersOf(L) = CountersOf(S)
<1> DEFINE L == {Listed(rule) : rule \in S}
<1>1. \A rule \in S : /\ IsRule(Listed(rule))
                      /\ Failing(Listed(rule)) = Failing(rule)
                      /\ Warned(Listed(rule)) = Warned(rule)
                      /\ Covers(Listed(rule)) = Covers(rule)
  BY ListedCorrect DEF IsRule
<1>2. FailedResources(L) = FailedResources(S) /\ AllWarned(L) = AllWarned(S)
  BY <1>1 DEF FailedResources, AllWarned, Failing
<1>3. UNION {Covers(rule) : rule \in L} = UNION {Covers(rule) : rule \in S}
  BY <1>1
<1>4. ASSUME NEW R
      PROVE  FailedResources(R) \union AllWarned(R) \union Inputs(R) = UNION {Covers(rule) : rule \in R}
  BY DEF FailedResources, AllWarned, Inputs, Covers, Failing, Input
<1>5. CountersOf(L) = CountersOf(S)
  BY <1>2, <1>3, <1>4 DEF CountersOf, CountersFor
<1>6. QED
  BY <1>1, <1>5

LEMMA ListedReport ==
    ASSUME NEW report, IsReport(report)
    PROVE  IsReport(AllListed(report)) /\ Recorded(AllListed(report)) = Recorded(report)
<1> DEFINE l == AllListed(report)
<1>1. PICK n \in Nat :
          report = [c \in 1 .. n |-> report[c]] /\ \A c \in 1 .. n : IsControl(report[c])
  BY DEF IsReport
<1>2. /\ DOMAIN report = 1 .. n /\ DOMAIN l = 1 .. n
      /\ \A c \in 1 .. n : l[c] = [r \in DOMAIN report[c] |-> Listed(report[c][r])]
      /\ l = [c \in 1 .. n |-> l[c]]
  BY <1>1 DEF AllListed
<1> HIDE DEF l
<1>3. \A rule : IsRule(rule) => IsRule(Listed(rule))
  BY ListedCorrect DEF IsRule
<1>4. ASSUME NEW c \in 1 .. n PROVE IsControl(l[c]) /\ DOMAIN l[c] = DOMAIN report[c]
  <2>1. PICK m \in Nat : /\ report[c] = [r \in 1 .. m |-> report[c][r]]
                         /\ \A r \in 1 .. m : IsRule(report[c][r])
    BY <1>1 DEF IsControl
  <2>2. DOMAIN report[c] = 1 .. m
    BY <2>1
  <2>3. l[c] = [r \in 1 .. m |-> Listed(report[c][r])]
    BY <1>2, <2>2
  <2>4. l[c] = [r \in 1 .. m |-> l[c][r]] /\ \A r \in 1 .. m : IsRule(l[c][r])
    BY <1>3, <2>1, <2>3
  <2>5. QED
    BY <2>2, <2>3, <2>4 DEF IsControl
<1>5. IsReport(l)
  BY <1>2, <1>4 DEF IsReport
<1>6. ASSUME NEW c \in 1 .. n PROVE RulesOf(l, c) = {Listed(rule) : rule \in RulesOf(report, c)}
  BY <1>2, <1>4 DEF RulesOf
<1>7. AllRules(l) = {Listed(rule) : rule \in AllRules(report)}
  BY <1>2, <1>6 DEF AllRules
<1>8. CountersOf(AllRules(l)) = CountersOf(AllRules(report))
  BY <1>7, RulesOfReport, ListedRules
<1>9. \A c \in 1 .. n : CountersOf(RulesOf(l, c)) = CountersOf(RulesOf(report, c))
  <2> SUFFICES ASSUME NEW c \in 1 .. n
               PROVE  CountersOf(RulesOf(l, c)) = CountersOf(RulesOf(report, c))
    OBVIOUS
  <2>1. \A rule \in RulesOf(report, c) : IsRule(rule)
    BY <1>2, RulesOfReport DEF RulesOf
  <2>2. QED
    BY <1>6, <2>1, ListedRules
<1>10. \A c \in 1 .. n : \A r \in DOMAIN report[c] :
           CountersOf({l[c][r]}) = CountersOf({report[c][r]})
  <2> SUFFICES ASSUME NEW c \in 1 .. n, NEW r \in DOMAIN report[c]
               PROVE  CountersOf({l[c][r]}) = CountersOf({report[c][r]})
    OBVIOUS
  <2> DEFINE S == {report[c][r]}
  <2>1. \A rule \in S : IsRule(rule)
    BY <1>2, RulesOfReport
  <2>2. {l[c][r]} = {Listed(rule) : rule \in S}
    BY <1>2
  <2> HIDE DEF S
  <2>3. CountersOf({l[c][r]}) = CountersOf(S)
    BY <2>1, <2>2, ListedRules
  <2>4. QED
    BY <2>3 DEF S
<1>11. Recorded(l) = Recorded(report)
  <2>1. [c \in DOMAIN l |-> CountersOf(RulesOf(l, c))]
            = [c \in DOMAIN report |-> CountersOf(RulesOf(report, c))]
    BY <1>2, <1>9
  <2>2. [c \in DOMAIN l |-> [r \in DOMAIN l[c] |-> CountersOf({l[c][r]})]]
            = [c \in DOMAIN report |-> [r \in DOMAIN report[c] |-> CountersOf({report[c][r]})]]
    BY <1>2, <1>4, <1>10
  <2>3. QED
    BY <1>8, <2>1, <2>2 DEF Recorded
<1>12. QED
  BY <1>5, <1>11 DEF l

-----------------------------------------------------------------------------
(* A report stays the one the scan gave but for the order of inputs and the   *)
(* exceptions.                                                               *)
ReportFrom(report, raw) ==
    /\ report = [c \in DOMAIN raw |-> report[c]]
    /\ \A c \in DOMAIN raw :
          /\ report[c] = [r \in DOMAIN raw[c] |-> report[c][r]]
          /\ \A r \in DOMAIN raw[c] : From(report[c][r], raw[c][r])

LEMMA RawReport ==
    ASSUME NEW raw \in Reports
    PROVE  /\ \E n \in Nat : DOMAIN raw = 1 .. n
           /\ \A c \in DOMAIN raw : \E m \in Nat : DOMAIN raw[c] = 1 .. m
           /\ \A c \in DOMAIN raw : \A r \in DOMAIN raw[c] : raw[c][r] \in RawRule
           /\ ReportFrom(raw, raw)
<1>1. raw \in Seq(Seq(RawRule))
  BY ReportsAssumption
<1>2. DOMAIN raw = 1 .. Len(raw) /\ Len(raw) \in Nat /\ \A c \in DOMAIN raw : raw[c] \in Seq(RawRule)
  BY <1>1
<1>3. \A c \in DOMAIN raw :
          /\ DOMAIN raw[c] = 1 .. Len(raw[c]) /\ Len(raw[c]) \in Nat
          /\ raw[c] = [r \in DOMAIN raw[c] |-> raw[c][r]]
          /\ \A r \in DOMAIN raw[c] : raw[c][r] \in RawRule
  BY <1>2
<1>4. ASSUME NEW x \in RawRule PROVE From(x, x)
  <2>1. /\ x = [responses |-> x.responses, inputs |-> x.inputs]
        /\ x.inputs \in Seq(ResourceID) /\ x.responses \in Seq(RawResponse)
    BY DEF RawRule
  <2>2. \A i \in DOMAIN x.responses : x.responses[i] \in RawResponse
    BY <2>1
  <2>3. \A y \in RawResponse : y = [resources |-> y.resources, exception |-> y.exception]
    BY DEF RawResponse
  <2>4. x.responses = [i \in DOMAIN x.responses |-> x.responses[i]]
    BY <2>1
  <2>5. QED
    BY <2>1, <2>2, <2>3, <2>4 DEF From
<1>5. raw = [c \in DOMAIN raw |-> raw[c]]
  BY <1>1
<1>6. ReportFrom(raw, raw)
  BY <1>3, <1>4, <1>5 DEF ReportFrom
<1>7. QED
  BY <1>2, <1>3, <1>6

LEMMA FromIsReport ==
    ASSUME NEW raw \in Reports, NEW report, ReportFrom(report, raw)
    PROVE  /\ IsReport(report)
           /\ DOMAIN report = DOMAIN raw
           /\ \A c \in DOMAIN raw : DOMAIN report[c] = DOMAIN raw[c] /\ IsControl(report[c])
           /\ \A c \in DOMAIN raw : \A r \in DOMAIN raw[c] : IsRule(report[c][r])
<1>1. PICK n \in Nat : DOMAIN raw = 1 .. n
  BY RawReport
<1>2. report = [c \in 1 .. n |-> report[c]]
  BY <1>1 DEF ReportFrom
<1>3. \A c \in DOMAIN raw : \A r \in DOMAIN raw[c] : IsRule(report[c][r])
  BY RawReport DEF ReportFrom, IsRule
<1>4. ASSUME NEW c \in DOMAIN raw PROVE IsControl(report[c]) /\ DOMAIN report[c] = DOMAIN raw[c]
  <2>1. PICK m \in Nat : DOMAIN raw[c] = 1 .. m
    BY RawReport
  <2>2. report[c] = [r \in 1 .. m |-> report[c][r]]
    BY <2>1 DEF ReportFrom
  <2>3. DOMAIN report[c] = 1 .. m
    BY <2>2
  <2>4. QED
    BY <1>3, <2>1, <2>2, <2>3 DEF IsControl
<1>5. IsReport(report)
  BY <1>1, <1>2, <1>4 DEF IsReport
<1>6. DOMAIN report = DOMAIN raw
  BY <1>1, <1>2
<1>7. QED
  BY <1>3, <1>4, <1>5, <1>6

(* No input of the scan is lost but to the lists of what fails or warns.      *)
InputsKept(report, raw) ==
    \A c \in DOMAIN raw : \A r \in DOMAIN raw[c] :
        Covers(report[c][r]) = Failing(report[c][r]) \union Warned(report[c][r]) \union Input(raw[c][r])

LEMMA ListedFrom ==
    ASSUME NEW raw \in Reports, NEW report, ReportFrom(report, raw)
    PROVE  /\ ReportFrom(AllListed(report), raw)
           /\ InputsKept(report, raw) => InputsKept(AllListed(report), raw)
<1> DEFINE l == AllListed(report)
<1>1. /\ DOMAIN report = DOMAIN raw
      /\ \A c \in DOMAIN raw : DOMAIN report[c] = DOMAIN raw[c]
  BY FromIsReport
<1>2. /\ l = [c \in DOMAIN raw |-> l[c]]
      /\ \A c \in DOMAIN raw : l[c] = [r \in DOMAIN raw[c] |-> Listed(report[c][r])]
  BY <1>1 DEF AllListed
<1> HIDE DEF l
<1>3. \A c \in DOMAIN raw : \A r \in DOMAIN raw[c] :
          /\ l[c][r] = Listed(report[c][r])
          /\ From(l[c][r], raw[c][r])
          /\ Failing(l[c][r]) = Failing(report[c][r])
          /\ Warned(l[c][r]) = Warned(report[c][r])
          /\ Covers(l[c][r]) = Covers(report[c][r])
  <2> SUFFICES ASSUME NEW c \in DOMAIN raw, NEW r \in DOMAIN raw[c]
               PROVE  /\ l[c][r] = Listed(report[c][r])
                      /\ From(l[c][r], raw[c][r])
                      /\ Failing(l[c][r]) = Failing(report[c][r])
                      /\ Warned(l[c][r]) = Warned(report[c][r])
                      /\ Covers(l[c][r]) = Covers(report[c][r])
    OBVIOUS
  <2>1. l[c][r] = Listed(report[c][r])
    BY <1>2
  <2>2. From(report[c][r], raw[c][r]) /\ raw[c][r] \in RawRule
    BY RawReport DEF ReportFrom
  <2>3. QED
    BY <2>1, <2>2, ListedCorrect
<1>4. \A c \in DOMAIN raw : l[c] = [r \in DOMAIN raw[c] |-> l[c][r]]
  BY <1>2
<1>5. ReportFrom(l, raw)
  BY <1>2, <1>3, <1>4 DEF ReportFrom
<1>6. InputsKept(report, raw) => InputsKept(l, raw)
  BY <1>3 DEF InputsKept
<1>7. QED
  BY <1>5, <1>6 DEF l

LEMMA ExceptedFrom ==
    ASSUME NEW raw \in Reports, NEW report, ReportFrom(report, raw), NEW exceptions
    PROVE  /\ ReportFrom(WithExceptions(report, exceptions), raw)
           /\ \A c \in DOMAIN raw : \A r \in DOMAIN raw[c] :
                 WithExceptions(report, exceptions)[c][r].inputs = report[c][r].inputs
<1> DEFINE w == WithExceptions(report, exceptions)
           applied(c, r) == SelectSeq(exceptions, LAMBDA e : <<c, r>> \in e.rules)
           responses(c, r) == [i \in DOMAIN report[c][r].responses |->
                                  WithException(report[c][r].responses[i], applied(c, r))]
<1>1. /\ DOMAIN report = DOMAIN raw
      /\ \A c \in DOMAIN raw : DOMAIN report[c] = DOMAIN raw[c]
  BY FromIsReport
<1>2. /\ w = [c \in DOMAIN raw |-> w[c]]
      /\ \A c \in DOMAIN raw : w[c] = [r \in DOMAIN raw[c] |->
             [report[c][r] EXCEPT !.responses = responses(c, r)]]
  BY <1>1 DEF WithExceptions
<1> HIDE DEF w, applied
<1>3. ASSUME NEW x, NEW list, x = [resources |-> x.resources, exception |-> x.exception]
      PROVE  WithException(x, list) = [resources |-> x.resources,
                                       exception |-> WithException(x, list).exception]
  BY <1>3 DEF WithException
<1>4. \A c \in DOMAIN raw : \A r \in DOMAIN raw[c] :
          From(w[c][r], raw[c][r]) /\ w[c][r].inputs = report[c][r].inputs
  <2> SUFFICES ASSUME NEW c \in DOMAIN raw, NEW r \in DOMAIN raw[c]
               PROVE  From(w[c][r], raw[c][r]) /\ w[c][r].inputs = report[c][r].inputs
    OBVIOUS
  <2> DEFINE old == report[c][r]
             new == responses(c, r)
  <2>1. w[c][r] = [old EXCEPT !.responses = new]
    BY <1>2
  <2>2. From(old, raw[c][r])
    BY DEF ReportFrom
  <2>3. DOMAIN old.responses = DOMAIN raw[c][r].responses
    BY <2>2 DEF From
  <2>4. /\ new = [i \in DOMAIN raw[c][r].responses |-> new[i]]
        /\ \A i \in DOMAIN raw[c][r].responses :
              new[i] = WithException(old.responses[i], applied(c, r))
    BY <2>3
  <2> HIDE DEF old, new
  <2>5. \A i \in DOMAIN raw[c][r].responses :
           new[i] = [resources |-> raw[c][r].responses[i].resources, exception |-> new[i].exception]
    <3> SUFFICES ASSUME NEW i \in DOMAIN raw[c][r].responses
                 PROVE  new[i] = [resources |-> raw[c][r].responses[i].resources,
                                  exception |-> new[i].exception]
      OBVIOUS
    <3>1. old.responses[i] = [resources |-> raw[c][r].responses[i].resources,
                              exception |-> old.responses[i].exception]
      BY <2>2 DEF From
    <3> DEFINE x == old.responses[i]
    <3>2. x = [resources |-> x.resources, exception |-> x.exception]
          /\ x.resources = raw[c][r].responses[i].resources
      BY <3>1
    <3>3. new[i] = WithException(x, applied(c, r))
      BY <2>4
    <3> HIDE DEF x
    <3>4. QED
      BY <1>3, <3>2, <3>3
  <2>6. /\ w[c][r] = [responses |-> new, inputs |-> old.inputs]
        /\ w[c][r].responses = new /\ w[c][r].inputs = old.inputs
    BY <2>1, <2>2 DEF From
  <2>7. From(w[c][r], raw[c][r])
    BY <2>2, <2>4, <2>5, <2>6 DEF From
  <2>8. QED
    BY <2>6, <2>7 DEF old
<1>5. \A c \in DOMAIN raw : w[c] = [r \in DOMAIN raw[c] |-> w[c][r]]
  BY <1>2
<1>6. ReportFrom(w, raw)
  BY <1>2, <1>4, <1>5 DEF ReportFrom
<1>7. QED
  BY <1>4, <1>6 DEF w

-----------------------------------------------------------------------------
(* A default score is a percentage, and full only if nothing fails.           *)
LEMMA PercentageCorrect ==
    ASSUME NEW big \in Nat, NEW small \in Nat, small <= big
    PROVE  percentage(big, small) \in 0 .. 100 /\ (percentage(big, small) = 100 <=> small = 0)
<1>1. CASE big = 0
  BY <1>1 DEF percentage
<1>2. CASE big # 0
  <2> DEFINE a == (big - small) * 100
             q == a \div big
  <2>1. big > 0 /\ a \in Nat /\ a <= 100 * big /\ (a = 100 * big <=> small = 0)
    BY <1>2
  <2>2. percentage(big, small) = q
    BY <1>2 DEF percentage
  <2> HIDE DEF a
  <2>3. q \in Nat /\ q * big <= a /\ a < q * big + big
    BY <2>1
  <2> HIDE DEF q
  <2>4. q <= 100
    <3> SUFFICES ASSUME q > 100 PROVE FALSE
      BY <2>3
    <3>1. q * big >= 101 * big
      BY <2>1, <2>3
    <3>2. QED
      BY <2>1, <2>3, <3>1
  <2>5. q = 100 <=> small = 0
    <3>1. CASE q = 100
      <4>1. 100 * big <= a
        BY <2>3, <3>1
      <4>2. QED
        BY <2>1, <3>1, <4>1
    <3>2. CASE small = 0
      <4>1. a = 100 * big
        BY <2>1, <3>2
      <4>2. ~(q <= 99)
        <5> SUFFICES ASSUME q <= 99 PROVE FALSE
          OBVIOUS
        <5>1. q * big <= 99 * big
          BY <2>1, <2>3
        <5>2. QED
          BY <2>1, <2>3, <4>1, <5>1
      <4>3. QED
        BY <2>3, <2>4, <3>2, <4>2
    <3>3. QED
      BY <3>1, <3>2
  <2>6. QED
    BY <2>2, <2>3, <2>4, <2>5
<1>3. QED
  BY <1>1, <1>2

(* What the resources on a list weigh.                                       *)
Weights(ids) == [i \in DOMAIN ids |-> Weight[ids[i]]]
Known(ids, known) == {i \in DOMAIN ids : ids[i] \in known}

LEMMA WeightsType ==
    ASSUME NEW ids \in Seq(ResourceID)
    PROVE  /\ IsFiniteSet(DOMAIN ids)
           /\ \A i \in DOMAIN ids : Weights(ids)[i] \in Nat /\ Weights(ids)[i] > 0
<1>1. DOMAIN ids = 1 .. Len(ids) /\ Len(ids) \in Nat /\ \A i \in DOMAIN ids : ids[i] \in ResourceID
  OBVIOUS
<1>2. IsFiniteSet(DOMAIN ids)
  BY <1>1, FS_Interval
<1>3. QED
  BY <1>1, <1>2, WeightAssumption DEF Weights

LEMMA WeighType ==
    ASSUME NEW ids \in Seq(ResourceID), NEW known
    PROVE  /\ Weigh(ids, known) = SumFunctionOnSet(Weights(ids), Known(ids, known))
           /\ Weigh(ids, known) \in Nat
<1> DEFINE S == DOMAIN ids
           A == Known(ids, known)
           f == Weights(ids)
<1>1. IsFiniteSet(S) /\ (\A i \in S : f[i] \in Nat) /\ A \in SUBSET S
  BY WeightsType DEF Known
<1>2. Weigh(ids, known) = SumFunctionOnSet(f, A)
  BY DEF Weigh, Weights, Known
<1> HIDE DEF S, A, f
<1>3. SumFunctionOnSet(f, A) \in 0 .. SumFunctionOnSet(f, S)
  BY <1>1, SumOfNaturals
<1>4. QED
  BY <1>2, <1>3 DEF f, A

(* A list weighs at most what a longer list does.                            *)
LEMMA WeighPrefix ==
    ASSUME NEW s \in Seq(ResourceID), NEW t \in Seq(ResourceID), NEW known
    PROVE  Weigh(s, known) <= Weigh(s \o t, known)
<1> DEFINE u == s \o t
           f == Weights(s)
           g == Weights(u)
           A == Known(s, known)
           B == Known(u, known)
<1>1. /\ u \in Seq(ResourceID) /\ DOMAIN s \subseteq DOMAIN u
      /\ \A i \in DOMAIN s : u[i] = s[i]
  OBVIOUS
<1> HIDE DEF u
<1>2. IsFiniteSet(DOMAIN u) /\ (\A i \in DOMAIN u : g[i] \in Nat)
  BY <1>1, WeightsType
<1>3. A \in SUBSET B /\ B \in SUBSET DOMAIN u /\ A \in SUBSET DOMAIN s
  BY <1>1 DEF Known
<1>4. \A i \in A : f[i] \in Int /\ g[i] = f[i]
  BY <1>1, <1>2, <1>3 DEF Weights
<1>5. Weigh(s, known) = SumFunctionOnSet(f, A) /\ Weigh(u, known) = SumFunctionOnSet(g, B)
      /\ Weigh(u, known) \in Nat /\ Weigh(s, known) \in Nat
  BY <1>1, WeighType
<1> HIDE DEF A, B, f, g
<1>6. IsFiniteSet(A) /\ IsFiniteSet(B)
  BY <1>2, <1>3, FS_Subset
<1>7. SumFunctionOnSet(g, A) = SumFunctionOnSet(f, A)
  BY <1>4, <1>6, SumOfEqual
<1>8. \A i \in B : g[i] \in Nat
  BY <1>2, <1>3
<1>9. SumFunctionOnSet(g, A) \in 0 .. SumFunctionOnSet(g, B)
  BY <1>3, <1>6, <1>8, SumOfNaturals
<1>10. QED
  BY <1>5, <1>7, <1>9 DEF u

(* One that is not empty weighs something, if all resources are known.        *)
LEMMA WeighSomething ==
    ASSUME NEW ids \in Seq(ResourceID)
    PROVE  Weigh(ids, ResourceID) = 0 <=> ToSet(ids) = {}
<1> DEFINE f == Weights(ids)
           S == DOMAIN ids
<1>1. Known(ids, ResourceID) = S
  <2>1. \A i \in DOMAIN ids : ids[i] \in ResourceID
    OBVIOUS
  <2>2. QED
    BY <2>1 DEF Known
<1>2. Weigh(ids, ResourceID) = SumFunctionOnSet(f, S) /\ Weigh(ids, ResourceID) \in Nat
  BY <1>1, WeighType
<1>3. IsFiniteSet(S) /\ \A i \in S : f[i] \in Nat /\ f[i] > 0
  BY WeightsType
<1>4. ToSet(ids) = {} <=> S = {}
  BY DEF ToSet
<1> HIDE DEF f, S
<1>5. CASE S = {}
  BY <1>2, <1>4, <1>5, SumOfNone
<1>6. CASE S # {}
  <2>1. PICK i \in S : TRUE
    BY <1>6
  <2>2. SumFunctionOnSet(f, S) = f[i] + SumFunctionOnSet(f, S \ {i})
    BY <1>3, SumWithout
  <2>3. SumFunctionOnSet(f, S \ {i}) \in 0 .. SumFunctionOnSet(f, S)
    BY <1>3, SumOfNaturals
  <2>4. SumFunctionOnSet(f, S) > 0
    BY <1>3, <2>2, <2>3
  <2>5. QED
    BY <1>2, <1>4, <1>6, <2>4
<1>7. QED
  BY <1>5, <1>6

(* The score of a control: what fails is part of the worst case.              *)
LEMMA ControlScoreCorrect ==
    ASSUME NEW rules, IsControl(rules), NEW base \in Nat, NEW known
    PROVE  /\ Unnormalized(rules, base, known) \in Nat /\ WorstCase(rules, base, known) \in Nat
           /\ Unnormalized(rules, base, known) <= WorstCase(rules, base, known)
           /\ WorstCase(rules, base, known) = 0 <=> base = 0
           /\ ScoreOK(ControlScore(rules, base, known))
<1> DEFINE ids == ControlIDs(rules)
           some == ids.failed \o ids.warning
           f == Weigh(ids.failed, known)
           a == Weigh(GetAllResources(ids), known)
           u == Unnormalized(rules, base, known)
           w == WorstCase(rules, base, known)
<1>1. AreIDsOf(ids, {rules[r] : r \in DOMAIN rules})
  BY ControlIDsCorrect
<1>2. ids.failed \in Seq(ResourceID) /\ ids.warning \in Seq(ResourceID) /\ ids.passed \in Seq(ResourceID)
  BY <1>1 DEF AreIDsOf, AreIDs, Lists
<1>3. u = base * f /\ w = IF u = 0 THEN base ELSE base * a
  BY DEF Unnormalized, WorstCase
<1>4. ControlScore(rules, base, known) = Score(u, IF w > 0 THEN w ELSE 100)
  BY DEF ControlScore
<1> HIDE DEF ids
<1>5. /\ some \in Seq(ResourceID) /\ GetAllResources(ids) = some \o ids.passed
      /\ GetAllResources(ids) \in Seq(ResourceID)
  BY <1>2 DEF GetAllResources
<1>6. f \in Nat /\ a \in Nat
  BY <1>2, <1>5, WeighType
<1>7. f <= a
  <2>1. f <= Weigh(some, known)
    BY <1>2, WeighPrefix
  <2> HIDE DEF some
  <2>2. Weigh(some, known) <= a /\ Weigh(some, known) \in Nat
    BY <1>2, <1>5, WeighPrefix, WeighType
  <2>3. QED
    BY <1>6, <2>1, <2>2
<1> HIDE DEF u, w, f, a
<1>8. base * f \in Nat /\ base * a \in Nat /\ base * f <= base * a
  BY <1>6, <1>7
<1>9. u \in Nat /\ w \in Nat /\ u <= w
  BY <1>3, <1>8
<1>10. w = 0 <=> base = 0
  <2>1. base = 0 => base * f = 0 /\ base * a = 0
    BY <1>6
  <2>2. QED
    BY <1>3, <1>8, <2>1
<1>11. ScoreOK(ControlScore(rules, base, known))
  <2>1. CASE w > 0
    BY <1>4, <1>9, <2>1 DEF ScoreOK, Score
  <2>2. CASE ~(w > 0)
    BY <1>4, <1>9, <2>2 DEF ScoreOK, Score
  <2>3. QED
    BY <2>1, <2>2
<1>12. QED
  BY <1>9, <1>10, <1>11 DEF u, w

(* The status of a control, asked of its rules.                              *)
LEMMA StatusOfControl ==
    ASSUME NEW rules, IsControl(rules)
    PROVE  /\ ControlFailed(rules) <=> FailedResources({rules[r] : r \in DOMAIN rules}) # {}
           /\ ToSet(ControlIDs(rules).failed) = FailedResources({rules[r] : r \in DOMAIN rules})
<1>1. \A r \in DOMAIN rules : RuleFailed(rules[r]) <=> Failing(rules[r]) # {}
  BY StatusOfRule DEF IsControl
<1>2. ControlFailed(rules) <=> FailedResources({rules[r] : r \in DOMAIN rules}) # {}
  BY <1>1 DEF ControlFailed, FailedResources, Failing
<1>3. QED
  BY <1>2, ControlIDsCorrect DEF AreIDsOf, AreIDs

LEMMA ZeroScore ==
    ASSUME NEW rules, IsControl(rules), NEW base \in Nat, base > 0
    PROVE  Unnormalized(rules, base, ResourceID) = 0 <=> ~ControlFailed(rules)
<1> DEFINE failed == ControlIDs(rules).failed
           f == Weigh(failed, ResourceID)
<1>1. failed \in Seq(ResourceID)
  BY ControlIDsCorrect DEF AreIDsOf, AreIDs, Lists
<1>2. ControlFailed(rules) <=> ToSet(failed) # {}
  BY StatusOfControl
<1> HIDE DEF failed
<1>3. f \in Nat /\ (f = 0 <=> ToSet(failed) = {})
  BY <1>1, WeighType, WeighSomething
<1> HIDE DEF f
<1>4. base * f = 0 <=> f = 0
  BY <1>3
<1>5. QED
  BY <1>2, <1>3, <1>4 DEF Unnormalized, failed, f

-----------------------------------------------------------------------------
(* The score of a framework: sums over its controls.                         *)
LEMMA SumOfParts ==
    ASSUME NEW S, IsFiniteSet(S), NEW f, \A y \in S : f[y] \in Nat
    PROVE  /\ SumFunctionOnSet(f, S) \in Nat
           /\ SumFunctionOnSet(f, S) = 0 <=> \A y \in S : f[y] = 0
<1> DEFINE sum == SumFunctionOnSet(f, S)
<1>1. sum \in Nat
  <2>1. sum \in 0 .. sum
    BY SumOfNaturals
  <2>2. sum \in Int
    BY SumType
  <2> HIDE DEF sum
  <2>3. QED
    BY <2>1, <2>2
<1>2. (\A y \in S : f[y] = 0) => sum = 0
  BY SumOfZeros
<1>3. ASSUME sum = 0, NEW y \in S PROVE f[y] = 0
  <2>1. sum = f[y] + SumFunctionOnSet(f, S \ {y})
    BY SumWithout
  <2>2. SumFunctionOnSet(f, S \ {y}) \in 0 .. sum
    BY SumOfNaturals
  <2> HIDE DEF sum
  <2>3. QED
    BY <1>1, <1>3, <2>1, <2>2
<1>4. QED
  BY <1>1, <1>2, <1>3

RawScores(report, base, known) ==
    [c \in DOMAIN report |-> Unnormalized(report[c], base[c], known)]
WorstCases(report, base, known) ==
    [c \in DOMAIN report |-> WorstCase(report[c], base[c], known)]

LEMMA FrameworkWeighs ==
    ASSUME NEW report, IsReport(report), NEW base, \A c \in DOMAIN report : base[c] \in Nat,
           NEW known
    PROVE  LET u == RawScores(report, base, known)
               w == WorstCases(report, base, known)
           IN  /\ IsFiniteSet(DOMAIN report) /\ DOMAIN u = DOMAIN report /\ DOMAIN w = DOMAIN report
               /\ \A c \in DOMAIN report :
                     /\ u[c] \in Nat /\ w[c] \in Nat /\ u[c] <= w[c]
                     /\ w[c] = 0 <=> base[c] = 0
               /\ SumFunction(u) \in Nat /\ SumFunction(w) \in Nat
               /\ SumFunction(u) <= SumFunction(w)
               /\ SumFunction(u) = 0 <=> \A c \in DOMAIN report : u[c] = 0
               /\ SumFunction(w) = 0 <=> \A c \in DOMAIN report : base[c] = 0
<1> DEFINE u == RawScores(report, base, known)
           w == WorstCases(report, base, known)
           S == DOMAIN report
<1>1. IsFiniteSet(S)
  <2>1. PICK n \in Nat : report = [c \in 1 .. n |-> report[c]]
    BY DEF IsReport
  <2>2. S = 1 .. n
    BY <2>1
  <2>3. QED
    BY <2>2, FS_Interval
<1>2. DOMAIN u = S /\ DOMAIN w = S
  BY DEF RawScores, WorstCases
<1>3. \A c \in S : /\ u[c] \in Nat /\ w[c] \in Nat /\ u[c] <= w[c]
                   /\ w[c] = 0 <=> base[c] = 0
  BY RulesOfReport, ControlScoreCorrect DEF RawScores, WorstCases
<1> HIDE DEF u, w
<1> DEFINE U == SumFunctionOnSet(u, S)
           W == SumFunctionOnSet(w, S)
<1>4. SumFunction(u) = U /\ SumFunction(w) = W
  BY <1>2 DEF SumFunction
<1> HIDE DEF S
<1>5. /\ U \in Nat /\ (U = 0 <=> \A c \in S : u[c] = 0)
      /\ W \in Nat /\ (W = 0 <=> \A c \in S : w[c] = 0)
  BY <1>1, <1>3, SumOfParts
<1>6. U <= W
  <2>1. \A c \in S : u[c] \in Nat /\ w[c] \in Nat /\ 1 * u[c] <= 1 * w[c]
    BY <1>3
  <2>2. 1 * U <= 1 * W
    BY <1>1, <2>1, SumScaled
  <2> HIDE DEF U, W
  <2>3. QED
    BY <1>5, <2>2
<1> HIDE DEF U, W
<1>7. QED
  BY <1>1, <1>2, <1>3, <1>4, <1>5, <1>6 DEF S, u, w

(* The score of the whole lies between those of its parts.                   *)
LEMMA BetweenParts ==
    ASSUME NEW S, IsFiniteSet(S), NEW u, NEW w,
           \A c \in S : u[c] \in Nat /\ w[c] \in Nat /\ u[c] <= w[c],
           \E c \in S : w[c] > 0
    PROVE  LET U == SumFunctionOnSet(u, S)
               W == SumFunctionOnSet(w, S)
           IN  /\ \E c \in S : w[c] > 0 /\ U * w[c] <= u[c] * W
               /\ \E c \in S : w[c] > 0 /\ u[c] * W <= U * w[c]
<1> DEFINE U == SumFunctionOnSet(u, S)
           W == SumFunctionOnSet(w, S)
<1>1. U \in Nat /\ W \in Nat
  BY SumOfParts
<1>2. PICK z \in S : w[z] > 0
  OBVIOUS
<1>3. \A c \in S : w[c] = 0 => u[c] = 0
  OBVIOUS
<1> HIDE DEF U, W
<1>4. \A c \in S : /\ U * w[c] \in Nat /\ u[c] * W \in Nat /\ W * u[c] = u[c] * W
                   /\ w[c] = 0 => W * u[c] = 0 /\ U * w[c] = 0
  BY <1>1, <1>3
<1>5. U * W = W * U /\ U * W \in Nat
  BY <1>1
<1>6. \E c \in S : w[c] > 0 /\ U * w[c] <= u[c] * W
  <2> SUFFICES ASSUME \A c \in S : w[c] > 0 => W * u[c] < U * w[c] PROVE FALSE
    BY <1>4
  <2>1. \A c \in S : W * u[c] <= U * w[c]
    <3> SUFFICES ASSUME NEW c \in S PROVE W * u[c] <= U * w[c]
      OBVIOUS
    <3>1. w[c] = 0 \/ w[c] > 0
      OBVIOUS
    <3>2. QED
      BY <1>4, <3>1
  <2>2. \A c \in S : u[c] \in Nat /\ w[c] \in Nat /\ W * u[c] <= U * w[c]
    BY <2>1
  <2>3. W * u[z] < U * w[z]
    BY <1>2
  <2>4. W * SumFunctionOnSet(u, S) < U * SumFunctionOnSet(w, S)
    BY <1>1, <2>2, <2>3, SumScaledStrictly
  <2>5. W * U < U * W
    BY <2>4 DEF U, W
  <2>6. QED
    BY <1>5, <2>5
<1>7. \E c \in S : w[c] > 0 /\ u[c] * W <= U * w[c]
  <2> SUFFICES ASSUME \A c \in S : w[c] > 0 => U * w[c] < W * u[c] PROVE FALSE
    BY <1>4
  <2>1. \A c \in S : U * w[c] <= W * u[c]
    <3> SUFFICES ASSUME NEW c \in S PROVE U * w[c] <= W * u[c]
      OBVIOUS
    <3>1. w[c] = 0 \/ w[c] > 0
      OBVIOUS
    <3>2. QED
      BY <1>4, <3>1
  <2>2. \A c \in S : w[c] \in Nat /\ u[c] \in Nat /\ U * w[c] <= W * u[c]
    BY <2>1
  <2>3. U * w[z] < W * u[z]
    BY <1>2
  <2>4. U * SumFunctionOnSet(w, S) < W * SumFunctionOnSet(u, S)
    BY <1>1, <2>2, <2>3, SumScaledStrictly
  <2>5. U * W < W * U
    BY <2>4 DEF U, W
  <2>6. QED
    BY <1>5, <2>5
<1>8. QED
  BY <1>6, <1>7 DEF U, W

-----------------------------------------------------------------------------
(* The invariant.  A count records the sizes of the sets below, and they stay *)
(* what they are until exceptions change: listing again loses no input that   *)
(* neither fails nor warns.                                                  *)
CountersTyped ==
    /\ CountersOK(counters.framework) /\ counters.framework.total \in Nat
    /\ \A c \in DOMAIN given :
          /\ CountersOK(counters.controls[c]) /\ counters.controls[c].total \in Nat
          /\ \A r \in DOMAIN given[c] : CountersOK(counters.rules[c][r])

ScoresTyped ==
    /\ ScoreOK(scores.framework) /\ wcs \in Nat
    /\ \A c \in DOMAIN given : ScoreOK(scores.controls[c])

Untouched ==
    \A c \in DOMAIN given : \A r \in DOMAIN given[c] :
        controls[c][r].inputs = given[c][r].inputs

IInv ==
    /\ calls \in 0 .. MaxCalls /\ phase \in Phases
    /\ given \in Reports /\ baseScore \in BaseScores
    /\ ReportFrom(controls, given)
    /\ CountersTyped
    /\ ScoresTyped
    /\ phase = "raw" => Untouched
    /\ phase \in {"listed", "counted"} => InputsKept(controls, given)
    /\ Counted => counters = Recorded(controls)

LEMMA InitInvariant == Init => IInv
<1> SUFFICES ASSUME Init PROVE IInv
  OBVIOUS
<1>1. CountersOK(NoCounters) /\ NoCounters.total \in Nat
  BY NoIDsCorrect, CountersOfIDs DEF NoCounters
<1>2. CountersTyped
  BY <1>1 DEF Init, CountersTyped
<1>3. ScoresTyped
  BY DEF Init, ScoresTyped, ScoreOK, Score
<1>4. ReportFrom(controls, given)
  BY RawReport DEF Init
<1>5. Untouched
  BY DEF Init, Untouched
<1>6. calls \in 0 .. MaxCalls
  BY MaxCallsAssumption DEF Init
<1>7. phase = "raw" /\ phase \in Phases /\ ~Counted
  BY DEF Init, Phases, Counted
<1>8. QED
  BY <1>2, <1>3, <1>4, <1>5, <1>6, <1>7 DEF Init, IInv

(* What a count writes.                                                      *)
LEMMA CountRecords ==
    ASSUME NEW report, IsReport(report)
    PROVE  LET once == AllListed(report)
               twice == AllListed(once)
           IN  [framework |-> Counters(FrameworkIDs(twice)),
                controls |-> [c \in DOMAIN once |-> Counters(ControlIDs(once[c]))],
                rules |-> [c \in DOMAIN report |-> [r \in DOMAIN report[c] |->
                              Counters(RuleIDs(report[c][r]))]]]
                  = Recorded(report)
<1> DEFINE once == AllListed(report)
           twice == AllListed(once)
<1>1. IsReport(once) /\ Recorded(once) = Recorded(report)
  BY ListedReport
<1> HIDE DEF once
<1>2. IsReport(twice) /\ Recorded(twice) = Recorded(report)
  BY <1>1, ListedReport
<1> HIDE DEF twice
<1>3. Counters(FrameworkIDs(twice)) = Recorded(report).framework
  BY <1>2, CountersOfFramework DEF Recorded
<1>4. [c \in DOMAIN once |-> Counters(ControlIDs(once[c]))] = Recorded(report).controls
  <2>1. Recorded(once).controls = [c \in DOMAIN once |-> CountersOf(RulesOf(once, c))]
    BY DEF Recorded
  <2>2. \A c \in DOMAIN once : Counters(ControlIDs(once[c])) = CountersOf(RulesOf(once, c))
    BY <1>1, CountersOfControls
  <2>3. QED
    BY <1>1, <2>1, <2>2
<1>5. [c \in DOMAIN report |-> [r \in DOMAIN report[c] |-> Counters(RuleIDs(report[c][r]))]]
        = Recorded(report).rules
  <2>1. \A c \in DOMAIN report : \A r \in DOMAIN report[c] :
            Counters(RuleIDs(report[c][r])) = CountersOf({report[c][r]})
    BY RulesOfReport, CountersOfRules
  <2>2. QED
    BY <2>1 DEF Recorded
<1>6. Recorded(report) = [framework |-> Recorded(report).framework,
                          controls |-> Recorded(report).controls,
                          rules |-> Recorded(report).rules]
  BY DEF Recorded
<1>7. QED
  BY <1>3, <1>4, <1>5, <1>6 DEF once, twice

LEMMA RecordedTyped ==
    ASSUME NEW raw \in Reports, NEW report, ReportFrom(report, raw)
    PROVE  /\ CountersOK(Recorded(report).framework) /\ Recorded(report).framework.total \in Nat
           /\ \A c \in DOMAIN raw :
                 /\ CountersOK(Recorded(report).controls[c])
                 /\ Recorded(report).controls[c].total \in Nat
                 /\ \A r \in DOMAIN raw[c] : CountersOK(Recorded(report).rules[c][r])
<1>1. /\ IsReport(report) /\ DOMAIN report = DOMAIN raw
      /\ \A c \in DOMAIN raw : DOMAIN report[c] = DOMAIN raw[c]
      /\ \A c \in DOMAIN raw : \A r \in DOMAIN raw[c] : IsRule(report[c][r])
  BY FromIsReport
<1>2. CountersOK(Recorded(report).framework) /\ Recorded(report).framework.total \in Nat
  BY <1>1, CountersOfFramework DEF Recorded
<1>3. \A c \in DOMAIN raw : /\ CountersOK(Recorded(report).controls[c])
                            /\ Recorded(report).controls[c].total \in Nat
  BY <1>1, CountersOfControls DEF Recorded
<1>4. \A c \in DOMAIN raw : \A r \in DOMAIN raw[c] : CountersOK(Recorded(report).rules[c][r])
  BY <1>1, CountersOfRules DEF Recorded
<1>5. QED
  BY <1>2, <1>3, <1>4

LEMMA CountStep ==
    ASSUME IInv, SetUniqueResourcesCounter
    PROVE  IInv' /\ counters' = Recorded(controls)
<1> DEFINE once == AllListed(controls)
           twice == AllListed(once)
           thrice == AllListed(twice)
<1>1. given \in Reports /\ ReportFrom(controls, given) /\ IsReport(controls)
  BY FromIsReport DEF IInv
<1>2. counters' = Recorded(controls)
  BY <1>1, CountRecords DEF SetUniqueResourcesCounter
<1>3. controls' = thrice /\ given' = given /\ baseScore' = baseScore /\ scores' = scores /\ wcs' = wcs
  BY DEF SetUniqueResourcesCounter
<1>4. phase \in {"raw", "listed", "counted"} => InputsKept(controls, given)
  BY DEF IInv, Untouched, InputsKept, Covers, Input
<1>5. IsReport(once) /\ Recorded(once) = Recorded(controls) /\ ReportFrom(once, given)
      /\ (InputsKept(controls, given) => InputsKept(once, given))
  BY <1>1, ListedReport, ListedFrom
<1> HIDE DEF once
<1>6. IsReport(twice) /\ Recorded(twice) = Recorded(once) /\ ReportFrom(twice, given)
      /\ (InputsKept(once, given) => InputsKept(twice, given))
  BY <1>1, <1>5, ListedReport, ListedFrom
<1> HIDE DEF twice
<1>7. IsReport(thrice) /\ Recorded(thrice) = Recorded(twice) /\ ReportFrom(thrice, given)
      /\ (InputsKept(twice, given) => InputsKept(thrice, given))
  BY <1>1, <1>6, ListedReport, ListedFrom
<1> HIDE DEF thrice
<1>8. CountersTyped'
  BY <1>1, <1>2, <1>3, RecordedTyped DEF CountersTyped
<1>9. ScoresTyped'
  BY <1>3 DEF IInv, ScoresTyped
<1>10. /\ phase' \in {"counted", "recounted"} /\ phase' \in Phases
       /\ phase' = "counted" => phase \in {"raw", "listed", "counted"}
  BY DEF SetUniqueResourcesCounter, IInv, Phases
<1>11. calls' \in 0 .. MaxCalls
  BY MaxCallsAssumption DEF SetUniqueResourcesCounter, IInv
<1>12. (phase' \in {"listed", "counted"} => InputsKept(controls', given'))
  BY <1>3, <1>4, <1>5, <1>6, <1>7, <1>10
<1>13. counters' = Recorded(controls')
  BY <1>2, <1>3, <1>5, <1>6, <1>7
<1>14. given' \in Reports /\ baseScore' \in BaseScores /\ ReportFrom(controls', given')
  BY <1>3, <1>7 DEF IInv
<1>15. phase' # "raw"
  BY <1>10
<1>16. QED
  BY <1>2, <1>8, <1>9, <1>10, <1>11, <1>12, <1>13, <1>14, <1>15 DEF IInv

LEMMA DefaultScoreStep ==
    ASSUME IInv, SetDefaultScore
    PROVE  IInv'
<1>1. /\ controls' = controls /\ counters' = counters /\ baseScore' = baseScore
      /\ wcs' = wcs /\ given' = given /\ phase' = phase
  BY DEF SetDefaultScore
<1>2. ASSUME NEW k, CountersOK(k), k.total \in Nat PROVE ScoreOK(DefaultScore(k))
  <2>1. k.failed \in Nat /\ k.failed <= k.total
    BY <1>2 DEF CountersOK
  <2>2. percentage(k.total, k.failed) \in 0 .. 100
    BY <1>2, <2>1, PercentageCorrect
  <2>3. QED
    BY <2>2 DEF ScoreOK, DefaultScore, Score
<1>3. DOMAIN controls = DOMAIN given
  BY FromIsReport DEF IInv
<1>4. ScoresTyped'
  BY <1>1, <1>2, <1>3 DEF IInv, ScoresTyped, CountersTyped, SetDefaultScore
<1>5. calls' \in 0 .. MaxCalls
  BY MaxCallsAssumption DEF SetDefaultScore, IInv
<1>6. QED
  BY <1>1, <1>4, <1>5 DEF IInv, CountersTyped, Untouched, Counted

LEMMA FrameworkScoreStep ==
    ASSUME IInv, NEW known, CalculateFrameworkScore(known)
    PROVE  IInv'
<1> DEFINE u == RawScores(controls, baseScore, known)
           w == WorstCases(controls, baseScore, known)
           listed == AllListed(controls)
<1>1. /\ given \in Reports /\ ReportFrom(controls, given) /\ IsReport(controls)
      /\ DOMAIN controls = DOMAIN given /\ \A c \in DOMAIN given : IsControl(controls[c])
  BY FromIsReport DEF IInv
<1>2. \A c \in DOMAIN controls : baseScore[c] \in Nat
  <2>1. baseScore \in Seq(Nat) /\ DOMAIN controls \subseteq DOMAIN baseScore
    BY <1>1, BaseScoresAssumption DEF IInv
  <2>2. QED
    BY <2>1
<1>3. /\ controls' = listed /\ counters' = counters /\ baseScore' = baseScore
      /\ given' = given /\ phase' = IF phase = "raw" THEN "listed" ELSE phase
      /\ wcs' = wcs + SumFunction(w)
      /\ scores' = [framework |-> IF wcs + SumFunction(w) = 0 THEN Score(0, 100)
                                  ELSE Score(SumFunction(u), wcs + SumFunction(w)),
                    controls |-> [c \in DOMAIN controls |->
                                     ControlScore(controls[c], baseScore[c], known)]]
  BY DEF CalculateFrameworkScore, RawScores, WorstCases
<1>4. SumFunction(u) \in Nat /\ SumFunction(w) \in Nat /\ SumFunction(u) <= SumFunction(w)
  BY <1>1, <1>2, FrameworkWeighs
<1> HIDE DEF u, w
<1>5. ScoresTyped'
  <2>1. wcs \in Nat /\ wcs' \in Nat
    BY <1>3, <1>4 DEF IInv, ScoresTyped
  <2>2. ScoreOK(scores'.framework)
    BY <1>3, <1>4, <2>1 DEF ScoreOK, Score
  <2>3. \A c \in DOMAIN given : ScoreOK(scores'.controls[c])
    BY <1>1, <1>2, <1>3, ControlScoreCorrect
  <2>4. QED
    BY <1>3, <2>1, <2>2, <2>3 DEF ScoresTyped
<1>6. Recorded(listed) = Recorded(controls) /\ ReportFrom(listed, given)
      /\ (InputsKept(controls, given) => InputsKept(listed, given))
  BY <1>1, ListedReport, ListedFrom
<1>7. phase \in {"raw", "listed", "counted"} => InputsKept(controls, given)
  BY DEF IInv, Untouched, InputsKept, Covers, Input
<1> HIDE DEF listed
<1>8. phase' \in Phases /\ phase' # "raw"
      /\ (phase' \in {"listed", "counted"} => phase \in {"raw", "listed", "counted"})
      /\ (Counted' => Counted)
  BY <1>3 DEF IInv, Phases, Counted
<1>9. calls' \in 0 .. MaxCalls
  BY MaxCallsAssumption DEF CalculateFrameworkScore, IInv
<1>10. CountersTyped'
  BY <1>3 DEF IInv, CountersTyped
<1>11. Counted' => counters' = Recorded(controls')
  BY <1>3, <1>6, <1>8 DEF IInv
<1>12. phase' \in {"listed", "counted"} => InputsKept(controls', given')
  BY <1>3, <1>6, <1>7, <1>8
<1>13. given' \in Reports /\ baseScore' \in BaseScores /\ ReportFrom(controls', given')
  BY <1>3, <1>6 DEF IInv
<1>14. QED
  BY <1>5, <1>8, <1>9, <1>10, <1>11, <1>12, <1>13 DEF IInv

LEMMA ExceptionsStep ==
    ASSUME IInv, NEW exceptions, SetFrameworkExceptions(exceptions)
    PROVE  IInv'
<1> DEFINE excepted == WithExceptions(controls, exceptions)
<1>1. /\ controls' = excepted /\ counters' = counters /\ baseScore' = baseScore
      /\ scores' = scores /\ wcs' = wcs /\ given' = given
      /\ phase' = IF phase = "raw" \/ controls' = controls THEN phase ELSE "stale"
  BY DEF SetFrameworkExceptions
<1>2. given \in Reports /\ ReportFrom(controls, given)
  BY DEF IInv
<1>3. /\ ReportFrom(excepted, given)
      /\ \A c \in DOMAIN given : \A r \in DOMAIN given[c] :
            excepted[c][r].inputs = controls[c][r].inputs
  BY <1>2, ExceptedFrom
<1> HIDE DEF excepted
<1>4. calls' \in 0 .. MaxCalls
  BY MaxCallsAssumption DEF SetFrameworkExceptions, IInv
<1>5. CountersTyped' /\ ScoresTyped'
  BY <1>1 DEF IInv, CountersTyped, ScoresTyped
<1>6. phase' = "raw" => Untouched'
  BY <1>1, <1>3 DEF IInv, Untouched
<1>7. \/ phase' = "raw"
      \/ phase' = "stale"
      \/ phase' = phase /\ controls' = controls
  BY <1>1
<1>8. phase' \in Phases
  BY <1>7 DEF IInv, Phases
<1>9. phase' \in {"listed", "counted"} => InputsKept(controls', given')
  BY <1>1, <1>7 DEF IInv
<1>10. Counted' => counters' = Recorded(controls')
  BY <1>1, <1>7 DEF IInv, Counted
<1>11. QED
  BY <1>1, <1>2, <1>3, <1>4, <1>5, <1>6, <1>8, <1>9, <1>10 DEF IInv

LEMMA NextInvariant == IInv /\ [Next]_vars => IInv'
<1> SUFFICES ASSUME IInv, [Next]_vars PROVE IInv'
  OBVIOUS
<1>1. CASE SetUniqueResourcesCounter
  BY <1>1, CountStep
<1>2. CASE SetDefaultScore
  BY <1>2, DefaultScoreStep
<1>3. ASSUME NEW known \in ResourceMaps, CalculateFrameworkScore(known) PROVE IInv'
  BY <1>3, FrameworkScoreStep
<1>4. ASSUME NEW exceptions \in ExceptionLists, SetFrameworkExceptions(exceptions) PROVE IInv'
  BY <1>4, ExceptionsStep
<1>5. CASE UNCHANGED vars
  BY <1>5 DEF vars, IInv, CountersTyped, ScoresTyped, Untouched, Counted
<1>6. QED
  BY <1>1, <1>2, <1>3, <1>4, <1>5 DEF Next

LEMMA Invariant == Spec => []IInv
BY InitInvariant, NextInvariant, PTL DEF Spec

-----------------------------------------------------------------------------
(* What the invariant says of counters and statuses.                         *)
LEMMA CountersCount ==
    ASSUME NEW rules
    PROVE  /\ Counts(CountersOf(rules), rules)
           /\ CountersOf(rules).total = Cardinality(FailedResources(rules)
                                           \union WarningResources(rules) \union Inputs(rules))
<1>1. WarningResources(rules) = AllWarned(rules) \ FailedResources(rules)
  BY DEF WarningResources, AllWarned, Warned
<1>2. FailedResources(rules) \union WarningResources(rules) \union Inputs(rules)
        = FailedResources(rules) \union AllWarned(rules) \union Inputs(rules)
  BY <1>1
<1>3. QED
  BY <1>1, <1>2 DEF Counts, CountersOf, CountersFor

LEMMA InvariantCounts == IInv => CountersAreUnions
<1> SUFFICES ASSUME IInv PROVE CountersAreUnions
  OBVIOUS
<1>1. /\ given \in Reports /\ ReportFrom(controls, given) /\ DOMAIN controls = DOMAIN given
      /\ \A c \in DOMAIN given : DOMAIN controls[c] = DOMAIN given[c]
  BY FromIsReport DEF IInv
<1>2. TypeOK
  <2>1. \A c \in DOMAIN given : \A r \in DOMAIN given[c] :
            Len(controls[c][r].inputs) = Len(given[c][r].inputs)
    BY <1>1 DEF ReportFrom, From
  <2>2. QED
    BY <1>1, <2>1 DEF IInv, TypeOK, CountersTyped, ScoresTyped
<1>3. InputsSurviveCounting
  <2> SUFFICES ASSUME phase = "counted" PROVE AllCounted
    BY DEF InputsSurviveCounting
  <2>1. counters.framework.total
          = Cardinality(FailedResources(AllRules(controls)) \union WarningResources(AllRules(controls))
                        \union Inputs(AllRules(controls)))
    <3>1. counters.framework = CountersOf(AllRules(controls))
      BY DEF IInv, Counted, Recorded
    <3>2. QED
      BY <3>1, CountersCount
  <2> DEFINE Alerted == FailedResources(AllRules(controls)) \union WarningResources(AllRules(controls))
  <2>2. \A c \in DOMAIN given : \A r \in DOMAIN given[c] :
            Covers(controls[c][r]) = Failing(controls[c][r]) \union Warned(controls[c][r])
                                        \union Input(given[c][r])
    BY DEF IInv, InputsKept
  <2>3. \A c \in DOMAIN given : \A r \in DOMAIN given[c] :
            Failing(controls[c][r]) \subseteq Alerted /\ Warned(controls[c][r]) \subseteq Alerted
    <3> SUFFICES ASSUME NEW c \in DOMAIN given, NEW r \in DOMAIN given[c]
                 PROVE  /\ Failing(controls[c][r]) \subseteq Alerted
                        /\ Warned(controls[c][r]) \subseteq Alerted
      OBVIOUS
    <3>1. controls[c][r] \in AllRules(controls)
      BY <1>1 DEF AllRules, RulesOf
    <3>2. QED
      BY <3>1 DEF FailedResources, WarningResources, Failing, Warned
  <2>4. Inputs(AllRules(controls)) = UNION {UNION {Input(controls[c][r]) : r \in DOMAIN given[c]} :
                                               c \in DOMAIN given}
    BY <1>1 DEF Inputs, AllRules, RulesOf, Input
  <2>5. Inputs(AllRules(given)) = UNION {UNION {Input(given[c][r]) : r \in DOMAIN given[c]} :
                                            c \in DOMAIN given}
    BY DEF Inputs, AllRules, RulesOf, Input
  <2> HIDE DEF Alerted
  <2>6. Alerted \union Inputs(AllRules(controls)) = Alerted \union Inputs(AllRules(given))
    BY <2>2, <2>3, <2>4, <2>5 DEF Covers
  <2>7. QED
    BY <2>1, <2>6 DEF AllCounted, Alerted
<1>4. ASSUME Counted
      PROVE  /\ Counts(counters.framework, AllRules(controls))
             /\ \A c \in DOMAIN controls :
                   /\ Counts(counters.controls[c], RulesOf(controls, c))
                   /\ \A r \in DOMAIN controls[c] : Counts(counters.rules[c][r], {controls[c][r]})
  <2>1. /\ counters.framework = CountersOf(AllRules(controls))
        /\ \A c \in DOMAIN controls :
              /\ counters.controls[c] = CountersOf(RulesOf(controls, c))
              /\ \A r \in DOMAIN controls[c] : counters.rules[c][r] = CountersOf({controls[c][r]})
    <3>1. counters = Recorded(controls)
      BY <1>4 DEF IInv
    <3>2. QED
      BY <3>1 DEF Recorded
  <2>2. \A rules : Counts(CountersOf(rules), rules)
    BY CountersCount
  <2>3. QED
    BY <2>1, <2>2
<1>5. QED
  BY <1>2, <1>3, <1>4 DEF CountersAreUnions

(* A framework or control counts a failure if and only if it has the status.  *)
LEMMA FailuresCounted ==
    ASSUME NEW report, IsReport(report)
    PROVE  /\ CountersOf(AllRules(report)).failed \in Nat
           /\ CountersOf(AllRules(report)).failed = 0
                 <=> \A c \in DOMAIN report : ~ControlFailed(report[c])
           /\ \A c \in DOMAIN report :
                 /\ CountersOf(RulesOf(report, c)).failed \in Nat
                 /\ CountersOf(RulesOf(report, c)).failed = 0 <=> ~ControlFailed(report[c])
<1>1. ASSUME NEW ids, NEW rules, AreIDsOf(ids, rules)
      PROVE  /\ CountersOf(rules).failed \in Nat
             /\ CountersOf(rules).failed = 0 <=> FailedResources(rules) = {}
  <2> DEFINE F == FailedResources(rules)
             s == ids.failed
  <2>1. s \in Seq(ResourceID) /\ IsInjective(s) /\ ToSet(s) = F
    BY <1>1 DEF AreIDsOf, AreIDs, Lists
  <2>2. CountersOf(rules).failed = Cardinality(F)
    BY DEF CountersOf, CountersFor
  <2> HIDE DEF F, s
  <2>3. IsFiniteSet(F)
    BY <2>1, LengthOfDistinct
  <2>4. Cardinality(F) \in Nat /\ (Cardinality(F) = 0 <=> F = {})
    BY <2>3, FS_EmptySet, FS_CardinalityType
  <2>5. QED
    BY <2>2, <2>4 DEF F
<1>2. \A c \in DOMAIN report : ControlFailed(report[c]) <=> FailedResources(RulesOf(report, c)) # {}
  BY RulesOfReport, StatusOfControl DEF RulesOf
<1>3. FailedResources(AllRules(report)) = {}
        <=> \A c \in DOMAIN report : FailedResources(RulesOf(report, c)) = {}
  BY DEF FailedResources, AllRules
<1>4. \A c \in DOMAIN report : AreIDsOf(ControlIDs(report[c]), RulesOf(report, c))
  BY RulesOfReport, ControlIDsCorrect DEF RulesOf
<1>5. AreIDsOf(FrameworkIDs(report), AllRules(report))
  BY FrameworkIDsCorrect
<1>6. QED
  BY <1>1, <1>2, <1>3, <1>4, <1>5

LEMMA StatusOfFramework ==
    (FrameworkStatus = "failed") <=> \E c \in DOMAIN controls : ControlFailed(controls[c])
BY DEF FrameworkStatus

LEMMA InvariantStatus == IInv => StatusMatchesCounters
<1> SUFFICES ASSUME IInv, Counted PROVE StatusMatchesCounters
  BY DEF StatusMatchesCounters
<1>1. /\ IsReport(controls) /\ counters = Recorded(controls)
  BY FromIsReport DEF IInv
<1>2. /\ counters.framework = CountersOf(AllRules(controls))
  BY <1>1 DEF Recorded
<1>3. FrameworkStatus = "failed" <=> counters.framework.failed > 0
  BY <1>1, <1>2, FailuresCounted, StatusOfFramework
<1>4. ASSUME FrameworkStatus = "success" PROVE counters.framework.warning = 0
  <2>1. \A c \in DOMAIN controls : ~ControlFailed(controls[c]) /\ ~ControlWarning(controls[c])
    BY <1>4 DEF FrameworkStatus
  <2>2. \A c \in DOMAIN controls : \A r \in DOMAIN controls[c] : RulePassed(controls[c][r])
    BY <2>1 DEF ControlWarning, ControlFailed, RuleWarning
  <2>3. \A rule \in AllRules(controls) : IsRule(rule) /\ RulePassed(rule)
    BY <1>1, <2>2, RulesOfReport DEF AllRules, RulesOf
  <2>4. AllWarned(AllRules(controls)) = {}
    BY <2>3, StatusOfRule DEF AllWarned
  <2>5. Cardinality(AllWarned(AllRules(controls)) \ FailedResources(AllRules(controls))) = 0
    BY <2>4, FS_EmptySet
  <2>6. QED
    BY <1>2, <2>5 DEF CountersOf, CountersFor
<1>5. QED
  BY <1>3, <1>4 DEF StatusMatchesCounters

(* What a calculation of the scores writes, all resources known.              *)
LEMMA WeighedScores ==
    ASSUME IInv, CalculateFrameworkScore(ResourceID)
    PROVE  LET weighing == {c \in DOMAIN controls : baseScore[c] > 0}
           IN  /\ \A c \in weighing : Zero(scores'.controls[c]) <=> ~ControlFailed(controls[c])
               /\ Zero(scores'.framework) <=> \A c \in weighing : ~ControlFailed(controls[c])
               /\ wcs = 0 /\ weighing # {} =>
                     /\ \E c \in weighing : AtMost(scores'.framework, scores'.controls[c])
                     /\ \E c \in weighing : AtMost(scores'.controls[c], scores'.framework)
<1> DEFINE u == RawScores(controls, baseScore, ResourceID)
           w == WorstCases(controls, baseScore, ResourceID)
           S == DOMAIN controls
           weighing == {c \in S : baseScore[c] > 0}
           U == SumFunction(u)
           W == SumFunction(w)
<1>1. IsReport(controls) /\ \A c \in S : IsControl(controls[c])
  BY FromIsReport, RulesOfReport DEF IInv
<1>2. \A c \in S : baseScore[c] \in Nat
  <2>1. baseScore \in Seq(Nat) /\ DOMAIN controls \subseteq DOMAIN baseScore
    BY FromIsReport, BaseScoresAssumption DEF IInv
  <2>2. QED
    BY <2>1
<1>3. scores' = [framework |-> IF wcs + W = 0 THEN Score(0, 100) ELSE Score(U, wcs + W),
                 controls |-> [c \in S |-> ControlScore(controls[c], baseScore[c], ResourceID)]]
  BY DEF CalculateFrameworkScore, RawScores, WorstCases
<1>4. \A c \in S : /\ u[c] = Unnormalized(controls[c], baseScore[c], ResourceID)
                   /\ w[c] = WorstCase(controls[c], baseScore[c], ResourceID)
  BY DEF RawScores, WorstCases
<1>5. \A c \in S : scores'.controls[c] = Score(u[c], IF w[c] > 0 THEN w[c] ELSE 100)
  BY <1>3, <1>4 DEF ControlScore
<1>6. /\ IsFiniteSet(S) /\ DOMAIN u = S /\ DOMAIN w = S
      /\ \A c \in S : /\ u[c] \in Nat /\ w[c] \in Nat /\ u[c] <= w[c]
                      /\ w[c] = 0 <=> baseScore[c] = 0
      /\ U \in Nat /\ W \in Nat /\ U <= W
      /\ U = 0 <=> \A c \in S : u[c] = 0
      /\ W = 0 <=> \A c \in S : baseScore[c] = 0
  BY <1>1, <1>2, FrameworkWeighs
<1>7. \A c \in S : baseScore[c] > 0 => (u[c] = 0 <=> ~ControlFailed(controls[c]))
  BY <1>1, <1>2, <1>4, ZeroScore
<1>8. U = SumFunctionOnSet(u, S) /\ W = SumFunctionOnSet(w, S)
  BY <1>6 DEF SumFunction
<1>9. wcs \in Nat
  BY DEF IInv, ScoresTyped
<1> HIDE DEF u, w, S, U, W
<1>10. \A c \in weighing : Zero(scores'.controls[c]) <=> ~ControlFailed(controls[c])
  <2>1. \A c \in S : scores'.controls[c].part = u[c]
    <3>1. \A x, y : Score(x, y).part = x
      BY DEF Score
    <3>2. QED
      BY <1>5, <3>1
  <2>2. QED
    BY <1>7, <2>1 DEF Zero
<1>11. Zero(scores'.framework) <=> \A c \in weighing : ~ControlFailed(controls[c])
  <2>1. U = 0 <=> \A c \in weighing : ~ControlFailed(controls[c])
    <3>1. \A c \in S : c \notin weighing => u[c] = 0
      BY <1>2, <1>6
    <3>2. U = 0 <=> \A c \in weighing : u[c] = 0
      BY <1>6, <3>1
    <3>3. QED
      BY <1>7, <3>2
  <2>2. CASE wcs + W = 0
    <3>1. scores'.framework = Score(0, 100) /\ U = 0
      BY <1>3, <1>6, <1>9, <2>2
    <3>2. QED
      BY <2>1, <3>1 DEF Zero, Score
  <2>3. CASE wcs + W # 0
    <3>1. scores'.framework = Score(U, wcs + W)
      BY <1>3, <2>3
    <3>2. QED
      BY <2>1, <3>1 DEF Zero, Score
  <2>4. QED
    BY <2>2, <2>3
<1>12. ASSUME wcs = 0, weighing # {}
       PROVE  /\ \E c \in weighing : AtMost(scores'.framework, scores'.controls[c])
              /\ \E c \in weighing : AtMost(scores'.controls[c], scores'.framework)
  <2>1. PICK z \in S : w[z] > 0
    BY <1>2, <1>6, <1>12
  <2>2. W > 0
    BY <1>6, <2>1
  <2>3. scores'.framework = Score(U, W)
    BY <1>3, <1>6, <1>12, <2>2
  <2>4. /\ \E c \in S : w[c] > 0 /\ U * w[c] <= u[c] * W
        /\ \E c \in S : w[c] > 0 /\ u[c] * W <= U * w[c]
    BY <1>6, <1>8, <2>1, BetweenParts
  <2>5. \A c \in S : w[c] > 0 => c \in weighing /\ scores'.controls[c] = Score(u[c], w[c])
    BY <1>2, <1>5, <1>6
  <2>6. \A c \in S : w[c] > 0 =>
            /\ AtMost(scores'.framework, scores'.controls[c]) <=> U * w[c] <= u[c] * W
            /\ AtMost(scores'.controls[c], scores'.framework) <=> u[c] * W <= U * w[c]
    <3>1. \A x, y, p, q : AtMost(Score(x, y), Score(p, q)) <=> x * q <= p * y
      BY DEF AtMost, Score
    <3>2. QED
      BY <2>3, <2>5, <3>1
  <2>7. QED
    BY <2>4, <2>5, <2>6
<1>13. QED
  BY <1>10, <1>11, <1>12 DEF S

LEMMA DefaultScores ==
    ASSUME IInv, Counted, SetDefaultScore
    PROVE  /\ Full(scores'.framework) <=> FrameworkStatus # "failed"
           /\ \A c \in DOMAIN controls : Full(scores'.controls[c]) <=> ~ControlFailed(controls[c])
<1>1. IsReport(controls) /\ DOMAIN controls = DOMAIN given /\ counters = Recorded(controls)
  BY FromIsReport DEF IInv
<1>2. ASSUME NEW k, CountersOK(k), k.total \in Nat
      PROVE  Full(DefaultScore(k)) <=> k.failed = 0
  <2>1. k.failed \in Nat /\ k.failed <= k.total
    BY <1>2 DEF CountersOK
  <2>2. percentage(k.total, k.failed) = 100 <=> k.failed = 0
    BY <1>2, <2>1, PercentageCorrect
  <2>3. QED
    BY <2>2 DEF Full, DefaultScore, Score
<1>3. Full(scores'.framework) <=> counters.framework.failed = 0
  BY <1>2 DEF SetDefaultScore, IInv, CountersTyped
<1>4. \A c \in DOMAIN controls : Full(scores'.controls[c]) <=> counters.controls[c].failed = 0
  BY <1>1, <1>2 DEF SetDefaultScore, IInv, CountersTyped
<1>5. /\ counters.framework = CountersOf(AllRules(controls))
      /\ \A c \in DOMAIN controls : counters.controls[c] = CountersOf(RulesOf(controls, c))
  BY <1>1 DEF Recorded
<1>6. QED
  BY <1>1, <1>3, <1>4, <1>5, FailuresCounted, StatusOfFramework

-----------------------------------------------------------------------------
(* Whatever the order of counts, scores and exceptions, the counters of a     *)
(* report, its controls and its rules are the sizes of the sets of resources  *)
(* that fail and that only warn below them, and until exceptions change after  *)
(* a first listing no input is missed (ResourcesIDs.append, ListResourcesIDs). *)
THEOREM CountersCorrect == Spec => []CountersAreUnions
BY Invariant, InvariantCounts, PTL

(* The status of the framework (FrameworkReport.GetStatus) and its counters    *)
(* agree.                                                                    *)
THEOREM CountedStatusCorrect == Spec => []StatusMatchesCounters
BY Invariant, InvariantStatus, PTL

(* SetUniqueResourcesCounter, called again, leaves the counters as they are.   *)
THEOREM RecountCorrect == Spec => RecountIsStable
<1>1. IInv /\ [Next]_vars => [Counted /\ SetUniqueResourcesCounter => counters' = counters]_vars
  BY CountStep DEF IInv, vars
<1>2. QED
  BY <1>1, Invariant, PTL DEF Spec, RecountIsStable

(* SetDefaultScore and CalculateFrameworkScore write to one field percentages   *)
(* of opposite directions, each of which agrees with the status.             *)
ScoresAgreeStep ==
    /\ Counted /\ SetDefaultScore =>
          /\ Full(scores'.framework) <=> FrameworkStatus # "failed"
          /\ \A c \in DOMAIN controls : Full(scores'.controls[c]) <=> ~ControlFailed(controls[c])
    /\ CalculateFrameworkScore(DOMAIN Weight) =>
          LET weighing == {c \in DOMAIN controls : baseScore[c] > 0}
          IN  /\ \A c \in weighing : Zero(scores'.controls[c]) <=> ~ControlFailed(controls[c])
              /\ Zero(scores'.framework) <=> \A c \in weighing : ~ControlFailed(controls[c])
              /\ wcs = 0 /\ weighing # {} =>
                    /\ \E c \in weighing : AtMost(scores'.framework, scores'.controls[c])
                    /\ \E c \in weighing : AtMost(scores'.controls[c], scores'.framework)

THEOREM ScoresCorrect == Spec => ScoresAgree
<1>1. IInv /\ [Next]_vars => [ScoresAgreeStep]_vars
  <2>1. IInv => ScoresAgreeStep
    BY DefaultScores, WeighedScores DEF ScoresAgreeStep, ResourceID
  <2>2. QED
    BY <2>1
<1>2. (Spec => [][ScoresAgreeStep]_vars)
  BY <1>1, Invariant, PTL DEF Spec
<1>3. QED
  BY <1>2, PTL DEF ScoresAgree, ScoresAgreeStep

=============================================================================

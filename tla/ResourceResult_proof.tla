------------------------ MODULE ResourceResult_proof ------------------------
(***************************************************************************)
(* Proofs about ResourceResult, for every set of results, policies,        *)
(* frameworks and filters, and every sequence of calls and reloads.        *)
(***************************************************************************)
EXTENDS ResourceResult, Lemmas

-----------------------------------------------------------------------------
(* Combined statuses.  The loop is one comparison after another.             *)
LEMMA ComparisonType == \A x, y : CompareStatusAndSubStatus(x, y) \in StatusInfo
<1> SUFFICES ASSUME NEW x, NEW y PROVE CompareStatusAndSubStatus(x, y) \in StatusInfo
  OBVIOUS
<1>1. Compare(x.status, y.status) \in ScanningStatus
  BY DEF Compare, ScanningStatus
<1>2. QED
  BY <1>1, SubStatusForType DEF CompareStatusAndSubStatus, Info, StatusInfo

SolvesCompared(h, start, infos, n) ==
    h = [s \in SUBSET (1 .. n) |->
            IF s = {} THEN start
            ELSE CompareStatusAndSubStatus(h[s \ {Max(s)}], infos[Max(s)])]

LEMMA ComparedIsSolvable ==
    ASSUME NEW start, NEW n \in Nat, NEW E, NEW infos \in [1 .. n -> E]
    PROVE  \E h : SolvesCompared(h, start, infos, n)
<1> DEFINE D == StatusInfo \union {start}
           step == [p \in D \X E |-> CompareStatusAndSubStatus(p[1], p[2])]
<1>1. step \in [D \X E -> D] /\ start \in D
  BY ComparisonType
<1>2. \A x \in D, y \in E : step[<<x, y>>] = CompareStatusAndSubStatus(x, y)
  OBVIOUS
<1> HIDE DEF D, step
<1>3. PICK h \in [SUBSET (1 .. n) -> D] : SolvesFold(h, step, start, infos, n)
  BY <1>1, FoldIsSolvable
<1>4. ASSUME NEW s \in SUBSET (1 .. n), s # {}
      PROVE  step[<<h[s \ {Max(s)}], infos[Max(s)]>>]
                = CompareStatusAndSubStatus(h[s \ {Max(s)}], infos[Max(s)])
  <2>1. Max(s) \in s
    BY <1>4, MaxIsMember
  <2>2. h[s \ {Max(s)}] \in D /\ infos[Max(s)] \in E
    BY <2>1
  <2>3. QED
    BY <1>2, <2>2
<1>5. SolvesCompared(h, start, infos, n)
  BY <1>3, <1>4 DEF SolvesFold, SolvesCompared
<1>6. QED
  BY <1>5

(* The values it passes through.                                             *)
IsRun(upto, start, infos, n) ==
    /\ upto[0] = start
    /\ \A k \in 1 .. n : upto[k] = CompareStatusAndSubStatus(upto[k - 1], infos[k])
    /\ Compared(start, infos) = upto[n]

LEMMA ComparedSteps ==
    ASSUME NEW start, NEW n \in Nat, NEW E, NEW infos \in [1 .. n -> E]
    PROVE  \E upto : IsRun(upto, start, infos, n)
<1> DEFINE iter == CHOOSE h : SolvesCompared(h, start, infos, n)
           upto == [k \in 0 .. n |-> iter[1 .. k]]
<1>1. SolvesCompared(iter, start, infos, n)
  BY ComparedIsSolvable
<1>2. Compared(start, infos) = iter[1 .. n]
  <2>1. DOMAIN infos = 1 .. n
    OBVIOUS
  <2>2. QED
    BY <2>1 DEF SolvesCompared, Compared, FoldLeft, MapThenFoldSet
<1> HIDE DEF iter
<1>3. upto[0] = start
  <2>1. 1 .. 0 = {} /\ iter[{}] = start
    BY <1>1 DEF SolvesCompared
  <2>2. QED
    BY <2>1
<1>4. ASSUME NEW k \in 1 .. n PROVE upto[k] = CompareStatusAndSubStatus(upto[k - 1], infos[k])
  <2>1. /\ 1 .. k \in SUBSET (1 .. n) /\ 1 .. k # {} /\ Max(1 .. k) = k
        /\ (1 .. k) \ {k} = 1 .. k - 1
    BY LastOfPrefix
  <2>2. iter[1 .. k] = CompareStatusAndSubStatus(iter[1 .. k - 1], infos[k])
    BY <1>1, <2>1 DEF SolvesCompared
  <2>3. k \in 0 .. n /\ k - 1 \in 0 .. n
    OBVIOUS
  <2>4. QED
    BY <2>2, <2>3
<1>5. Compared(start, infos) = upto[n]
  BY <1>2
<1> HIDE DEF upto
<1>6. IsRun(upto, start, infos, n)
  BY <1>3, <1>4, <1>5 DEF IsRun
<1>7. QED
  BY <1>6

(* The status the loop ends with depends on which statuses occur only.       *)
Overall(S) ==
    IF StatusFailed \in S THEN StatusFailed
    ELSE IF StatusSkipped \in S THEN StatusSkipped
    ELSE IF S \subseteq {StatusUnknown} THEN StatusUnknown
    ELSE StatusPassed

LEMMA StatusesDifferFromUnknown ==
    StatusUnknown \notin {StatusPassed, StatusFailed, StatusSkipped}
BY Zenon DEF StatusPassed, StatusFailed, StatusSkipped, StatusUnknown

LEMMA OverallWithOneMore ==
    ASSUME NEW S, NEW x, S # {}
    PROVE  Compare(Overall(S), x) = Overall(S \union {x})
BY StatusesDiffer, StatusesDifferFromUnknown DEF Overall, Compare

StatusesOf(infos, n) == {infos[k].status : k \in 1 .. n}

LEMMA ComparedStatus ==
    ASSUME NEW s \in {StatusPassed, StatusUnknown},
           NEW n \in Nat, NEW E, NEW infos \in [1 .. n -> E]
    PROVE  Compared(Info(s, SubStatusUnknown), infos).status
              = Overall({s} \union StatusesOf(infos, n))
<1> DEFINE start == Info(s, SubStatusUnknown)
           upTo(k) == {s} \union {infos[j].status : j \in 1 .. k}
<1>0. start.status = s
  BY DEF Info
<1> HIDE DEF start
<1>1. PICK upto : IsRun(upto, start, infos, n)
  BY ComparedSteps
<1> USE <1>1 DEF IsRun
<1> DEFINE Good == {k \in 0 .. n : upto[k].status = Overall(upTo(k))}
<1>2. 0 \in Good
  <2>1. upTo(0) = {s}
    OBVIOUS
  <2>2. Overall({s}) = s
    BY StatusesDiffer, StatusesDifferFromUnknown DEF Overall
  <2> HIDE DEF upTo
  <2>3. QED
    BY <1>0, <1>1, <2>1, <2>2
<1>3. ASSUME NEW k \in 0 .. n - 1, k \in Good PROVE k + 1 \in Good
  <2>1. upto[k + 1] = CompareStatusAndSubStatus(upto[k], infos[k + 1])
    BY <1>1
  <2>2. upto[k + 1].status = Compare(upto[k].status, infos[k + 1].status)
    BY <2>1 DEF CompareStatusAndSubStatus, Info
  <2>3. upTo(k + 1) = upTo(k) \union {infos[k + 1].status}
    <3>1. 1 .. k + 1 = (1 .. k) \union {k + 1}
      OBVIOUS
    <3>2. QED
      BY <3>1
  <2>4. upTo(k) # {} /\ upto[k].status = Overall(upTo(k))
    BY <1>3
  <2> HIDE DEF upTo
  <2>5. upto[k + 1].status = Overall(upTo(k + 1))
    BY <2>2, <2>3, <2>4, OverallWithOneMore
  <2>6. QED
    BY <2>5
<1>4. n \in Good
  <2>1. \A k \in 0 .. n - 1 : k \in Good => k + 1 \in Good
    BY <1>3
  <2>2. n \in Nat /\ n \in 0 .. n
    OBVIOUS
  <2> HIDE <1>1 DEF Good
  <2>3. QED
    BY <1>2, <2>1, <2>2, InductionUpTo
<1>5. QED
  BY <1>1, <1>4 DEF StatusesOf, start

(* The sub status fits the status.                                           *)
Fits(info) ==
    /\ info \in StatusInfo
    /\ \E S : info.sub = SubStatusFor(info.status, S)

LEMMA ComparedFits ==
    ASSUME NEW start, Fits(start), NEW n \in Nat, NEW E, NEW infos \in [1 .. n -> E]
    PROVE  Fits(Compared(start, infos))
<1>1. PICK upto : IsRun(upto, start, infos, n)
  BY ComparedSteps
<1> USE <1>1 DEF IsRun
<1>2. CASE n = 0
  BY <1>1, <1>2
<1>3. CASE n # 0
  <2>1. upto[n] = CompareStatusAndSubStatus(upto[n - 1], infos[n])
    BY <1>1, <1>3
  <2>2. ASSUME NEW x, NEW y PROVE Fits(CompareStatusAndSubStatus(x, y))
    <3> DEFINE st == Compare(x.status, y.status)
               S == {x.sub, y.sub}
    <3>1. CompareStatusAndSubStatus(x, y) = Info(st, SubStatusFor(st, S))
      BY DEF CompareStatusAndSubStatus
    <3> HIDE DEF st, S
    <3>2. /\ CompareStatusAndSubStatus(x, y).status = st
          /\ CompareStatusAndSubStatus(x, y).sub = SubStatusFor(st, S)
      BY <3>1 DEF Info
    <3>3. QED
      BY <3>2, ComparisonType DEF Fits
  <2>3. QED
    BY <2>1, <2>2
<1>4. QED
  BY <1>2, <1>3

(* When all the statuses are one that absorbs itself, it is the result.      *)
AllAre(infos, n, x) == \A k \in 1 .. n : infos[k] = x

LEMMA ComparedSame ==
    ASSUME NEW start, NEW n \in Nat \ {0}, NEW x, NEW E, NEW infos \in [1 .. n -> E],
           AllAre(infos, n, x),
           CompareStatusAndSubStatus(start, x) = x, CompareStatusAndSubStatus(x, x) = x
    PROVE  Compared(start, infos) = x
<1>1. PICK upto : IsRun(upto, start, infos, n)
  BY ComparedSteps
<1> USE <1>1 DEF IsRun
<1> DEFINE Good == {k \in 0 .. n : k # 0 => upto[k] = x}
<1>2. 0 \in Good
  OBVIOUS
<1>3. ASSUME NEW k \in 0 .. n - 1, k \in Good PROVE k + 1 \in Good
  <2>1. upto[k + 1] = CompareStatusAndSubStatus(upto[k], x)
    BY <1>1 DEF AllAre
  <2>2. QED
    BY <1>1, <1>3, <2>1
<1>4. n \in Good
  <2>1. \A k \in 0 .. n - 1 : k \in Good => k + 1 \in Good
    BY <1>3
  <2>2. n \in Nat /\ n \in 0 .. n
    OBVIOUS
  <2> HIDE <1>1 DEF Good
  <2>3. QED
    BY <1>2, <2>1, <2>2, InductionUpTo
<1>5. QED
  BY <1>1, <1>4

-----------------------------------------------------------------------------
(* The names of a filter.  The two loops that collect them, step by step.    *)
WithName(fn, f) == IF f = Unset THEN fn ELSE Append(fn, f)
WithNew(seen, f) == IF Contains(seen, f) THEN seen ELSE Append(seen, f)

SolvesNames(h, seq, n) ==
    h = [s \in SUBSET (1 .. n) |->
            IF s = {} THEN <<>> ELSE WithName(h[s \ {Max(s)}], seq[Max(s)])]

IsNamesRun(upto, seq, n) ==
    /\ upto[0] = <<>>
    /\ \A k \in 1 .. n : upto[k] = WithName(upto[k - 1], seq[k])
    /\ ListFrameworkNames(seq) = upto[n]

LEMMA NamesSteps ==
    ASSUME NEW E, NEW n \in Nat, NEW seq \in [1 .. n -> E], seq # NoFilter
    PROVE  \E upto : IsNamesRun(upto, seq, n)
<1> DEFINE step == [p \in Seq(E) \X E |-> WithName(p[1], p[2])]
<1>1. step \in [Seq(E) \X E -> Seq(E)] /\ <<>> \in Seq(E)
  BY DEF WithName
<1>2. \A x \in Seq(E), y \in E : step[<<x, y>>] = WithName(x, y)
  OBVIOUS
<1> HIDE DEF step
<1>3. PICK g \in [SUBSET (1 .. n) -> Seq(E)] : SolvesFold(g, step, <<>>, seq, n)
  BY <1>1, FoldIsSolvable
<1>4. ASSUME NEW s \in SUBSET (1 .. n), s # {}
      PROVE  step[<<g[s \ {Max(s)}], seq[Max(s)]>>] = WithName(g[s \ {Max(s)}], seq[Max(s)])
  <2>1. Max(s) \in s
    BY <1>4, MaxIsMember
  <2>2. g[s \ {Max(s)}] \in Seq(E) /\ seq[Max(s)] \in E
    BY <2>1
  <2>3. QED
    BY <1>2, <2>2
<1>5. SolvesNames(g, seq, n)
  BY <1>3, <1>4 DEF SolvesFold, SolvesNames
<1> DEFINE iter == CHOOSE h : SolvesNames(h, seq, n)
           upto == [k \in 0 .. n |-> iter[1 .. k]]
<1>6. SolvesNames(iter, seq, n)
  BY <1>5
<1>7. ListFrameworkNames(seq) = iter[1 .. n]
  <2>1. DOMAIN seq = 1 .. n
    OBVIOUS
  <2>2. QED
    BY <2>1 DEF SolvesNames, ListFrameworkNames, FoldLeft, MapThenFoldSet, WithName
<1> HIDE DEF iter
<1>8. upto[0] = <<>>
  <2>1. 1 .. 0 = {} /\ iter[{}] = <<>>
    BY <1>6 DEF SolvesNames
  <2>2. QED
    BY <2>1
<1>9. ASSUME NEW k \in 1 .. n PROVE upto[k] = WithName(upto[k - 1], seq[k])
  <2>1. /\ 1 .. k \in SUBSET (1 .. n) /\ 1 .. k # {} /\ Max(1 .. k) = k
        /\ (1 .. k) \ {k} = 1 .. k - 1
    BY LastOfPrefix
  <2>2. iter[1 .. k] = WithName(iter[1 .. k - 1], seq[k])
    BY <1>6, <2>1 DEF SolvesNames
  <2>3. k \in 0 .. n /\ k - 1 \in 0 .. n
    OBVIOUS
  <2>4. QED
    BY <2>2, <2>3
<1>10. ListFrameworkNames(seq) = upto[n]
  BY <1>7
<1> HIDE DEF upto
<1>11. IsNamesRun(upto, seq, n)
  BY <1>8, <1>9, <1>10 DEF IsNamesRun
<1>12. QED
  BY <1>11

SolvesDistinct(h, seq, n) ==
    h = [s \in SUBSET (1 .. n) |->
            IF s = {} THEN <<>> ELSE WithNew(h[s \ {Max(s)}], seq[Max(s)])]

IsDistinctRun(upto, seq, n) ==
    /\ upto[0] = <<>>
    /\ \A k \in 1 .. n : upto[k] = WithNew(upto[k - 1], seq[k])
    /\ Distinct(seq) = upto[n]

LEMMA DistinctSteps ==
    ASSUME NEW E, NEW n \in Nat, NEW seq \in [1 .. n -> E]
    PROVE  \E upto : IsDistinctRun(upto, seq, n)
<1> DEFINE step == [p \in Seq(E) \X E |-> WithNew(p[1], p[2])]
<1>1. step \in [Seq(E) \X E -> Seq(E)] /\ <<>> \in Seq(E)
  BY DEF WithNew
<1>2. \A x \in Seq(E), y \in E : step[<<x, y>>] = WithNew(x, y)
  OBVIOUS
<1> HIDE DEF step
<1>3. PICK g \in [SUBSET (1 .. n) -> Seq(E)] : SolvesFold(g, step, <<>>, seq, n)
  BY <1>1, FoldIsSolvable
<1>4. ASSUME NEW s \in SUBSET (1 .. n), s # {}
      PROVE  step[<<g[s \ {Max(s)}], seq[Max(s)]>>] = WithNew(g[s \ {Max(s)}], seq[Max(s)])
  <2>1. Max(s) \in s
    BY <1>4, MaxIsMember
  <2>2. g[s \ {Max(s)}] \in Seq(E) /\ seq[Max(s)] \in E
    BY <2>1
  <2>3. QED
    BY <1>2, <2>2
<1>5. SolvesDistinct(g, seq, n)
  BY <1>3, <1>4 DEF SolvesFold, SolvesDistinct
<1> DEFINE iter == CHOOSE h : SolvesDistinct(h, seq, n)
           upto == [k \in 0 .. n |-> iter[1 .. k]]
<1>6. SolvesDistinct(iter, seq, n)
  BY <1>5
<1>7. Distinct(seq) = iter[1 .. n]
  <2>1. DOMAIN seq = 1 .. n
    OBVIOUS
  <2>2. QED
    BY <2>1 DEF SolvesDistinct, Distinct, FoldLeft, MapThenFoldSet, WithNew
<1> HIDE DEF iter
<1>8. upto[0] = <<>>
  <2>1. 1 .. 0 = {} /\ iter[{}] = <<>>
    BY <1>6 DEF SolvesDistinct
  <2>2. QED
    BY <2>1
<1>9. ASSUME NEW k \in 1 .. n PROVE upto[k] = WithNew(upto[k - 1], seq[k])
  <2>1. /\ 1 .. k \in SUBSET (1 .. n) /\ 1 .. k # {} /\ Max(1 .. k) = k
        /\ (1 .. k) \ {k} = 1 .. k - 1
    BY LastOfPrefix
  <2>2. iter[1 .. k] = WithNew(iter[1 .. k - 1], seq[k])
    BY <1>6, <2>1 DEF SolvesDistinct
  <2>3. k \in 0 .. n /\ k - 1 \in 0 .. n
    OBVIOUS
  <2>4. QED
    BY <2>2, <2>3
<1>10. Distinct(seq) = upto[n]
  BY <1>7
<1> HIDE DEF upto
<1>11. IsDistinctRun(upto, seq, n)
  BY <1>8, <1>9, <1>10 DEF IsDistinctRun
<1>12. QED
  BY <1>11

(* A filter of framework names is a list of them as it stands, ...           *)
LEMMA NamesOfFilter ==
    ASSUME NEW filter \in Seq(Frameworks)
    PROVE  filter # NoFilter /\ ListFrameworkNames(filter) = filter
<1> DEFINE n == Len(filter)
           prefix(k) == [j \in 1 .. k |-> filter[j]]
<1>1. n \in Nat /\ filter \in [1 .. n -> Frameworks]
  OBVIOUS
<1>2. filter # NoFilter
  <2>1. NoFilter[1] = "nil" /\ Len(NoFilter) = 1
    BY DEF NoFilter
  <2>2. n = 1 => filter[1] \in Frameworks
    BY <1>1
  <2>3. QED
    BY <2>1, <2>2, FiltersAssumption
<1>3. filter = prefix(n)
  OBVIOUS
<1> HIDE DEF n
<1>4. PICK upto : IsNamesRun(upto, filter, n)
  BY <1>1, <1>2, NamesSteps
<1> DEFINE Good == {k \in 0 .. n : upto[k] = prefix(k)}
<1>5. 0 \in Good
  BY <1>1, <1>4 DEF IsNamesRun
<1>6. ASSUME NEW k \in 0 .. n - 1, k \in Good PROVE k + 1 \in Good
  <2>1. filter[k + 1] \in Frameworks
    BY <1>1
  <2>2. upto[k + 1] = Append(prefix(k), filter[k + 1])
    <3>1. k + 1 \in 1 .. n /\ (k + 1) - 1 = k /\ upto[k] = prefix(k)
      BY <1>1, <1>6
    <3>2. upto[k + 1] = WithName(upto[k], filter[k + 1])
      BY <1>4, <3>1 DEF IsNamesRun
    <3>3. filter[k + 1] # Unset
      BY <2>1, FiltersAssumption
    <3> HIDE DEF prefix
    <3>4. QED
      BY <3>1, <3>2, <3>3 DEF WithName
  <2>3. Append(prefix(k), filter[k + 1]) = prefix(k + 1)
    <3>1. Len(prefix(k)) = k /\ prefix(k) \in Seq(Frameworks)
      BY <1>1
    <3>2. QED
      BY <2>1, <3>1
  <2>4. k + 1 \in 0 .. n
    BY <1>1
  <2> HIDE DEF prefix
  <2>5. QED
    BY <2>2, <2>3, <2>4
<1>7. n \in Good
  <2>1. \A k \in 0 .. n - 1 : k \in Good => k + 1 \in Good
    BY <1>6
  <2>2. n \in Nat /\ n \in 0 .. n
    BY <1>1
  <2> HIDE DEF Good
  <2>3. QED
    BY <1>5, <2>1, <2>2, InductionUpTo
<1>8. QED
  BY <1>2, <1>3, <1>4, <1>7 DEF IsNamesRun

(* ... and its names without repetitions are the same names.                 *)
LEMMA DistinctNames ==
    ASSUME NEW E, NEW names \in Seq(E)
    PROVE  Distinct(names) \in Seq(E) /\ ToSet(Distinct(names)) = ToSet(names)
<1> DEFINE n == Len(names)
           seen(k) == {names[j] : j \in 1 .. k}
<1>1. n \in Nat /\ names \in [1 .. n -> E] /\ ToSet(names) = seen(n)
  BY DEF ToSet
<1> HIDE DEF n
<1>2. PICK upto : IsDistinctRun(upto, names, n)
  BY <1>1, DistinctSteps
<1> DEFINE Good == {k \in 0 .. n : upto[k] \in Seq(E) /\ ToSet(upto[k]) = seen(k)}
<1>3. 0 \in Good
  <2>1. upto[0] = <<>> /\ seen(0) = {}
    BY <1>2 DEF IsDistinctRun
  <2>2. 0 \in 0 .. n /\ <<>> \in Seq(E)
    BY <1>1
  <2> HIDE DEF seen
  <2>3. upto[0] \in Seq(E) /\ ToSet(upto[0]) = seen(0)
    BY <2>1, <2>2, MembersOfNone
  <2>4. QED
    BY <2>2, <2>3
<1>4. ASSUME NEW k \in 0 .. n - 1, k \in Good PROVE k + 1 \in Good
  <2> DEFINE old == upto[k]
             f == names[k + 1]
  <2>1. upto[k + 1] = WithNew(old, f) /\ f \in E /\ k + 1 \in 0 .. n
    BY <1>1, <1>2 DEF IsDistinctRun
  <2>2. old \in Seq(E) /\ ToSet(old) = seen(k)
    BY <1>4
  <2>3. seen(k + 1) = seen(k) \union {f}
    <3>1. 1 .. k + 1 = (1 .. k) \union {k + 1}
      OBVIOUS
    <3>2. QED
      BY <3>1
  <2> HIDE DEF old, f, seen
  <2>4. Contains(old, f) <=> f \in ToSet(old)
    BY <2>2 DEF Contains, ToSet
  <2>5. Append(old, f) \in Seq(E) /\ ToSet(Append(old, f)) = ToSet(old) \union {f}
    BY <2>1, <2>2, MembersOfAppend
  <2>6. upto[k + 1] \in Seq(E) /\ ToSet(upto[k + 1]) = seen(k + 1)
    BY <2>1, <2>2, <2>3, <2>4, <2>5 DEF WithNew
  <2>7. QED
    BY <2>1, <2>6
<1>5. n \in Good
  <2>1. \A k \in 0 .. n - 1 : k \in Good => k + 1 \in Good
    BY <1>4
  <2>2. n \in Nat /\ n \in 0 .. n
    BY <1>1
  <2> HIDE DEF Good
  <2>3. QED
    BY <1>3, <2>1, <2>2, InductionUpTo
<1>6. QED
  BY <1>1, <1>2, <1>5 DEF IsDistinctRun
-----------------------------------------------------------------------------
(* Exceptions.  The part of a policy that filtering leaves alone.            *)
IsPolicy(e) == DOMAIN e = {"id", "alertOnly", "tuples", "resources"} /\ e.alertOnly \in BOOLEAN

(* d is the copy of e that holds the tuples kept for a match.                *)
IsCopy(d, e, match) ==
    /\ IsPolicy(d) /\ d.id = e.id /\ d.alertOnly = e.alertOnly /\ d.resources = e.resources
    /\ d.tuples = Kept(e, match)

LEMMA CopyOfPolicy ==
    ASSUME NEW e, IsPolicy(e), NEW match
    PROVE  IsCopy([e EXCEPT !.tuples = Kept(e, match)], e, match)
BY DEF IsPolicy, IsCopy

LEMMA FilteredOrigin ==
    ASSUME NEW X, \A e \in X : IsPolicy(e), NEW match, NEW d \in filterPostureExceptions(X, match)
    PROVE  \E e \in X : (e.tuples = {} \/ Kept(e, match) # {}) /\ IsCopy(d, e, match)
<1>1. PICK e \in X : (e.tuples = {} \/ Kept(e, match) # {})
                     /\ d = [e EXCEPT !.tuples = Kept(e, match)]
  BY DEF filterPostureExceptions
<1>2. QED
  BY <1>1, CopyOfPolicy

LEMMA FilteredMember ==
    ASSUME NEW X, \A e \in X : IsPolicy(e), NEW match,
           NEW e \in X, e.tuples = {} \/ Kept(e, match) # {}
    PROVE  \E d \in filterPostureExceptions(X, match) : IsCopy(d, e, match)
<1>1. [e EXCEPT !.tuples = Kept(e, match)] \in filterPostureExceptions(X, match)
  BY DEF filterPostureExceptions
<1>2. QED
  BY <1>1, CopyOfPolicy

(* What a failed rule shows: its failure, or an exception.                   *)
Acknowledged == Info(StatusFailed, SubStatusException)
Excepted == Info(StatusPassed, SubStatusException)

LEMMA RuleViewCases ==
    ASSUME NEW rule, NEW fs, NEW id
    PROVE  RuleView(rule, fs, id) \in {Info(rule.status, rule.sub), Acknowledged, Excepted}
BY DEF RuleView, statusWithExceptions, Acknowledged, Excepted

(* An exception that hides a rule in the raw view hides it everywhere.       *)
LEMMA RawExceptionHides ==
    ASSUME NEW rule, \A e \in rule.exceptions : IsPolicy(e), rule.status = StatusFailed,
           NEW id, NEW fs, RuleView(rule, {}, id).status # StatusFailed
    PROVE  RuleView(rule, {}, id) = Excepted /\ RuleView(rule, fs, id) = Excepted
<1> DEFINE raw == Match(TRUE, {}, id, rule.name)
           own == Match(TRUE, fs, id, rule.name)
           rawExceptions == filterPostureExceptions(rule.exceptions, raw)
           ownExceptions == filterPostureExceptions(rule.exceptions, own)
<1>1. /\ RuleView(rule, {}, id) = statusWithExceptions(rule, rawExceptions)
      /\ RuleView(rule, fs, id) = statusWithExceptions(rule, ownExceptions)
  BY DEF RuleView, FilterExceptionsByFrameworks
<1>2. ASSUME NEW e PROVE Kept(e, raw) \subseteq Kept(e, own)
  BY DEF Kept, posturePolicyMatches, Match
<1> HIDE DEF raw, own
<1>3. RuleView(rule, {}, id) = Excepted
  BY RuleViewCases DEF Info, Acknowledged
<1> HIDE DEF rawExceptions, ownExceptions
<1>4. rawExceptions # {} /\ ~allExceptionsAlertOnly(rawExceptions)
  BY <1>1, <1>3, StatusesDiffer DEF statusWithExceptions, Info, Excepted
<1>5. PICK d \in rawExceptions : ~d.alertOnly
  BY <1>4 DEF allExceptionsAlertOnly
<1>6. PICK e \in rule.exceptions : (e.tuples = {} \/ Kept(e, raw) # {}) /\ IsCopy(d, e, raw)
  BY <1>5, FilteredOrigin DEF rawExceptions
<1>7. e.tuples = {} \/ Kept(e, own) # {}
  BY <1>2, <1>6
<1>8. PICK d2 \in ownExceptions : IsCopy(d2, e, own)
  BY <1>7, FilteredMember DEF ownExceptions
<1>9. ~d2.alertOnly
  BY <1>5, <1>6, <1>8 DEF IsCopy
<1>10. RuleView(rule, fs, id) = Excepted
  BY <1>1, <1>8, <1>9 DEF statusWithExceptions, allExceptionsAlertOnly, Excepted
<1>11. QED
  BY <1>3, <1>10
-----------------------------------------------------------------------------
(* The rules and controls a result is made of.                               *)
IsRule(rule) ==
    /\ DOMAIN rule = {"name", "status", "sub", "config", "exceptions"}
    /\ rule.name # Unset
    /\ rule.status \in ScanningStatus /\ rule.sub \in ScanningSubStatus
    /\ rule.status = StatusFailed => rule.sub \in {SubStatusUnknown, SubStatusException}
    /\ rule.config \in {"absent", "blank", "set"}
    /\ \A e \in rule.exceptions : IsPolicy(e)

Undecided == Info(StatusUnknown, SubStatusUnknown)

(* A failed rule, or one a framework sees through an exception, is taken as  *)
(* it is by the loop over frameworks.                                        *)
LEMMA ViewsAreKept ==
    ASSUME NEW sub \in {SubStatusUnknown, SubStatusException},
           NEW x \in {Info(StatusFailed, sub), Acknowledged, Excepted}
    PROVE  CompareStatusAndSubStatus(Undecided, x) = x /\ CompareStatusAndSubStatus(x, x) = x
<1>1. CASE x.status = StatusFailed
  <2>1. x = Info(StatusFailed, x.sub) /\ x.sub \in {SubStatusUnknown, SubStatusException}
    BY <1>1, StatusesDiffer DEF Info, Acknowledged, Excepted
  <2>2. \A s \in {SubStatusUnknown, SubStatusException} :
            FailedSubStatus({SubStatusUnknown, s}) = s /\ FailedSubStatus({s, s}) = s
    BY SubStatusesDiffer DEF FailedSubStatus, Prefer
  <2>3. QED
    BY <2>1, <2>2 DEF CompareStatusAndSubStatus, Compare, SubStatusFor, Info, Undecided
<1>2. CASE x.status # StatusFailed
  <2>1. x = Excepted
    BY <1>2 DEF Info, Acknowledged
  <2>2. /\ PassedSubStatus({SubStatusUnknown, SubStatusException}) = SubStatusException
        /\ PassedSubStatus({SubStatusException, SubStatusException}) = SubStatusException
    BY DEF PassedSubStatus, Prefer
  <2>3. /\ Compare(StatusUnknown, StatusPassed) = StatusPassed
        /\ Compare(StatusPassed, StatusPassed) = StatusPassed
    BY StatusesDiffer, StatusesDifferFromUnknown DEF Compare
  <2>4. QED
    BY <2>1, <2>2, <2>3, StatusesDiffer
       DEF CompareStatusAndSubStatus, SubStatusFor, Info, Undecided, Excepted
<1>3. QED
  BY <1>1, <1>2

(* A failed rule seen by several frameworks: its views are combined.         *)
AreViews(infos, n, names, rule, id) ==
    /\ n \in Nat \ {0} /\ DOMAIN infos = 1 .. n
    /\ ruleStatus(rule, names, id) = Compared(Undecided, infos)
    /\ \A k \in 1 .. n : \E f \in ToSet(names) : infos[k] = RuleView(rule, {f}, id)
    /\ \A f \in ToSet(names) : \E k \in 1 .. n : infos[k] = RuleView(rule, {f}, id)
    /\ \A E : (\A f \in ToSet(names) : RuleView(rule, {f}, id) \in E) => infos \in [1 .. n -> E]

LEMMA ViewsOfNames ==
    ASSUME NEW rule, rule.status = StatusFailed, NEW id,
           NEW names \in Seq(Frameworks), names # <<>>
    PROVE  \E n, infos : AreViews(infos, n, names, rule, id)
<1> DEFINE frameworks == Distinct(names)
           n == Len(frameworks)
           infos == [k \in DOMAIN frameworks |-> RuleView(rule, {frameworks[k]}, id)]
<1>1. frameworks \in Seq(Frameworks) /\ ToSet(frameworks) = ToSet(names)
  BY DistinctNames
<1>2. names[1] \in ToSet(names)
  <2>1. Len(names) \in Nat \ {0} /\ 1 \in DOMAIN names
    OBVIOUS
  <2>2. QED
    BY <2>1 DEF ToSet
<1> HIDE DEF frameworks
<1>3. DOMAIN frameworks = 1 .. n /\ n \in Nat
  BY <1>1
<1>4. \A f \in ToSet(names) : \E k \in 1 .. n : frameworks[k] = f
  BY <1>1, <1>3 DEF ToSet
<1>5. \A k \in 1 .. n : frameworks[k] \in ToSet(names)
  BY <1>1, <1>3 DEF ToSet
<1>6. n # 0
  BY <1>2, <1>3, <1>4
<1>7. ruleStatus(rule, names, id) = Compared(Undecided, infos)
  BY DEF ruleStatus, Undecided, frameworks
<1>8. DOMAIN infos = 1 .. n /\ \A k \in 1 .. n : infos[k] = RuleView(rule, {frameworks[k]}, id)
  BY <1>3
<1>9. ASSUME NEW E, \A f \in ToSet(names) : RuleView(rule, {f}, id) \in E
      PROVE  infos \in [1 .. n -> E]
  BY <1>3, <1>5, <1>9
<1> HIDE DEF infos, n
<1>10. AreViews(infos, n, names, rule, id)
  <2>1. \A k \in 1 .. n : \E f \in ToSet(names) : infos[k] = RuleView(rule, {f}, id)
    BY <1>5, <1>8
  <2>2. \A f \in ToSet(names) : \E k \in 1 .. n : infos[k] = RuleView(rule, {f}, id)
    BY <1>4, <1>8
  <2>3. QED
    BY <1>3, <1>6, <1>7, <1>8, <1>9, <2>1, <2>2 DEF AreViews
<1>11. QED
  BY <1>10

(* When they all are the same, that is what the frameworks see together.     *)
LEMMA SameViews ==
    ASSUME NEW rule, IsRule(rule), rule.status = StatusFailed, NEW id,
           NEW names \in Seq(Frameworks), names # <<>>, NEW x,
           \A f \in ToSet(names) : RuleView(rule, {f}, id) = x
    PROVE  ruleStatus(rule, names, id) = x
<1>1. PICK n, infos : AreViews(infos, n, names, rule, id)
  BY ViewsOfNames
<1>2. n \in Nat \ {0} /\ infos \in [1 .. n -> {x}] /\ AllAre(infos, n, x)
  BY <1>1 DEF AreViews, AllAre
<1>3. x \in {Info(rule.status, rule.sub), Acknowledged, Excepted}
  <2>1. 1 \in 1 .. n /\ infos[1] = x
    BY <1>2 DEF AllAre
  <2>2. PICK f \in ToSet(names) : infos[1] = RuleView(rule, {f}, id)
    BY <1>1, <2>1 DEF AreViews
  <2>3. QED
    BY <2>1, <2>2, RuleViewCases
<1>4. CompareStatusAndSubStatus(Undecided, x) = x /\ CompareStatusAndSubStatus(x, x) = x
  <2>1. rule.sub \in {SubStatusUnknown, SubStatusException}
    BY DEF IsRule
  <2>2. QED
    BY <1>3, <2>1, ViewsAreKept
<1>5. Compared(Undecided, infos) = x
  <2> DEFINE E == {x}
  <2>1. infos \in [1 .. n -> E]
    BY <1>2
  <2> HIDE DEF E
  <2>2. QED
    BY <1>2, <1>4, <2>1, ComparedSame
<1>6. QED
  BY <1>1, <1>5 DEF AreViews

LEMMA SingleView ==
    ASSUME NEW rule, IsRule(rule), rule.status = StatusFailed, NEW id, NEW f \in Frameworks
    PROVE  ruleStatus(rule, <<f>>, id) = RuleView(rule, {f}, id)
<1>1. <<f>> \in Seq(Frameworks) /\ <<f>> # <<>>
  OBVIOUS
<1>2. ToSet(<<f>>) = {f}
  BY DEF ToSet
<1>3. \A g \in ToSet(<<f>>) : RuleView(rule, {g}, id) = RuleView(rule, {f}, id)
  BY <1>2
<1>4. QED
  BY <1>1, <1>3, SameViews

(* Several frameworks together see the failure that one of them sees, and    *)
(* otherwise what each of them sees.                                         *)
JointRule(rule, names, id) ==
    \/ /\ ruleStatus(rule, names, id).status = StatusFailed
       /\ \E f \in ToSet(names) : ruleStatus(rule, <<f>>, id).status = StatusFailed
    \/ /\ ruleStatus(rule, names, id).status # StatusFailed
       /\ \A f \in ToSet(names) : ruleStatus(rule, <<f>>, id) = ruleStatus(rule, names, id)

LEMMA RuleIsJoint ==
    ASSUME NEW rule, IsRule(rule), NEW id, NEW names \in Seq(Frameworks), names # <<>>
    PROVE  JointRule(rule, names, id)
<1>1. CASE rule.status # StatusFailed
  BY <1>1 DEF JointRule, ruleStatus, Info
<1>2. CASE rule.status = StatusFailed
  <2>1. ToSet(names) \subseteq Frameworks
    BY DEF ToSet
  <2>2. \A f \in ToSet(names) : ruleStatus(rule, <<f>>, id) = RuleView(rule, {f}, id)
    BY <1>2, <2>1, SingleView
  <2>3. CASE \E f \in ToSet(names) : RuleView(rule, {f}, id).status = StatusFailed
    <3>1. PICK n, infos : AreViews(infos, n, names, rule, id)
      BY <1>2, ViewsOfNames
    <3> DEFINE E == {RuleView(rule, {f}, id) : f \in ToSet(names)}
               S == {StatusUnknown} \union StatusesOf(infos, n)
    <3>2. n \in Nat /\ infos \in [1 .. n -> E]
      BY <3>1 DEF AreViews
    <3> HIDE DEF E
    <3>3. Undecided = Info(StatusUnknown, SubStatusUnknown)
      BY DEF Undecided
    <3>4. Compared(Undecided, infos).status = Overall(S)
      BY <3>2, <3>3, ComparedStatus
    <3>5. StatusFailed \in S
      BY <2>3, <3>1 DEF AreViews, StatusesOf
    <3>6. ruleStatus(rule, names, id).status = StatusFailed
      BY <3>1, <3>4, <3>5 DEF AreViews, Overall
    <3>7. QED
      BY <2>2, <2>3, <3>6 DEF JointRule
  <2>4. CASE \A f \in ToSet(names) : RuleView(rule, {f}, id).status # StatusFailed
    <3>1. \A f \in ToSet(names) : RuleView(rule, {f}, id) = Excepted
      BY <1>2, <2>4, RuleViewCases DEF Info, Acknowledged
    <3>2. ruleStatus(rule, names, id) = Excepted
      BY <1>2, <3>1, SameViews
    <3>3. Excepted.status # StatusFailed
      BY StatusesDiffer DEF Excepted, Info
    <3>4. \A f \in ToSet(names) : ruleStatus(rule, <<f>>, id) = Excepted
      BY <2>2, <3>1
    <3> HIDE DEF Excepted
    <3>5. QED
      BY <3>2, <3>3, <3>4 DEF JointRule
  <2>5. QED
    BY <2>3, <2>4
<1>3. QED
  BY <1>1, <1>2

(* A rule that does not fail in the raw view is the same in every view.      *)
LEMMA RawRuleHides ==
    ASSUME NEW rule, IsRule(rule), NEW id, ruleStatus(rule, <<>>, id).status # StatusFailed,
           NEW names \in Seq(Frameworks)
    PROVE  ruleStatus(rule, names, id) = ruleStatus(rule, <<>>, id)
<1>1. CASE rule.status # StatusFailed \/ names = <<>>
  BY <1>1 DEF ruleStatus
<1>2. CASE rule.status = StatusFailed /\ names # <<>>
  <2>1. ruleStatus(rule, <<>>, id) = RuleView(rule, {}, id)
    BY <1>2 DEF ruleStatus
  <2>2. RuleView(rule, {}, id) = Excepted /\ \A f : RuleView(rule, {f}, id) = Excepted
    BY <1>2, <2>1, RawExceptionHides DEF IsRule
  <2> DEFINE x == Excepted
  <2>3. \A f \in ToSet(names) : RuleView(rule, {f}, id) = x
    BY <2>2
  <2>4. ruleStatus(rule, names, id) = x
    BY <1>2, <2>3, SameViews
  <2>5. QED
    BY <2>1, <2>2, <2>4
<1>3. QED
  BY <1>1, <1>2

(* Controls.                                                                 *)
IsControl(c) ==
    /\ DOMAIN c = {"id", "rules", "actionRequired", "status"}
    /\ c.id # Unset
    /\ c.actionRequired \in ScanningSubStatus /\ c.status \in StatusInfo
    /\ IsSequence(c.rules)
    /\ \A j \in DOMAIN c.rules : IsRule(c.rules[j])

RuleInfos(c, names) == [k \in DOMAIN c.rules |-> ruleStatus(c.rules[k], names, c.id)]

LEMMA RulesAreCompared ==
    ASSUME NEW c, IsControl(c), NEW names
    PROVE  \E n, E : /\ n \in Nat /\ DOMAIN c.rules = 1 .. n
                     /\ RuleInfos(c, names) \in [1 .. n -> E]
                     /\ rulesStatus(c, names)
                            = Compared(Info(StatusPassed, SubStatusUnknown), RuleInfos(c, names))
<1> DEFINE n == Len(c.rules)
           E == {ruleStatus(c.rules[k], names, c.id) : k \in 1 .. n}
<1>1. n \in Nat /\ DOMAIN c.rules = 1 .. n
  BY DEF IsControl, IsSequence
<1>2. RuleInfos(c, names) \in [1 .. n -> E]
  BY <1>1 DEF RuleInfos
<1>3. rulesStatus(c, names) = Compared(Info(StatusPassed, SubStatusUnknown), RuleInfos(c, names))
  BY DEF rulesStatus, RuleInfos
<1> HIDE DEF n, E
<1>4. QED
  BY <1>1, <1>2, <1>3

Tallied == {StatusPassed, StatusFailed, StatusSkipped}

(* A control has one of the three statuses, with a sub status of that status. *)
LEMMA RulesStatusFits ==
    ASSUME NEW c, IsControl(c), NEW names
    PROVE  Fits(rulesStatus(c, names)) /\ rulesStatus(c, names).status \in Tallied
<1> DEFINE start == Info(StatusPassed, SubStatusUnknown)
<1>1. PICK n, E : /\ n \in Nat /\ DOMAIN c.rules = 1 .. n
                  /\ RuleInfos(c, names) \in [1 .. n -> E]
                  /\ rulesStatus(c, names) = Compared(start, RuleInfos(c, names))
  BY RulesAreCompared
<1>2. Fits(start)
  <2>1. start \in StatusInfo /\ start.status = StatusPassed /\ start.sub = SubStatusUnknown
    BY DEF Info, StatusInfo, ScanningStatus, ScanningSubStatus
  <2>2. SubStatusFor(StatusPassed, {}) = SubStatusUnknown
    BY SummaryOfNone
  <2>3. QED
    BY <2>1, <2>2 DEF Fits
<1> HIDE DEF start
<1>3. Fits(rulesStatus(c, names))
  BY <1>1, <1>2, ComparedFits
<1>4. rulesStatus(c, names).status
          = Overall({StatusPassed} \union StatusesOf(RuleInfos(c, names), n))
  BY <1>1, ComparedStatus DEF start
<1>5. \A S : Overall({StatusPassed} \union S) \in Tallied
  BY StatusesDifferFromUnknown DEF Overall, Tallied
<1>6. QED
  BY <1>3, <1>4, <1>5

(* It fails when one of its rules does.                                      *)
LEMMA FailsByARule ==
    ASSUME NEW c, IsControl(c), NEW names
    PROVE  rulesStatus(c, names).status = StatusFailed
               <=> \E k \in DOMAIN c.rules :
                       ruleStatus(c.rules[k], names, c.id).status = StatusFailed
<1> DEFINE infos == RuleInfos(c, names)
<1>1. PICK n, E : /\ n \in Nat /\ DOMAIN c.rules = 1 .. n
                  /\ infos \in [1 .. n -> E]
                  /\ rulesStatus(c, names)
                        = Compared(Info(StatusPassed, SubStatusUnknown), infos)
  BY RulesAreCompared
<1>2. \A k \in DOMAIN c.rules : infos[k] = ruleStatus(c.rules[k], names, c.id)
  BY DEF RuleInfos
<1> HIDE DEF infos
<1>3. rulesStatus(c, names).status = Overall({StatusPassed} \union StatusesOf(infos, n))
  BY <1>1, ComparedStatus
<1>4. \A S : Overall({StatusPassed} \union S) = StatusFailed <=> StatusFailed \in S
  BY StatusesDiffer, StatusesDifferFromUnknown DEF Overall
<1>5. StatusFailed \in StatusesOf(infos, n)
        <=> \E k \in DOMAIN c.rules : ruleStatus(c.rules[k], names, c.id).status = StatusFailed
  BY <1>1, <1>2 DEF StatusesOf
<1>6. QED
  BY <1>3, <1>4, <1>5

(* A control that does not fail in the raw view is the same in every view.   *)
LEMMA RawControlHides ==
    ASSUME NEW c, IsControl(c), rulesStatus(c, <<>>).status # StatusFailed,
           NEW names \in Seq(Frameworks)
    PROVE  rulesStatus(c, names) = rulesStatus(c, <<>>)
<1>1. ASSUME NEW k \in DOMAIN c.rules
      PROVE  ruleStatus(c.rules[k], names, c.id) = ruleStatus(c.rules[k], <<>>, c.id)
  <2>1. IsRule(c.rules[k]) /\ ruleStatus(c.rules[k], <<>>, c.id).status # StatusFailed
    BY FailsByARule DEF IsControl
  <2>2. QED
    BY <2>1, RawRuleHides
<1>2. QED
  BY <1>1 DEF rulesStatus

(* Several frameworks together see the failure that one of them sees, and    *)
(* otherwise what each of them sees.                                         *)
JointControl(c, names) ==
    \/ /\ rulesStatus(c, names).status = StatusFailed
       /\ \E f \in ToSet(names) : rulesStatus(c, <<f>>).status = StatusFailed
    \/ /\ rulesStatus(c, names).status # StatusFailed
       /\ \A f \in ToSet(names) : rulesStatus(c, <<f>>) = rulesStatus(c, names)

LEMMA ControlIsJoint ==
    ASSUME NEW c, IsControl(c), NEW names \in Seq(Frameworks), names # <<>>
    PROVE  JointControl(c, names)
<1>1. \A k \in DOMAIN c.rules : JointRule(c.rules[k], names, c.id)
  BY RuleIsJoint DEF IsControl
<1>2. CASE rulesStatus(c, names).status = StatusFailed
  <2>1. PICK k \in DOMAIN c.rules : ruleStatus(c.rules[k], names, c.id).status = StatusFailed
    BY <1>2, FailsByARule
  <2>2. PICK f \in ToSet(names) : ruleStatus(c.rules[k], <<f>>, c.id).status = StatusFailed
    BY <1>1, <2>1 DEF JointRule
  <2>3. rulesStatus(c, <<f>>).status = StatusFailed
    BY <2>2, FailsByARule
  <2>4. QED
    BY <1>2, <2>3 DEF JointControl
<1>3. CASE rulesStatus(c, names).status # StatusFailed
  <2>1. \A k \in DOMAIN c.rules : ruleStatus(c.rules[k], names, c.id).status # StatusFailed
    BY <1>3, FailsByARule
  <2>2. ASSUME NEW f \in ToSet(names) PROVE rulesStatus(c, <<f>>) = rulesStatus(c, names)
    <3>1. \A k \in DOMAIN c.rules :
             ruleStatus(c.rules[k], <<f>>, c.id) = ruleStatus(c.rules[k], names, c.id)
      BY <1>1, <2>1 DEF JointRule
    <3>2. QED
      BY <3>1 DEF rulesStatus
  <2>3. QED
    BY <1>3, <2>2 DEF JointControl
<1>4. QED
  BY <1>2, <1>3
-----------------------------------------------------------------------------
(* The action-required step.                                                 *)
Special == ReviewActions \union {SubStatusConfiguration}

(* Only a skipped status carries the sub status of a required action, or     *)
(* says that nothing was evaluated.                                          *)
LEMMA SpecialIsSkipped ==
    ASSUME NEW info, Fits(info), info.sub \in Special \union {SubStatusNotEvaluated}
    PROVE  info.status = StatusSkipped
<1>1. PICK S : info.sub = SubStatusFor(info.status, S)
  BY DEF Fits
<1>2. FailedSubStatus(S) \in {SubStatusException, SubStatusUnknown}
  BY DEF FailedSubStatus, Prefer
<1>3. PassedSubStatus(S) \in {SubStatusException, SubStatusUnknown, SubStatusIrrelevant,
                              SubStatusIncompleteCoverage}
  BY DEF PassedSubStatus, Prefer
<1>4. /\ SubStatusException \notin Special \union {SubStatusNotEvaluated}
      /\ SubStatusUnknown \notin Special \union {SubStatusNotEvaluated}
      /\ SubStatusIrrelevant \notin Special \union {SubStatusNotEvaluated}
      /\ SubStatusIncompleteCoverage \notin Special \union {SubStatusNotEvaluated}
  BY Zenon DEF Special, ReviewActions, SubStatusException, SubStatusUnknown, SubStatusIrrelevant,
               SubStatusIncompleteCoverage, SubStatusNotEvaluated, SubStatusConfiguration,
               SubStatusRequiresReview, SubStatusManualReview
<1>5. QED
  BY <1>1, <1>2, <1>3, <1>4 DEF SubStatusFor

(* The three things the step can do.                                         *)
Blocked(action, c) == action = SubStatusConfiguration /\ controlMissingAllConfigurations(c)

LEMMA ReviewStep ==
    ASSUME NEW c, NEW action \in ReviewActions, NEW info
    PROVE  WithActionRequired(action, c, info)
               = IF info.status = StatusFailed THEN Info(StatusSkipped, action) ELSE info
<1>1. action # SubStatusConfiguration
  BY SubStatusesDiffer DEF ReviewActions
<1>2. QED
  BY <1>1 DEF WithActionRequired

LEMMA ConfigurationStep ==
    ASSUME NEW c, NEW action, Blocked(action, c), NEW info, Fits(info)
    PROVE  /\ WithActionRequired(action, c, info)
                  = IF info.sub = SubStatusNotEvaluated THEN info
                    ELSE Info(StatusSkipped, SubStatusConfiguration)
           /\ WithActionRequired(action, c, info).status = StatusSkipped
<1>1. action \notin ReviewActions
  BY SubStatusesDiffer DEF Blocked, ReviewActions
<1>2. info.sub = SubStatusNotEvaluated => info.status = StatusSkipped
  BY SpecialIsSkipped
<1>3. QED
  BY <1>1, <1>2 DEF WithActionRequired, Blocked, Info

LEMMA NoStep ==
    ASSUME NEW c, NEW action, action \notin ReviewActions, ~Blocked(action, c), NEW info
    PROVE  WithActionRequired(action, c, info) = info
BY DEF WithActionRequired, Blocked

(* The action can be recovered from the status it led to.                    *)
Recovered(info) == IF info.sub \in Special THEN info.sub ELSE SubStatusUnknown

LEMMA RecoveredActionAgrees ==
    ASSUME NEW c, NEW action, NEW raw, Fits(raw), NEW shown,
           shown = WithActionRequired(action, c, raw)
    PROVE  WithActionRequired(Recovered(shown), c, raw) = shown
<1>1. SubStatusUnknown \notin ReviewActions /\ ~Blocked(SubStatusUnknown, c)
  BY SubStatusesDiffer DEF ReviewActions, Blocked
<1>2. raw = Info(raw.status, raw.sub)
  BY DEF Fits, StatusInfo, Info
<1>3. CASE action \in ReviewActions /\ raw.status = StatusFailed
  <2>1. shown = Info(StatusSkipped, action)
    BY <1>3, ReviewStep
  <2>2. Recovered(shown) = action
    BY <1>3, <2>1 DEF Recovered, Special, Info
  <2>3. QED
    BY <2>2
<1>4. CASE Blocked(action, c) /\ raw.sub # SubStatusNotEvaluated
  <2>1. shown = Info(StatusSkipped, SubStatusConfiguration)
    BY <1>4, ConfigurationStep
  <2>2. Recovered(shown) = action
    BY <1>4, <2>1 DEF Recovered, Special, Info, Blocked
  <2>3. QED
    BY <2>2
<1>5. CASE /\ ~(action \in ReviewActions /\ raw.status = StatusFailed)
           /\ ~(Blocked(action, c) /\ raw.sub # SubStatusNotEvaluated)
  <2>1. shown = raw
    BY <1>5 DEF WithActionRequired, Blocked
  <2>2. CASE raw.sub \in ReviewActions
    <3>1. Recovered(shown) = raw.sub /\ raw.status = StatusSkipped
      BY <2>1, <2>2, SpecialIsSkipped DEF Recovered, Special
    <3>2. QED
      BY <2>1, <2>2, <3>1, ReviewStep, StatusesDiffer
  <2>3. CASE raw.sub = SubStatusConfiguration
    <3>1. Recovered(shown) = SubStatusConfiguration /\ raw.status = StatusSkipped
      BY <2>1, <2>3, SpecialIsSkipped DEF Recovered, Special
    <3>2. raw = Info(StatusSkipped, SubStatusConfiguration)
      BY <1>2, <2>3, <3>1
    <3>3. SubStatusConfiguration \notin ReviewActions
      BY SubStatusesDiffer DEF ReviewActions
    <3>4. WithActionRequired(SubStatusConfiguration, c, raw) = raw
      BY <3>2, <3>3 DEF WithActionRequired
    <3>5. QED
      BY <2>1, <3>1, <3>4
  <2>4. CASE raw.sub \notin Special
    <3>1. Recovered(shown) = SubStatusUnknown
      BY <2>1, <2>4 DEF Recovered
    <3>2. QED
      BY <1>1, <2>1, <3>1, NoStep
  <2>5. QED
    BY <2>2, <2>3, <2>4 DEF Special
<1>6. QED
  BY <1>3, <1>4, <1>5

(* The cached status of a control is what its rules show now.                *)
RawStatus(c) == rulesStatus(c, <<>>)

Cached(c) ==
    isOldControl(c) \/ c.status = WithActionRequired(effectiveActionRequired(c), c, RawStatus(c))

LEMMA SetStatusCaches ==
    ASSUME NEW c, IsControl(c), NEW action \in ScanningSubStatus
    PROVE  LET d == WithStatus(c, action) IN
           /\ IsControl(d) /\ Cached(d) /\ d.id = c.id /\ d.rules = c.rules
           /\ d.actionRequired = action
           /\ d.status = WithActionRequired(action, c, RawStatus(c))
           /\ d.status.status \in Tallied
<1> DEFINE raw == RawStatus(c)
           shown == WithActionRequired(action, c, raw)
           d == WithStatus(c, action)
<1>1. d.id = c.id /\ d.rules = c.rules /\ d.actionRequired = action /\ d.status = shown
      /\ DOMAIN d = DOMAIN c
  BY DEF WithStatus, IsControl, RawStatus
<1> HIDE DEF d
<1>2. Fits(raw) /\ raw.status \in Tallied
  BY RulesStatusFits DEF RawStatus
<1>3. shown \in StatusInfo /\ shown.status \in Tallied
  <2>1. raw \in StatusInfo
    BY <1>2 DEF Fits
  <2>2. shown \in {raw, Info(StatusSkipped, action), Info(StatusSkipped, SubStatusConfiguration)}
    BY DEF WithActionRequired
  <2>3. Info(StatusSkipped, action) \in StatusInfo /\ Info(StatusSkipped, action).status \in Tallied
    BY DEF Info, StatusInfo, ScanningStatus, Tallied
  <2>4. /\ Info(StatusSkipped, SubStatusConfiguration) \in StatusInfo
        /\ Info(StatusSkipped, SubStatusConfiguration).status \in Tallied
    BY DEF Info, StatusInfo, ScanningStatus, ScanningSubStatus, Tallied
  <2> HIDE DEF raw, shown
  <2>5. QED
    BY <1>2, <2>1, <2>2, <2>3, <2>4
<1>4. RawStatus(d) = raw /\ \A a, info : WithActionRequired(a, d, info) = WithActionRequired(a, c, info)
  BY <1>1 DEF RawStatus, rulesStatus, WithActionRequired, controlMissingAllConfigurations
<1> HIDE DEF raw, shown
<1>5. d.status = WithActionRequired(effectiveActionRequired(d), d, RawStatus(d))
  <2>1. CASE action # SubStatusUnknown
    BY <1>1, <1>4, <2>1 DEF effectiveActionRequired, shown
  <2>2. CASE action = SubStatusUnknown
    <3>1. effectiveActionRequired(d) = Recovered(shown)
      BY <1>1, <2>2 DEF effectiveActionRequired, Recovered, Special
    <3>2. WithActionRequired(Recovered(shown), c, raw) = shown
      BY <1>2, RecoveredActionAgrees DEF shown
    <3>3. QED
      BY <1>1, <1>4, <3>1, <3>2
  <2>3. QED
    BY <2>1, <2>2
<1>6. IsControl(d)
  BY <1>1, <1>3 DEF IsControl
<1>7. QED
  BY <1>1, <1>3, <1>5, <1>6 DEF Cached, d, shown, raw

LEMMA ReloadCaches ==
    ASSUME NEW c, IsControl(c), Cached(c)
    PROVE  LET d == Reloaded(c) IN
           /\ IsControl(d) /\ Cached(d) /\ d.id = c.id /\ d.rules = c.rules /\ d.status = c.status
<1> DEFINE d == Reloaded(c)
           raw == RawStatus(c)
<1>1. d.id = c.id /\ d.rules = c.rules /\ d.actionRequired = SubStatusUnknown
      /\ d.status = c.status /\ DOMAIN d = DOMAIN c
  BY DEF Reloaded, IsControl
<1> HIDE DEF d
<1>2. IsControl(d)
  BY <1>1 DEF IsControl, ScanningSubStatus
<1>3. RawStatus(d) = raw /\ \A a, info : WithActionRequired(a, d, info) = WithActionRequired(a, c, info)
  BY <1>1 DEF RawStatus, rulesStatus, WithActionRequired, controlMissingAllConfigurations
<1>4. Fits(raw)
  BY RulesStatusFits DEF RawStatus
<1> HIDE DEF raw
<1>5. ASSUME c.status = WithActionRequired(effectiveActionRequired(c), c, raw)
      PROVE  d.status = WithActionRequired(effectiveActionRequired(d), d, RawStatus(d))
  <2>1. effectiveActionRequired(d) = Recovered(c.status)
    BY <1>1 DEF effectiveActionRequired, Recovered, Special
  <2>2. WithActionRequired(Recovered(c.status), c, raw) = c.status
    BY <1>4, <1>5, RecoveredActionAgrees
  <2>3. QED
    BY <1>1, <1>3, <2>1, <2>2
<1>6. Cached(d)
  BY <1>1, <1>5 DEF Cached, isOldControl, raw
<1>7. QED
  BY <1>1, <1>2, <1>6 DEF d
-----------------------------------------------------------------------------
(* The views of a control.                                                   *)
LEMMA ViewOfNames ==
    ASSUME NEW c, NEW filter \in Seq(Frameworks)
    PROVE  /\ isOldControl(c) => GetStatus(c, filter) = rulesStatus(c, filter)
           /\ ~isOldControl(c) =>
                 GetStatus(c, filter) = WithActionRequired(effectiveActionRequired(c), c,
                                                           rulesStatus(c, filter))
BY NamesOfFilter DEF GetStatus

LEMMA ViewIsTallied ==
    ASSUME NEW c, IsControl(c), NEW filter \in Seq(Frameworks)
    PROVE  GetStatus(c, filter).status \in Tallied
<1>1. rulesStatus(c, filter).status \in Tallied
  BY RulesStatusFits
<1>2. \A action, info : WithActionRequired(action, c, info).status \in {info.status, StatusSkipped}
  BY DEF WithActionRequired, Info
<1>3. StatusSkipped \in Tallied
  BY DEF Tallied
<1>4. QED
  BY <1>1, <1>2, <1>3, ViewOfNames

(* The most significant of several statuses.                                 *)
LEMMA VerdictOfWorst ==
    ASSUME NEW S, S \subseteq Tallied, NEW t \in S,
           \A s \in S : s = t \/ t = StatusFailed \/ (t = StatusSkipped /\ s = StatusPassed)
    PROVE  Verdict(S) = t
BY StatusesDiffer DEF Verdict, Tallied

(* A view over several frameworks is the worst of their single views.        *)
LEMMA JointViewIsWorst ==
    ASSUME NEW c, IsControl(c), NEW filter \in Seq(Frameworks), filter # <<>>
    PROVE  GetStatus(c, filter).status = Verdict({GetStatus(c, <<f>>).status : f \in ToSet(filter)})
<1> DEFINE e == effectiveActionRequired(c)
           step(info) == IF isOldControl(c) THEN info ELSE WithActionRequired(e, c, info)
           joint == rulesStatus(c, filter)
           one(f) == rulesStatus(c, <<f>>)
           view == GetStatus(c, filter)
           views(f) == GetStatus(c, <<f>>)
           F == ToSet(filter)
           S == {views(f).status : f \in F}
<1>1. F \subseteq Frameworks /\ F # {} /\ \A f \in F : <<f>> \in Seq(Frameworks)
  <2>1. Len(filter) \in Nat \ {0} /\ 1 \in DOMAIN filter
    OBVIOUS
  <2>2. F \subseteq Frameworks
    BY DEF ToSet
  <2>3. filter[1] \in F
    BY <2>1 DEF ToSet
  <2>4. QED
    BY <2>2, <2>3
<1>2. /\ joint.status = StatusFailed => \E f \in F : one(f).status = StatusFailed
      /\ joint.status # StatusFailed => \A f \in F : one(f) = joint
  BY ControlIsJoint DEF JointControl
<1>3. Fits(joint) /\ joint.status \in Tallied /\ \A f \in F : Fits(one(f)) /\ one(f).status \in Tallied
  BY RulesStatusFits
<1>4. view = step(joint) /\ view.status \in Tallied
  BY ViewOfNames, ViewIsTallied
<1>5. ASSUME NEW f \in F PROVE views(f) = step(one(f)) /\ views(f).status \in Tallied
  <2>1. <<f>> \in Seq(Frameworks)
    BY <1>1
  <2>2. QED
    BY <2>1, ViewOfNames, ViewIsTallied
<1> HIDE DEF F, joint, one, view, views
<1>6. \E f \in F : views(f).status = view.status
  <2>1. PICK f \in F : /\ joint.status # StatusFailed => one(f) = joint
                       /\ joint.status = StatusFailed => one(f).status = StatusFailed
    BY <1>1, <1>2
  <2>2. CASE joint.status # StatusFailed
    BY <1>4, <1>5, <2>1, <2>2
  <2>3. CASE joint.status = StatusFailed
    <3>1. one(f).status = StatusFailed
      BY <2>1, <2>3
    <3>2. CASE isOldControl(c) \/ (e \notin ReviewActions /\ ~Blocked(e, c))
      <4>1. view = joint /\ views(f) = one(f)
        BY <1>4, <1>5, <3>2, NoStep
      <4>2. QED
        BY <2>3, <3>1, <4>1
    <3>3. CASE ~isOldControl(c) /\ e \in ReviewActions
      <4>1. step(joint) = Info(StatusSkipped, e) /\ step(one(f)) = Info(StatusSkipped, e)
        BY <2>3, <3>1, <3>3, ReviewStep
      <4>2. QED
        BY <1>4, <1>5, <4>1
    <3>4. CASE ~isOldControl(c) /\ Blocked(e, c)
      <4>1. step(joint).status = StatusSkipped /\ step(one(f)).status = StatusSkipped
        BY <1>3, <3>4, ConfigurationStep
      <4>2. QED
        BY <1>4, <1>5, <4>1
    <3>5. QED
      BY <3>2, <3>3, <3>4
  <2>4. QED
    BY <2>2, <2>3
<1>7. ASSUME NEW f \in F
      PROVE  \/ views(f).status = view.status
             \/ view.status = StatusFailed
             \/ view.status = StatusSkipped /\ views(f).status = StatusPassed
  <2>1. CASE joint.status # StatusFailed
    <3>1. one(f) = joint
      BY <1>2, <2>1
    <3>2. views(f) = view
      BY <1>4, <1>5, <3>1
    <3>3. QED
      BY <3>2
  <2>2. CASE joint.status = StatusFailed
    <3>1. CASE isOldControl(c) \/ (e \notin ReviewActions /\ ~Blocked(e, c))
      <4>1. view = joint
        BY <1>4, <3>1, NoStep
      <4>2. QED
        BY <2>2, <4>1
    <3>2. CASE ~isOldControl(c) /\ e \in ReviewActions
      <4>1. view = Info(StatusSkipped, e)
        BY <1>4, <2>2, <3>2, ReviewStep
      <4>2. views(f) = IF one(f).status = StatusFailed THEN Info(StatusSkipped, e) ELSE one(f)
        BY <1>5, <3>2, ReviewStep
      <4>3. views(f).status \in {StatusPassed, StatusSkipped} /\ view.status = StatusSkipped
        BY <1>5, <4>1, <4>2, StatusesDiffer DEF Info, Tallied
      <4>4. QED
        BY <4>3
    <3>3. CASE ~isOldControl(c) /\ Blocked(e, c)
      <4>1. step(joint).status = StatusSkipped /\ step(one(f)).status = StatusSkipped
        BY <1>3, <3>3, ConfigurationStep
      <4>2. QED
        BY <1>4, <1>5, <4>1
    <3>4. QED
      BY <3>1, <3>2, <3>3
  <2>3. QED
    BY <2>1, <2>2
<1>8. Verdict(S) = view.status
  <2> DEFINE t == view.status
  <2>1. S \subseteq Tallied /\ t \in S
    BY <1>5, <1>6
  <2>2. \A s \in S : s = t \/ t = StatusFailed \/ (t = StatusSkipped /\ s = StatusPassed)
    BY <1>7
  <2> HIDE DEF S, t
  <2>3. Verdict(S) = t
    BY <2>1, <2>2, VerdictOfWorst
  <2>4. QED
    BY <2>3 DEF t
<1>9. QED
  BY <1>8 DEF F, view, views

(* The raw view is what was cached, and no framework sees worse.             *)
LEMMA RawViewIsWorst ==
    ASSUME NEW c, IsControl(c), ~isOldControl(c), Cached(c)
    PROVE  /\ GetStatus(c, <<>>) = GetStatus(c, NoFilter)
           /\ \A f \in Frameworks : Rank(GetStatus(c, <<f>>).status) <= Rank(c.status.status)
<1> DEFINE e == effectiveActionRequired(c)
           raw == RawStatus(c)
<1>1. GetStatus(c, NoFilter) = c.status /\ c.status = WithActionRequired(e, c, raw)
  BY DEF GetStatus, Cached
<1>2. GetStatus(c, <<>>) = c.status
  <2>1. <<>> \in Seq(Frameworks)
    OBVIOUS
  <2>2. QED
    BY <1>1, <2>1, ViewOfNames DEF RawStatus
<1>3. ASSUME NEW f \in Frameworks
      PROVE  Rank(GetStatus(c, <<f>>).status) <= Rank(c.status.status)
  <2> DEFINE one == rulesStatus(c, <<f>>)
  <2>1. GetStatus(c, <<f>>) = WithActionRequired(e, c, one) /\ <<f>> \in Seq(Frameworks)
    <3>1. <<f>> \in Seq(Frameworks)
      OBVIOUS
    <3>2. QED
      BY <3>1, ViewOfNames
  <2>2. Fits(one) /\ one.status \in Tallied /\ Fits(raw) /\ raw.status \in Tallied
    BY RulesStatusFits DEF RawStatus
  <2>3. raw.status # StatusFailed => one = raw
    BY <2>1, RawControlHides DEF RawStatus
  <2>4. \A s, t \in Tallied : s = t \/ t = StatusFailed \/ (t = StatusSkipped /\ s = StatusPassed)
                                  => Rank(s) <= Rank(t)
    BY StatusesDiffer DEF Rank, Tallied
  <2> HIDE DEF one, raw, e
  <2>5. CASE raw.status # StatusFailed
    <3>1. GetStatus(c, <<f>>) = c.status
      BY <1>1, <2>1, <2>3, <2>5
    <3>2. Rank(c.status.status) \in Nat
      BY DEF Rank
    <3>3. QED
      BY <3>1, <3>2
  <2>6. CASE raw.status = StatusFailed /\ e \in ReviewActions
    <3>1. c.status.status = StatusSkipped
      BY <1>1, <2>6, ReviewStep DEF Info
    <3>2. GetStatus(c, <<f>>).status \in {StatusSkipped, StatusPassed}
      BY <2>1, <2>2, <2>6, ReviewStep DEF Info, Tallied
    <3>3. QED
      BY <2>4, <3>1, <3>2 DEF Tallied
  <2>7. CASE Blocked(e, c)
    <3>1. c.status.status = StatusSkipped /\ GetStatus(c, <<f>>).status = StatusSkipped
      BY <1>1, <2>1, <2>2, <2>7, ConfigurationStep
    <3>2. QED
      BY <2>4, <3>1 DEF Tallied
  <2>8. CASE raw.status = StatusFailed /\ e \notin ReviewActions /\ ~Blocked(e, c)
    <3>1. c.status.status = StatusFailed /\ GetStatus(c, <<f>>).status \in Tallied
      BY <1>1, <2>1, <2>2, <2>8, NoStep
    <3>2. QED
      BY <2>4, <3>1 DEF Tallied
  <2>9. QED
    BY <2>5, <2>6, <2>7, <2>8
<1>4. QED
  BY <1>1, <1>2, <1>3

(* A report read back shows the same in every view.                          *)
LEMMA ReloadedViews ==
    ASSUME NEW c, IsControl(c), ~isOldControl(c), Cached(c),
           NEW filter, filter = NoFilter \/ filter \in Seq(Frameworks)
    PROVE  GetStatus(Reloaded(c), filter) = GetStatus(c, filter)
<1> DEFINE d == Reloaded(c)
           e == effectiveActionRequired(c)
           raw == RawStatus(c)
           view == rulesStatus(c, filter)
<1>1. /\ d.id = c.id /\ d.rules = c.rules /\ d.status = c.status
      /\ d.actionRequired = SubStatusUnknown
  BY DEF Reloaded, IsControl
<1> HIDE DEF d
<1>2. ~isOldControl(d)
  BY <1>1 DEF isOldControl
<1>3. CASE filter = NoFilter
  BY <1>1, <1>2, <1>3 DEF GetStatus, d
<1>4. CASE filter \in Seq(Frameworks)
  <2>1. /\ rulesStatus(d, filter) = view
        /\ \A a, info : WithActionRequired(a, d, info) = WithActionRequired(a, c, info)
    BY <1>1 DEF rulesStatus, WithActionRequired, controlMissingAllConfigurations
  <2>2. effectiveActionRequired(d) = Recovered(c.status)
    BY <1>1 DEF effectiveActionRequired, Recovered, Special
  <2>3. GetStatus(d, filter) = WithActionRequired(Recovered(c.status), c, view)
    BY <1>2, <1>4, <2>1, <2>2, ViewOfNames
  <2>4. GetStatus(c, filter) = WithActionRequired(e, c, view)
    BY <1>4, ViewOfNames
  <2>5. c.status = WithActionRequired(e, c, raw) /\ Fits(raw)
    BY RulesStatusFits DEF Cached, RawStatus
  <2>6. raw.status # StatusFailed => view = raw
    BY <1>4, RawControlHides DEF RawStatus
  <2> HIDE DEF view, raw, e
  <2>7. CASE raw.status # StatusFailed
    <3>1. WithActionRequired(Recovered(c.status), c, raw) = c.status
      BY <2>5, RecoveredActionAgrees
    <3>2. QED
      BY <2>3, <2>4, <2>5, <2>6, <2>7, <3>1 DEF d
  <2>8. CASE raw.status = StatusFailed
    <3>1. raw.sub \notin Special \union {SubStatusNotEvaluated}
      BY <2>5, <2>8, SpecialIsSkipped, StatusesDiffer
    <3>2. CASE e \in ReviewActions
      <4>1. c.status = Info(StatusSkipped, e)
        BY <2>5, <2>8, <3>2, ReviewStep
      <4>2. Recovered(c.status) = e
        BY <3>2, <4>1 DEF Recovered, Special, Info
      <4>3. QED
        BY <2>3, <2>4, <4>2 DEF d
    <3>3. CASE Blocked(e, c)
      <4>1. c.status = Info(StatusSkipped, SubStatusConfiguration)
        BY <2>5, <3>1, <3>3, ConfigurationStep
      <4>2. Recovered(c.status) = e
        BY <3>3, <4>1 DEF Recovered, Special, Info, Blocked
      <4>3. QED
        BY <2>3, <2>4, <4>2 DEF d
    <3>4. CASE e \notin ReviewActions /\ ~Blocked(e, c)
      <4>1. c.status = raw
        BY <2>5, <3>4, NoStep
      <4>2. Recovered(c.status) = SubStatusUnknown
        BY <3>1, <4>1 DEF Recovered
      <4>3. SubStatusUnknown \notin ReviewActions /\ ~Blocked(SubStatusUnknown, c)
        BY SubStatusesDiffer DEF ReviewActions, Blocked
      <4>4. QED
        BY <2>3, <2>4, <3>4, <4>2, <4>3, NoStep DEF d
    <3>5. QED
      BY <3>2, <3>3, <3>4
  <2>9. QED
    BY <2>7, <2>8
<1>5. QED
  BY <1>3, <1>4

(* The same for the whole resource.                                          *)
LEMMA ResultStatusIs ==
    ASSUME NEW cs, IsSequence(cs), NEW filter
    PROVE  ResultStatus(cs, filter).status
              = Overall({StatusUnknown} \union {GetStatus(cs[k], filter).status : k \in DOMAIN cs})
<1> DEFINE n == Len(cs)
           infos == [k \in DOMAIN cs |-> GetStatus(cs[k], filter)]
           E == {GetStatus(cs[k], filter) : k \in DOMAIN cs}
<1>1. n \in Nat /\ DOMAIN cs = 1 .. n
  BY DEF IsSequence
<1>2. infos \in [1 .. n -> E] /\ \A k \in DOMAIN cs : infos[k] = GetStatus(cs[k], filter)
  BY <1>1
<1>3. ResultStatus(cs, filter) = Compared(Info(StatusUnknown, SubStatusUnknown), infos)
  BY DEF ResultStatus
<1> HIDE DEF n, infos, E
<1>4. Compared(Info(StatusUnknown, SubStatusUnknown), infos).status
          = Overall({StatusUnknown} \union StatusesOf(infos, n))
  BY <1>1, <1>2, ComparedStatus
<1>5. StatusesOf(infos, n) = {GetStatus(cs[k], filter).status : k \in DOMAIN cs}
  BY <1>1, <1>2 DEF StatusesOf
<1>6. QED
  BY <1>3, <1>4, <1>5

(* s[k][f] is what framework f sees of control k, t[k] what all see of it.   *)
AreWorst(t, s, K, F) ==
    /\ t \in [K -> Tallied] /\ s \in [K -> [F -> Tallied]]
    /\ \A k \in K : t[k] = Verdict({s[k][f] : f \in F})

AreOverall(u, s, K, F) ==
    /\ u \in [F -> ScanningStatus]
    /\ \A f \in F : u[f] = Overall({StatusUnknown} \union {s[k][f] : k \in K})

Values(f, S) == {f[x] : x \in S}

LEMMA WorstOfWorst ==
    ASSUME NEW K, NEW F, F # {}, NEW t, NEW s, AreWorst(t, s, K, F),
           NEW u, AreOverall(u, s, K, F)
    PROVE  Class(Overall({StatusUnknown} \union Values(t, K))) = Verdict(Values(u, F))
<1> USE DEF AreWorst, AreOverall, Values
<1> DEFINE T == {StatusUnknown} \union {t[k] : k \in K}
           U == {u[f] : f \in F}
<1>1. \A f \in F : u[f] = StatusFailed <=> \E k \in K : s[k][f] = StatusFailed
  BY StatusesDiffer, StatusesDifferFromUnknown DEF Overall
<1>2. ASSUME NEW k \in K PROVE t[k] = StatusFailed <=> \E f \in F : s[k][f] = StatusFailed
  <2> DEFINE S == {s[k][f] : f \in F}
  <2>1. t[k] = Verdict(S) /\ (StatusFailed \in S <=> \E f \in F : s[k][f] = StatusFailed)
    OBVIOUS
  <2>2. StatusFailed # "other"
    BY Zenon DEF StatusFailed
  <2> HIDE DEF S
  <2>3. QED
    BY <2>1, <2>2, StatusesDiffer DEF Verdict
<1>3. StatusFailed \in T <=> StatusFailed \in U
  BY <1>1, <1>2, StatusesDifferFromUnknown
<1>4. CASE StatusFailed \in T
  BY <1>3, <1>4 DEF Overall, Verdict, Class
<1>5. CASE StatusFailed \notin T
  <2>1. \A k \in K : \A f \in F : s[k][f] # StatusFailed
    BY <1>2, <1>5
  <2>2. \A f \in F : u[f] = StatusSkipped <=> \E k \in K : s[k][f] = StatusSkipped
    BY <2>1, StatusesDiffer, StatusesDifferFromUnknown DEF Overall
  <2>3. ASSUME NEW k \in K PROVE t[k] = StatusSkipped <=> \E f \in F : s[k][f] = StatusSkipped
    <3> DEFINE S == {s[k][f] : f \in F}
    <3>1. /\ t[k] = Verdict(S) /\ StatusFailed \notin S
          /\ StatusSkipped \in S <=> \E f \in F : s[k][f] = StatusSkipped
      BY <2>1
    <3>2. StatusSkipped # "other"
      BY Zenon DEF StatusSkipped
    <3> HIDE DEF S
    <3>3. QED
      BY <3>1, <3>2, StatusesDiffer DEF Verdict
  <2>4. StatusSkipped \in T <=> StatusSkipped \in U
    BY <2>2, <2>3, StatusesDifferFromUnknown
  <2>5. CASE StatusSkipped \in T
    BY <1>3, <1>5, <2>4, <2>5 DEF Overall, Verdict, Class
  <2>6. CASE StatusSkipped \notin T
    <3>1. \A k \in K : \A f \in F : s[k][f] = StatusPassed
      BY <2>1, <2>3, <2>6 DEF Tallied
    <3>2. \A k \in K : t[k] = StatusPassed
      BY <1>5, <2>6 DEF Tallied
    <3>3. CASE K = {}
      <4>1. T = {StatusUnknown} /\ \A f \in F : u[f] = StatusUnknown
        BY <3>3, StatusesDifferFromUnknown DEF Overall
      <4>2. Overall(T) = StatusUnknown
        BY <4>1, StatusesDifferFromUnknown DEF Overall
      <4>3. U = {StatusUnknown}
        BY <4>1
      <4> HIDE DEF T, U
      <4>4. Class(Overall(T)) = "other" /\ Verdict(U) = "other"
        BY <4>2, <4>3, StatusesDifferFromUnknown DEF Verdict, Class
      <4>5. QED
        BY <4>4 DEF T, U
    <3>4. CASE K # {}
      <4> DEFINE S(f) == {StatusUnknown} \union {s[k][f] : k \in K}
      <4>0. \A f \in F : S(f) = {StatusUnknown, StatusPassed}
        BY <3>1, <3>4
      <4>1. StatusPassed \in T /\ \A f \in F : u[f] = StatusPassed
        <5>1. \A f \in F : u[f] = Overall({StatusUnknown, StatusPassed})
          BY <4>0
        <5>2. Overall({StatusUnknown, StatusPassed}) = StatusPassed
          BY StatusesDiffer, StatusesDifferFromUnknown DEF Overall
        <5>3. QED
          BY <3>2, <3>4, <5>1, <5>2
      <4>2. Overall(T) = StatusPassed
        BY <1>5, <2>6, <4>1, StatusesDifferFromUnknown DEF Overall
      <4>3. StatusPassed \in U
        BY <4>1
      <4> HIDE DEF T, U
      <4>4. Verdict(U) = StatusPassed
        BY <1>3, <1>5, <2>4, <2>6, <4>3 DEF Verdict
      <4>5. QED
        BY <4>2, <4>4 DEF Class, T, U
    <3>5. QED
      BY <3>3, <3>4
  <2>7. QED
    BY <2>5, <2>6
<1>6. QED
  BY <1>4, <1>5

LEMMA JointResultIsWorst ==
    ASSUME NEW cs, IsSequence(cs), \A k \in DOMAIN cs : IsControl(cs[k]),
           NEW filter \in Seq(Frameworks), filter # <<>>
    PROVE  Class(ResultStatus(cs, filter).status)
              = Verdict({ResultStatus(cs, <<f>>).status : f \in ToSet(filter)})
<1> DEFINE K == DOMAIN cs
           F == ToSet(filter)
           t == [k \in K |-> GetStatus(cs[k], filter).status]
           s == [k \in K |-> [f \in F |-> GetStatus(cs[k], <<f>>).status]]
           u == [f \in F |-> ResultStatus(cs, <<f>>).status]
<1>1. F # {} /\ \A f \in F : <<f>> \in Seq(Frameworks)
  <2>1. Len(filter) \in Nat \ {0} /\ 1 \in DOMAIN filter
    OBVIOUS
  <2>2. F \subseteq Frameworks
    BY DEF ToSet
  <2>3. filter[1] \in F
    BY <2>1 DEF ToSet
  <2>4. QED
    BY <2>2, <2>3
<1>2. t \in [K -> Tallied]
  BY ViewIsTallied
<1>3. s \in [K -> [F -> Tallied]]
  BY <1>1, ViewIsTallied
<1>4. ASSUME NEW k \in K PROVE t[k] = Verdict({s[k][f] : f \in F})
  <2>1. GetStatus(cs[k], filter).status = Verdict({GetStatus(cs[k], <<f>>).status : f \in F})
    BY JointViewIsWorst
  <2>2. {s[k][f] : f \in F} = {GetStatus(cs[k], <<f>>).status : f \in F}
    OBVIOUS
  <2>3. QED
    BY <2>1, <2>2
<1>5. \A f \in F : u[f] = Overall({StatusUnknown} \union {s[k][f] : k \in K})
  <2> SUFFICES ASSUME NEW f \in F
               PROVE  u[f] = Overall({StatusUnknown} \union {s[k][f] : k \in K})
    OBVIOUS
  <2>1. {s[k][f] : k \in K} = {GetStatus(cs[k], <<f>>).status : k \in K}
    OBVIOUS
  <2>2. u[f] = ResultStatus(cs, <<f>>).status
    OBVIOUS
  <2> HIDE DEF u, s
  <2>3. QED
    BY <2>1, <2>2, ResultStatusIs
<1>6. u \in [F -> ScanningStatus]
  <2>1. \A S : Overall(S) \in ScanningStatus
    BY DEF Overall, ScanningStatus
  <2>2. DOMAIN u = F /\ u = [f \in F |-> u[f]]
    OBVIOUS
  <2> HIDE DEF u, s
  <2>3. \A f \in F : u[f] \in ScanningStatus
    BY <1>5, <2>1
  <2>4. QED
    BY <2>2, <2>3
<1>7. ResultStatus(cs, filter).status = Overall({StatusUnknown} \union {t[k] : k \in K})
  <2>1. {t[k] : k \in K} = {GetStatus(cs[k], filter).status : k \in K}
    OBVIOUS
  <2> HIDE DEF t
  <2>2. QED
    BY <2>1, ResultStatusIs
<1>8. {u[f] : f \in F} = {ResultStatus(cs, <<f>>).status : f \in F}
  OBVIOUS
<1> HIDE DEF t, s, u, K, F
<1>9. Class(Overall({StatusUnknown} \union Values(t, K))) = Verdict(Values(u, F))
  <2>1. AreWorst(t, s, K, F) /\ AreOverall(u, s, K, F)
    BY <1>2, <1>3, <1>4, <1>5, <1>6 DEF AreWorst, AreOverall
  <2>2. QED
    BY <1>1, <2>1, WorstOfWorst
<1>10. QED
  BY <1>7, <1>8, <1>9 DEF F, Values
-----------------------------------------------------------------------------
(* What SetExceptions attaches to a failed rule.                             *)
Attached(policies, id, name) ==
    GetResourceExceptions(ListRuleExceptions(ListRuleExceptions(policies, Unset, id, Unset),
                                             Unset, Unset, name),
                          Resource)

ArePolicies(X) == \A e \in X : IsPolicy(e)

ByControl(id) == Match(FALSE, {}, id, Unset)
ByRule(name) == Match(FALSE, {}, Unset, name)
ByFramework(fs, id, name) == Match(TRUE, fs, id, name)

LEMMA UnfilteredFramework ==
    ASSUME NEW X, NEW id, NEW name
    PROVE  /\ ListRuleExceptions(X, Unset, id, Unset) = filterPostureExceptions(X, ByControl(id))
           /\ ListRuleExceptions(X, Unset, Unset, name) = filterPostureExceptions(X, ByRule(name))
<1>1. {Unset} \ {Unset} = {}
  OBVIOUS
<1>2. (Unset # Unset) = FALSE
  OBVIOUS
<1>3. QED
  BY <1>1, <1>2 DEF ListRuleExceptions, ByControl, ByRule

LEMMA FilteredPolicies ==
    ASSUME NEW X, ArePolicies(X), NEW match
    PROVE  ArePolicies(filterPostureExceptions(X, match))
BY FilteredOrigin DEF ArePolicies, IsCopy

LEMMA AttachedPolicies ==
    ASSUME NEW X, ArePolicies(X), NEW id, NEW name
    PROVE  /\ ArePolicies(GetResourceExceptions(ListRuleExceptions(X, Unset, Unset, name), Resource))
           /\ ArePolicies(ListRuleExceptions(X, Unset, id, Unset))
<1>1. /\ ArePolicies(ListRuleExceptions(X, Unset, id, Unset))
      /\ ArePolicies(ListRuleExceptions(X, Unset, Unset, name))
  BY FilteredPolicies, UnfilteredFramework
<1>2. QED
  BY <1>1 DEF ArePolicies, GetResourceExceptions

(* x stands for the policy e: it has the tuples that match the control and   *)
(* the rule, and some of them unless e had none.                             *)
KeptForRule(e, id, name) ==
    {t \in e.tuples : posturePolicyMatches(t, ByControl(id)) /\ posturePolicyMatches(t, ByRule(name))}

StandsFor(x, e, id, name) ==
    /\ IsPolicy(x) /\ x.id = e.id /\ x.alertOnly = e.alertOnly /\ Resource \in e.resources
    /\ x.tuples = KeptForRule(e, id, name)
    /\ e.tuples = {} \/ x.tuples # {}

LEMMA AttachedOrigin ==
    ASSUME NEW policies, ArePolicies(policies), NEW id, NEW name,
           NEW x \in Attached(policies, id, name)
    PROVE  \E e \in policies : StandsFor(x, e, id, name)
<1> DEFINE X == ListRuleExceptions(policies, Unset, id, Unset)
           m1 == ByControl(id)
           m2 == ByRule(name)
<1>1. Resource \in x.resources /\ x \in ListRuleExceptions(X, Unset, Unset, name)
  BY DEF Attached, GetResourceExceptions
<1>2. ArePolicies(X)
  BY AttachedPolicies
<1>3. PICK y \in X : (y.tuples = {} \/ Kept(y, m2) # {}) /\ IsCopy(x, y, m2)
  <2>1. x \in filterPostureExceptions(X, m2)
    BY <1>1, UnfilteredFramework
  <2> HIDE DEF X, m2
  <2>2. \A e \in X : IsPolicy(e)
    BY <1>2 DEF ArePolicies
  <2>3. QED
    BY <2>1, <2>2, FilteredOrigin
<1>4. PICK e \in policies : (e.tuples = {} \/ Kept(e, m1) # {}) /\ IsCopy(y, e, m1)
  <2>1. y \in filterPostureExceptions(policies, m1)
    BY <1>3, UnfilteredFramework
  <2> HIDE DEF X, m1
  <2>2. \A p \in policies : IsPolicy(p)
    BY DEF ArePolicies
  <2>3. QED
    BY <2>1, <2>2, FilteredOrigin
<1> HIDE DEF X, m1, m2
<1>5. y.tuples = Kept(e, m1) /\ x.tuples = Kept(y, m2)
  BY <1>3, <1>4 DEF IsCopy
<1>6. x.tuples = KeptForRule(e, id, name)
  BY <1>5 DEF Kept, KeptForRule, m1, m2
<1>7. e.tuples = {} \/ x.tuples # {}
  BY <1>3, <1>4, <1>5 DEF IsCopy
<1>8. QED
  BY <1>1, <1>3, <1>4, <1>6, <1>7 DEF IsCopy, StandsFor

LEMMA AttachedMember ==
    ASSUME NEW policies, ArePolicies(policies), NEW id, NEW name,
           NEW e \in policies, Resource \in e.resources,
           e.tuples = {} \/ KeptForRule(e, id, name) # {}
    PROVE  \E x \in Attached(policies, id, name) : StandsFor(x, e, id, name)
<1> DEFINE X == ListRuleExceptions(policies, Unset, id, Unset)
           m1 == ByControl(id)
           m2 == ByRule(name)
<1>1. e.tuples = {} \/ Kept(e, m1) # {}
  BY DEF KeptForRule, Kept
<1>2. PICK y \in X : IsCopy(y, e, m1)
  <2>1. \A p \in policies : IsPolicy(p)
    BY DEF ArePolicies
  <2>2. PICK y \in filterPostureExceptions(policies, m1) : IsCopy(y, e, m1)
    BY <1>1, <2>1, FilteredMember
  <2>3. QED
    BY <2>2, UnfilteredFramework
<1>3. y.tuples = Kept(e, m1) /\ Kept(y, m2) = KeptForRule(e, id, name)
  BY <1>2 DEF IsCopy, Kept, KeptForRule
<1>4. y.tuples = {} \/ Kept(y, m2) # {}
  BY <1>3 DEF Kept
<1>5. PICK x \in filterPostureExceptions(X, m2) : IsCopy(x, y, m2)
  <2>1. \A p \in X : IsPolicy(p)
    BY AttachedPolicies DEF ArePolicies
  <2> HIDE DEF X, m2
  <2>2. QED
    BY <1>2, <1>4, <2>1, FilteredMember
<1>6. x \in Attached(policies, id, name)
  <2>1. x \in ListRuleExceptions(X, Unset, Unset, name)
    BY <1>5, UnfilteredFramework
  <2>2. Resource \in x.resources
    BY <1>2, <1>5 DEF IsCopy
  <2>3. QED
    BY <2>1, <2>2 DEF Attached, GetResourceExceptions
<1>7. StandsFor(x, e, id, name)
  <2> HIDE DEF m1, m2, X
  <2>1. x.tuples = KeptForRule(e, id, name)
    BY <1>3, <1>5 DEF IsCopy
  <2>2. QED
    BY <1>2, <1>5, <2>1 DEF IsCopy, StandsFor
<1>8. QED
  BY <1>6, <1>7

(* Seen by one framework, or by none, those exceptions are the declared ones. *)
FrameworkSet(f) == IF f = Unset THEN {} ELSE {f}

LEMMA CoveringTuple ==
    ASSUME NEW t, NEW f, NEW id, id # Unset, NEW name, name # Unset
    PROVE  Covers(t, f, id, name) <=>
              /\ posturePolicyMatches(t, ByControl(id)) /\ posturePolicyMatches(t, ByRule(name))
              /\ posturePolicyMatches(t, ByFramework(FrameworkSet(f), id, name))
BY DEF Covers, posturePolicyMatches, ByControl, ByRule, ByFramework, Match, FrameworkSet

LEMMA SeenIsDeclared ==
    ASSUME NEW policies, ArePolicies(policies), NEW f, NEW id, id # Unset,
           NEW name, name # Unset
    PROVE  LET seen == filterPostureExceptions(Attached(policies, id, name),
                                               ByFramework(FrameworkSet(f), id, name))
               declared == Declared(policies, f, id, name)
           IN  /\ \A d \in seen : \E e \in declared : d.alertOnly = e.alertOnly
               /\ \A e \in declared : \E d \in seen : d.alertOnly = e.alertOnly
<1> DEFINE X == Attached(policies, id, name)
           m == ByFramework(FrameworkSet(f), id, name)
           seen == filterPostureExceptions(X, m)
           declared == Declared(policies, f, id, name)
<1>1. \A x \in X : IsPolicy(x)
  BY AttachedOrigin DEF StandsFor
<1>2. ASSUME NEW d \in seen PROVE \E e \in declared : d.alertOnly = e.alertOnly
  <2>1. PICK x \in X : (x.tuples = {} \/ Kept(x, m) # {}) /\ IsCopy(d, x, m)
    <3> HIDE DEF X, m
    <3>1. QED
      BY <1>1, FilteredOrigin
  <2>2. PICK e \in policies : StandsFor(x, e, id, name)
    BY <2>1, AttachedOrigin
  <2>3. e.tuples = {} \/ \E t \in e.tuples : Covers(t, f, id, name)
    <3>1. CASE e.tuples # {}
      <4>1. PICK t \in Kept(x, m) : TRUE
        BY <2>1, <2>2, <3>1 DEF StandsFor
      <4>2. t \in KeptForRule(e, id, name) /\ posturePolicyMatches(t, m)
        BY <2>2, <4>1 DEF StandsFor, Kept
      <4>3. QED
        BY <4>2, CoveringTuple DEF KeptForRule
    <3>2. QED
      BY <3>1
  <2>4. e \in declared
    BY <2>2, <2>3 DEF Declared, StandsFor
  <2>5. QED
    BY <2>1, <2>2, <2>4 DEF IsCopy, StandsFor
<1>3. ASSUME NEW e \in declared PROVE \E d \in seen : d.alertOnly = e.alertOnly
  <2>1. /\ e \in policies /\ Resource \in e.resources
        /\ e.tuples = {} \/ \E t \in e.tuples : Covers(t, f, id, name)
    BY DEF Declared
  <2>2. e.tuples = {} \/ \E t \in KeptForRule(e, id, name) : posturePolicyMatches(t, m)
    BY <2>1, CoveringTuple DEF KeptForRule
  <2>3. PICK x \in X : StandsFor(x, e, id, name)
    BY <2>1, <2>2, AttachedMember
  <2>4. x.tuples = {} \/ Kept(x, m) # {}
    BY <2>2, <2>3 DEF StandsFor, Kept, KeptForRule
  <2>5. PICK d \in seen : IsCopy(d, x, m)
    <3> HIDE DEF X, m
    <3>1. QED
      BY <1>1, <2>3, <2>4, FilteredMember
  <2>6. QED
    BY <2>3, <2>5 DEF IsCopy, StandsFor
<1>4. QED
  BY <1>2, <1>3

LEMMA DeclaredView ==
    ASSUME NEW rule, NEW policies, ArePolicies(policies), NEW f, NEW id, id # Unset,
           rule.name # Unset, rule.exceptions = Attached(policies, id, rule.name)
    PROVE  RuleView(rule, FrameworkSet(f), id)
              = statusWithExceptions(rule, Declared(policies, f, id, rule.name))
<1> DEFINE seen == filterPostureExceptions(Attached(policies, id, rule.name),
                                           ByFramework(FrameworkSet(f), id, rule.name))
           declared == Declared(policies, f, id, rule.name)
<1>1. RuleView(rule, FrameworkSet(f), id) = statusWithExceptions(rule, seen)
  BY DEF RuleView, FilterExceptionsByFrameworks, ByFramework
<1>2. /\ \A d \in seen : \E e \in declared : d.alertOnly = e.alertOnly
      /\ \A e \in declared : \E d \in seen : d.alertOnly = e.alertOnly
  BY SeenIsDeclared
<1> HIDE DEF seen, declared
<1>3. (seen = {} <=> declared = {}) /\ (allExceptionsAlertOnly(seen) <=> allExceptionsAlertOnly(declared))
  BY <1>2 DEF allExceptionsAlertOnly
<1>4. statusWithExceptions(rule, seen) = statusWithExceptions(rule, declared)
  BY <1>3 DEF statusWithExceptions
<1>5. QED
  BY <1>1, <1>4 DEF declared
-----------------------------------------------------------------------------
(* SetExceptions on a control.                                               *)
LEMMA AttachingKeepsRules ==
    ASSUME NEW rule, IsRule(rule), NEW own, ArePolicies(own)
    PROVE  LET new == RuleWithExceptions(rule, own)
               found == GetResourceExceptions(ListRuleExceptions(own, Unset, Unset, rule.name), Resource)
           IN  /\ IsRule(new)
               /\ new.name = rule.name /\ new.status = rule.status /\ new.sub = rule.sub
               /\ new.config = rule.config
               /\ IF ruleStatus(rule, <<>>, Unset).status # StatusFailed
                  THEN new = rule ELSE new = [rule EXCEPT !.exceptions = found]
               /\ ruleStatus(rule, <<>>, Unset).status = StatusFailed => new.exceptions = found
               /\ RuleWithExceptions(new, own) = new
<1> DEFINE new == RuleWithExceptions(rule, own)
           found == GetResourceExceptions(ListRuleExceptions(own, Unset, Unset, rule.name), Resource)
<1>1. CASE ruleStatus(rule, <<>>, Unset).status # StatusFailed
  BY <1>1 DEF RuleWithExceptions
<1>2. CASE ruleStatus(rule, <<>>, Unset).status = StatusFailed
  <2>1. new = [rule EXCEPT !.exceptions = found]
    BY <1>2 DEF RuleWithExceptions
  <2>2. ArePolicies(found)
    BY AttachedPolicies
  <2> HIDE DEF new, found
  <2>3. /\ new.name = rule.name /\ new.status = rule.status /\ new.sub = rule.sub
        /\ new.config = rule.config /\ DOMAIN new = DOMAIN rule
    BY <2>1 DEF IsRule
  <2>4. new.exceptions = found
    BY <2>1 DEF IsRule
  <2>5. IsRule(new)
    BY <2>2, <2>3, <2>4 DEF IsRule, ArePolicies
  <2>6. [new EXCEPT !.exceptions = found] = new
    BY <2>1
  <2>7. RuleWithExceptions(new, own) = new
    BY <2>3, <2>6 DEF RuleWithExceptions, found
  <2>8. QED
    BY <1>2, <2>1, <2>3, <2>4, <2>5, <2>7 DEF new, found
<1>3. QED
  BY <1>1, <1>2

AttachedRules(c, policies) ==
    [k \in DOMAIN c.rules |-> RuleWithExceptions(c.rules[k], ListRuleExceptions(policies, Unset, c.id, Unset))]

Passes(c) == GetStatus(c, NoFilter).status = StatusPassed

LEMMA ExceptionsCache ==
    ASSUME NEW c, IsControl(c), Cached(c), NEW policies, ArePolicies(policies),
           NEW action \in ScanningSubStatus
    PROVE  LET d == ControlWithExceptions(c, policies, action) IN
           /\ IsControl(d) /\ Cached(d) /\ d.id = c.id
           /\ Passes(c) => d = c
           /\ ~Passes(c) => d.rules = AttachedRules(c, policies)
<1> DEFINE own == ListRuleExceptions(policies, Unset, c.id, Unset)
           b == [c EXCEPT !.rules = AttachedRules(c, policies)]
           d == ControlWithExceptions(c, policies, action)
<1>1. CASE Passes(c)
  BY <1>1 DEF Passes, ControlWithExceptions
<1>2. CASE ~Passes(c)
  <2>1. d = WithStatus(b, action)
    BY <1>2 DEF Passes, ControlWithExceptions, AttachedRules
  <2>2. /\ b.rules = AttachedRules(c, policies) /\ b.id = c.id /\ b.status = c.status
        /\ b.actionRequired = c.actionRequired /\ DOMAIN b = DOMAIN c
    BY DEF IsControl
  <2> HIDE DEF b, d
  <2>3. IsSequence(b.rules)
    <3>1. DOMAIN c.rules = 1 .. Len(c.rules) /\ Len(c.rules) \in Nat
      BY DEF IsControl, IsSequence
    <3> DEFINE n == Len(c.rules)
               s == [k \in 1 .. n |-> RuleWithExceptions(c.rules[k], own)]
    <3>2. b.rules = s /\ n \in Nat
      BY <2>2, <3>1 DEF AttachedRules
    <3> HIDE DEF n
    <3>3. DOMAIN s = 1 .. n /\ Len(s) = n
      BY <3>2
    <3>4. QED
      BY <3>2, <3>3 DEF IsSequence
  <2>4. ASSUME NEW j \in DOMAIN b.rules PROVE IsRule(b.rules[j])
    <3>1. IsRule(c.rules[j]) /\ b.rules[j] = RuleWithExceptions(c.rules[j], own)
      BY <2>2 DEF AttachedRules, IsControl
    <3>2. ArePolicies(own)
      BY AttachedPolicies
    <3>3. QED
      BY <3>1, <3>2, AttachingKeepsRules
  <2>5. IsControl(b)
    BY <2>2, <2>3, <2>4 DEF IsControl
  <2>6. QED
    BY <1>2, <2>1, <2>2, <2>5, SetStatusCaches DEF d
<1>3. QED
  BY <1>1, <1>2

(* A second time changes nothing.                                            *)
LEMMA ExceptionsOnce ==
    ASSUME NEW c, IsControl(c), Cached(c), NEW policies, ArePolicies(policies),
           NEW action \in ScanningSubStatus
    PROVE  LET once == ControlWithExceptions(c, policies, action) IN
           ControlWithExceptions(once, policies, action) = once
<1> DEFINE own == ListRuleExceptions(policies, Unset, c.id, Unset)
           b == [c EXCEPT !.rules = AttachedRules(c, policies)]
           d == ControlWithExceptions(c, policies, action)
<1>1. CASE Passes(c)
  BY <1>1 DEF Passes, ControlWithExceptions
<1>2. CASE ~Passes(c) /\ Passes(d)
  BY <1>2 DEF Passes, ControlWithExceptions
<1>3. CASE ~Passes(c) /\ ~Passes(d)
  <2>1. d.id = c.id /\ d.rules = AttachedRules(c, policies)
    BY <1>3, ExceptionsCache
  <2>2. d = [b EXCEPT !.actionRequired = action,
                      !.status = WithActionRequired(action, b, rulesStatus(b, <<>>))]
    BY <1>3 DEF Passes, ControlWithExceptions, AttachedRules, WithStatus
  <2>3. /\ DOMAIN b = {"id", "rules", "actionRequired", "status"}
        /\ b.rules = AttachedRules(c, policies) /\ b.id = c.id
    BY DEF IsControl
  <2>4. ControlWithExceptions(d, policies, action)
            = WithStatus([d EXCEPT !.rules = AttachedRules(d, policies)], action)
    BY <1>3 DEF Passes, ControlWithExceptions, AttachedRules
  <2>5. AttachedRules(d, policies) = d.rules
    <3>1. ASSUME NEW k \in DOMAIN c.rules
          PROVE  RuleWithExceptions(RuleWithExceptions(c.rules[k], own), own)
                    = RuleWithExceptions(c.rules[k], own)
      <4>1. IsRule(c.rules[k]) /\ ArePolicies(own)
        BY AttachedPolicies DEF IsControl
      <4>2. QED
        BY <4>1, AttachingKeepsRules
    <3>2. QED
      BY <2>1, <3>1 DEF AttachedRules
  <2> HIDE DEF b, d
  <2> DEFINE v == WithActionRequired(action, b, rulesStatus(b, <<>>))
  <2>6. d = [b EXCEPT !.actionRequired = action, !.status = v]
    BY <2>2
  <2>7. WithActionRequired(action, d, rulesStatus(d, <<>>)) = v
    BY <2>1, <2>3 DEF WithActionRequired, rulesStatus, controlMissingAllConfigurations
  <2> HIDE DEF v
  <2>8. [d EXCEPT !.rules = d.rules] = d
    BY <2>6
  <2>9. WithStatus(d, action) = [d EXCEPT !.actionRequired = action, !.status = v]
    BY <2>7 DEF WithStatus
  <2>10. d.actionRequired = action /\ d.status = v
    BY <2>3, <2>6
  <2>11. [d EXCEPT !.actionRequired = action, !.status = v] = d
    BY <2>6, <2>10
  <2>12. QED
    BY <2>4, <2>5, <2>8, <2>9, <2>11 DEF d
<1>4. QED
  BY <1>1, <1>2, <1>3

-----------------------------------------------------------------------------
(* A rule carries the exceptions of one of the lists that were applied.      *)
RuleAsApplied(rule, id, lists) ==
    /\ rule.status # StatusFailed \/ lists = {} => rule.exceptions = {}
    /\ rule.status = StatusFailed /\ lists # {} =>
          \E policies \in lists : rule.exceptions = Attached(policies, id, rule.name)

AsApplied(c, lists) == \A k \in DOMAIN c.rules : RuleAsApplied(c.rules[k], c.id, lists)

(* Without exceptions a failure shows, and so the control does not pass.     *)
LEMMA PassingHasNoFailure ==
    ASSUME NEW c, IsControl(c), Cached(c), AsApplied(c, {}), Passes(c)
    PROVE  \A k \in DOMAIN c.rules : c.rules[k].status # StatusFailed
<1> SUFFICES ASSUME NEW k \in DOMAIN c.rules, c.rules[k].status = StatusFailed PROVE FALSE
  OBVIOUS
<1> DEFINE rule == c.rules[k]
           raw == RawStatus(c)
<1>1. rule.exceptions = {}
  BY DEF AsApplied, RuleAsApplied
<1>2. RuleView(rule, {}, c.id) = Info(rule.status, rule.sub)
  BY <1>1 DEF RuleView, FilterExceptionsByFrameworks, filterPostureExceptions, statusWithExceptions
<1>3. ruleStatus(rule, <<>>, c.id).status = StatusFailed
  BY <1>2 DEF ruleStatus, Info
<1>4. raw.status = StatusFailed
  BY <1>3, FailsByARule DEF RawStatus
<1>5. \A action : WithActionRequired(action, c, raw).status \in {StatusFailed, StatusSkipped}
  BY <1>4 DEF WithActionRequired, Info
<1>6. ListFrameworkNames(NoFilter) = <<>>
  BY DEF ListFrameworkNames
<1>7. GetStatus(c, NoFilter).status \in {StatusFailed, StatusSkipped}
  BY <1>4, <1>5, <1>6 DEF GetStatus, Cached, RawStatus
<1>8. QED
  BY <1>7, StatusesDiffer DEF Passes

LEMMA ExceptionsAreApplied ==
    ASSUME NEW c, IsControl(c), Cached(c), NEW lists, AsApplied(c, lists),
           NEW policies, ArePolicies(policies), NEW action \in ScanningSubStatus
    PROVE  AsApplied(ControlWithExceptions(c, policies, action), lists \union {policies})
<1> DEFINE own == ListRuleExceptions(policies, Unset, c.id, Unset)
           d == ControlWithExceptions(c, policies, action)
           after == lists \union {policies}
<1>1. d.id = c.id /\ (Passes(c) => d = c) /\ (~Passes(c) => d.rules = AttachedRules(c, policies))
  BY ExceptionsCache
<1> HIDE DEF d
<1>2. ASSUME NEW rule, RuleAsApplied(rule, c.id, lists), rule.status # StatusFailed \/ lists # {}
      PROVE  RuleAsApplied(rule, c.id, after)
  BY <1>2 DEF RuleAsApplied
<1>3. CASE Passes(c)
  <2>1. \A k \in DOMAIN c.rules : c.rules[k].status # StatusFailed \/ lists # {}
    BY <1>3, PassingHasNoFailure
  <2>2. QED
    BY <1>1, <1>2, <1>3, <2>1 DEF AsApplied, d
<1>4. CASE ~Passes(c)
  <2>1. ASSUME NEW k \in DOMAIN d.rules PROVE RuleAsApplied(d.rules[k], d.id, after)
    <3> DEFINE rule == c.rules[k]
               new == RuleWithExceptions(rule, own)
    <3>1. k \in DOMAIN c.rules /\ d.rules[k] = new /\ IsRule(rule) /\ ArePolicies(own)
      BY <1>1, <1>4, AttachedPolicies DEF AttachedRules, IsControl
    <3>2. RuleAsApplied(rule, c.id, lists)
      BY <3>1 DEF AsApplied
    <3>3. /\ new.name = rule.name /\ new.status = rule.status
          /\ ruleStatus(rule, <<>>, Unset).status # StatusFailed => new = rule
          /\ ruleStatus(rule, <<>>, Unset).status = StatusFailed =>
                new.exceptions = Attached(policies, c.id, rule.name)
      BY <3>1, AttachingKeepsRules DEF Attached
    <3> HIDE DEF rule, new, own
    <3>4. CASE ruleStatus(rule, <<>>, Unset).status # StatusFailed
      <4>1. rule.status # StatusFailed \/ lists # {}
        <5> SUFFICES ASSUME rule.status = StatusFailed, lists = {} PROVE FALSE
          OBVIOUS
        <5>1. rule.exceptions = {}
          BY <3>2 DEF RuleAsApplied
        <5>2. ruleStatus(rule, <<>>, Unset) = Info(rule.status, rule.sub)
          BY <5>1 DEF ruleStatus, RuleView, FilterExceptionsByFrameworks,
                      filterPostureExceptions, statusWithExceptions
        <5>3. QED
          BY <3>4, <5>2 DEF Info
      <4>2. QED
        BY <1>1, <1>2, <3>1, <3>2, <3>3, <3>4, <4>1
    <3>5. CASE ruleStatus(rule, <<>>, Unset).status = StatusFailed
      <4>1. rule.status = StatusFailed
        BY <3>5 DEF ruleStatus, Info
      <4>2. QED
        BY <1>1, <3>1, <3>3, <3>5, <4>1 DEF RuleAsApplied
    <3>6. QED
      BY <3>4, <3>5
  <2>2. QED
    BY <2>1 DEF AsApplied, d
<1>5. QED
  BY <1>3, <1>4
-----------------------------------------------------------------------------
(* The inductive invariant: the rules carry the exceptions of a list that    *)
(* was applied, and the cached status of a control is the one its rules show. *)
ControlInv(c, lists) == IsControl(c) /\ Cached(c) /\ AsApplied(c, lists)

Inv ==
    /\ IsSequence(controls)
    /\ \A k \in DOMAIN controls : ControlInv(controls[k], ToSet(applied))
    /\ attribute \in [ControlIDs(controls) -> Attributes]
    /\ applied \in Seq(PolicyLists) /\ Len(applied) <= MaxCalls

LEMMA ListsArePolicies == ASSUME NEW X \in PolicyLists PROVE ArePolicies(X)
BY PoliciesAssumption DEF ArePolicies, IsPolicy

LEMMA EvaluatedControl ==
    ASSUME NEW cs \in Results, NEW k \in DOMAIN cs PROVE ControlInv(cs[k], {})
<1> DEFINE c == cs[k]
<1>1. /\ DOMAIN c = {"id", "rules", "actionRequired", "status"}
      /\ c.id # Unset
      /\ c.actionRequired = SubStatusUnknown
      /\ c.status = Info(StatusUnknown, SubStatusUnknown)
      /\ IsSequence(c.rules)
      /\ \A j \in DOMAIN c.rules : Evaluated(c.rules[j])
  BY ResultsAssumption
<1> HIDE DEF c
<1>2. \A j \in DOMAIN c.rules : IsRule(c.rules[j]) /\ RuleAsApplied(c.rules[j], c.id, {})
  BY <1>1 DEF Evaluated, IsRule, RuleAsApplied
<1>3. c.status \in StatusInfo /\ c.actionRequired \in ScanningSubStatus /\ c.status.status = StatusUnknown
  BY <1>1 DEF Info, StatusInfo, ScanningStatus, ScanningSubStatus
<1>4. ControlInv(c, {})
  BY <1>1, <1>2, <1>3 DEF ControlInv, IsControl, Cached, isOldControl, AsApplied
<1>5. QED
  BY <1>4 DEF c

LEMMA InitInv == Init => Inv
<1> SUFFICES ASSUME Init PROVE Inv
  OBVIOUS
<1>1. controls \in Results /\ applied = <<>> /\ ToSet(applied) = {}
  BY MembersOfNone DEF Init
<1>2. \A k \in DOMAIN controls : ControlInv(controls[k], ToSet(applied))
  BY <1>1, EvaluatedControl
<1>3. applied \in Seq(PolicyLists) /\ Len(applied) <= MaxCalls
  BY <1>1, MaxCallsAssumption
<1>4. QED
  BY <1>1, <1>2, <1>3, ResultsAssumption DEF Inv, Init

(* The controls keep their places and their ids.                             *)
LEMMA SamePlaces ==
    ASSUME NEW cs, IsSequence(cs), NEW ds, NEW g, ds = [k \in DOMAIN cs |-> g[k]],
           \A k \in DOMAIN cs : ds[k].id = cs[k].id
    PROVE  IsSequence(ds) /\ DOMAIN ds = DOMAIN cs /\ ControlIDs(ds) = ControlIDs(cs)
<1> DEFINE n == Len(cs)
           s == [k \in 1 .. n |-> g[k]]
<1>1. DOMAIN cs = 1 .. n /\ n \in Nat
  BY DEF IsSequence
<1>2. ds = s
  BY <1>1
<1> HIDE DEF n
<1>3. DOMAIN s = 1 .. n /\ Len(s) = n
  BY <1>1
<1>4. IsSequence(ds)
  BY <1>1, <1>2, <1>3 DEF IsSequence
<1>5. QED
  BY <1>1, <1>2, <1>3, <1>4 DEF ControlIDs

LEMMA AttributeOf ==
    ASSUME Inv, NEW k \in DOMAIN controls PROVE attribute[controls[k].id] \in ScanningSubStatus
BY AttributesAssumption DEF Inv, ControlIDs

LEMMA SetStatusInv == ASSUME Inv, NEW k \in DOMAIN controls, SetStatus(k) PROVE Inv'
<1> DEFINE g == [j \in DOMAIN controls |->
                    IF j = k THEN WithStatus(controls[k], attribute[controls[k].id]) ELSE controls[j]]
<1>1. controls' = [j \in DOMAIN controls |-> g[j]] /\ UNCHANGED <<attribute, applied>>
  BY DEF SetStatus
<1>2. ASSUME NEW j \in DOMAIN controls
      PROVE  controls'[j].id = controls[j].id /\ ControlInv(controls'[j], ToSet(applied))
  <2>1. ControlInv(controls[j], ToSet(applied)) /\ controls'[j] = g[j]
    BY <1>1, <1>2 DEF Inv
  <2>2. CASE j # k
    BY <2>1, <2>2
  <2>3. CASE j = k
    <3> DEFINE c == controls[k]
               d == WithStatus(c, attribute[c.id])
    <3>1. controls'[j] = d /\ IsControl(c) /\ AsApplied(c, ToSet(applied))
          /\ attribute[c.id] \in ScanningSubStatus
      BY <2>1, <2>3, AttributeOf DEF ControlInv
    <3> HIDE DEF c
    <3>2. IsControl(d) /\ Cached(d) /\ d.id = c.id /\ d.rules = c.rules
      BY <3>1, SetStatusCaches
    <3> HIDE DEF d
    <3>3. AsApplied(d, ToSet(applied))
      BY <3>1, <3>2 DEF AsApplied
    <3>4. QED
      BY <2>3, <3>1, <3>2, <3>3 DEF ControlInv, c
  <2>4. QED
    BY <2>2, <2>3
<1> HIDE DEF g
<1>3. IsSequence(controls') /\ DOMAIN controls' = DOMAIN controls
      /\ ControlIDs(controls') = ControlIDs(controls)
  BY <1>1, <1>2, SamePlaces DEF Inv
<1>4. QED
  BY <1>1, <1>2, <1>3 DEF Inv

LEMMA ReloadInv == ASSUME Inv, Reload PROVE Inv'
<1> DEFINE g == [j \in DOMAIN controls |-> Reloaded(controls[j])]
<1>1. controls' = [j \in DOMAIN controls |-> g[j]] /\ UNCHANGED <<attribute, applied>>
  BY DEF Reload
<1>2. ASSUME NEW j \in DOMAIN controls
      PROVE  controls'[j].id = controls[j].id /\ ControlInv(controls'[j], ToSet(applied))
  <2> DEFINE c == controls[j]
             d == Reloaded(c)
  <2>1. controls'[j] = d /\ IsControl(c) /\ Cached(c) /\ AsApplied(c, ToSet(applied))
    BY <1>1 DEF Inv, ControlInv
  <2> HIDE DEF c
  <2>2. IsControl(d) /\ Cached(d) /\ d.id = c.id /\ d.rules = c.rules
    BY <2>1, ReloadCaches
  <2> HIDE DEF d
  <2>3. AsApplied(d, ToSet(applied))
    BY <2>1, <2>2 DEF AsApplied
  <2>4. QED
    BY <2>1, <2>2, <2>3 DEF ControlInv, c
<1> HIDE DEF g
<1>3. IsSequence(controls') /\ DOMAIN controls' = DOMAIN controls
      /\ ControlIDs(controls') = ControlIDs(controls)
  BY <1>1, <1>2, SamePlaces DEF Inv
<1>4. QED
  BY <1>1, <1>2, <1>3 DEF Inv

LEMMA SetExceptionsInv ==
    ASSUME Inv, NEW policies \in PolicyLists, SetExceptions(policies) PROVE Inv'
<1> DEFINE g == [j \in DOMAIN controls |->
                    ControlWithExceptions(controls[j], policies, attribute[controls[j].id])]
<1>1. /\ controls' = [j \in DOMAIN controls |-> g[j]]
      /\ applied' = Append(applied, policies) /\ Len(applied) < MaxCalls
      /\ UNCHANGED attribute
  BY DEF SetExceptions, ResultWithExceptions
<1>2. /\ applied' \in Seq(PolicyLists) /\ Len(applied') <= MaxCalls
      /\ ToSet(applied') = ToSet(applied) \union {policies}
  <2>1. applied \in Seq(PolicyLists)
    BY DEF Inv
  <2>2. ToSet(Append(applied, policies)) = ToSet(applied) \union {policies}
    BY <2>1, MembersOfAppend
  <2>3. QED
    BY <1>1, <2>1, <2>2, MaxCallsAssumption
<1>3. ASSUME NEW j \in DOMAIN controls
      PROVE  controls'[j].id = controls[j].id /\ ControlInv(controls'[j], ToSet(applied'))
  <2> DEFINE c == controls[j]
             action == attribute[c.id]
             d == ControlWithExceptions(c, policies, action)
  <2>1. /\ controls'[j] = d /\ IsControl(c) /\ Cached(c) /\ AsApplied(c, ToSet(applied))
        /\ action \in ScanningSubStatus /\ ArePolicies(policies)
    BY <1>1, AttributeOf, ListsArePolicies DEF Inv, ControlInv
  <2> HIDE DEF c, action
  <2>2. IsControl(d) /\ Cached(d) /\ d.id = c.id
    BY <2>1, ExceptionsCache
  <2>3. AsApplied(d, ToSet(applied) \union {policies})
    BY <2>1, ExceptionsAreApplied
  <2> HIDE DEF d
  <2>4. QED
    BY <1>2, <2>1, <2>2, <2>3 DEF ControlInv, c
<1> HIDE DEF g
<1>4. IsSequence(controls') /\ DOMAIN controls' = DOMAIN controls
      /\ ControlIDs(controls') = ControlIDs(controls)
  BY <1>1, <1>3, SamePlaces DEF Inv
<1>5. QED
  BY <1>1, <1>2, <1>3, <1>4 DEF Inv

LEMMA Invariance == Spec => []Inv
<1>1. Inv /\ [Next]_vars => Inv'
  <2> SUFFICES ASSUME Inv, [Next]_vars PROVE Inv'
    OBVIOUS
  <2>1. ASSUME NEW k \in DOMAIN controls, SetStatus(k) PROVE Inv'
    BY <2>1, SetStatusInv
  <2>2. ASSUME NEW policies \in PolicyLists, SetExceptions(policies) PROVE Inv'
    BY <2>2, SetExceptionsInv
  <2>3. CASE Reload
    BY <2>3, ReloadInv
  <2>4. CASE UNCHANGED vars
    BY <2>4 DEF Inv, vars
  <2>5. QED
    BY <2>1, <2>2, <2>3, <2>4 DEF Next
<1>2. QED
  BY InitInv, <1>1, PTL DEF Spec

-----------------------------------------------------------------------------
(* A view over several frameworks is the worst of their single views, for    *)
(* each control and for the resource; the raw view is what was cached, and   *)
(* no framework sees a control worse.                                        *)
THEOREM JointViewCorrect == Spec => []JointViewIsWorstView
<1>1. Inv => JointViewIsWorstView
  <2> SUFFICES ASSUME Inv PROVE JointViewIsWorstView
    OBVIOUS
  <2>1. \A k \in DOMAIN controls : IsControl(controls[k]) /\ Cached(controls[k])
    BY DEF Inv, ControlInv
  <2>2. FrameworkViewNeverWorse
    BY <2>1, RawViewIsWorst DEF FrameworkViewNeverWorse, Scored
  <2>3. ASSUME NEW filter \in Filters \ {<<>>}
        PROVE  /\ \A c \in AllControls :
                     GetStatus(c, filter).status
                        = Verdict({GetStatus(c, <<f>>).status : f \in ToSet(filter)})
               /\ Class(ResultStatus(controls, filter).status)
                        = Verdict({ResultStatus(controls, <<f>>).status : f \in ToSet(filter)})
    <3>1. filter \in Seq(Frameworks) /\ filter # <<>>
      BY FiltersAssumption
    <3>2. IsSequence(controls)
      BY DEF Inv
    <3>3. \A c \in AllControls : IsControl(c)
      BY <2>1 DEF AllControls
    <3>4. QED
      BY <2>1, <3>1, <3>2, <3>3, JointViewIsWorst, JointResultIsWorst
  <2>4. QED
    BY <2>2, <2>3 DEF JointViewIsWorstView
<1>2. QED
  BY Invariance, <1>1, PTL

(* A report read back from JSON, which has lost actionRequired, shows the    *)
(* same status and sub status as the one that was written, in every view.    *)
THEOREM ReloadCorrect == Spec => []ReloadPreservesViews
<1>1. Inv => ReloadPreservesViews
  <2> SUFFICES ASSUME Inv, NEW c \in Scored, NEW filter \in Filters \union {NoFilter}
               PROVE  GetStatus(Reloaded(c), filter) = GetStatus(c, filter)
    BY DEF ReloadPreservesViews
  <2>1. IsControl(c) /\ Cached(c) /\ ~isOldControl(c)
    BY DEF Scored, Inv, ControlInv
  <2>2. filter = NoFilter \/ filter \in Seq(Frameworks)
    BY FiltersAssumption
  <2>3. QED
    BY <2>1, <2>2, ReloadedViews
<1>2. QED
  BY Invariance, <1>1, PTL

(* Applying a list of policies a second time changes nothing.                *)
THEOREM IdempotenceCorrect == Spec => []SetExceptionsIdempotent
<1>1. Inv => SetExceptionsIdempotent
  <2> SUFFICES ASSUME Inv, NEW policies \in PolicyLists
               PROVE  LET once == ResultWithExceptions(controls, policies)
                      IN  ResultWithExceptions(once, policies) = once
    BY DEF SetExceptionsIdempotent
  <2> DEFINE once == ResultWithExceptions(controls, policies)
             one(k) == ControlWithExceptions(controls[k], policies, attribute[controls[k].id])
  <2>1. once = [k \in DOMAIN controls |-> one(k)]
    BY DEF ResultWithExceptions
  <2>2. ASSUME NEW k \in DOMAIN controls
        PROVE  ControlWithExceptions(one(k), policies, attribute[one(k).id]) = one(k)
    <3> DEFINE c == controls[k]
               action == attribute[c.id]
    <3>1. /\ IsControl(c) /\ Cached(c) /\ action \in ScanningSubStatus /\ ArePolicies(policies)
      BY AttributeOf, ListsArePolicies DEF Inv, ControlInv
    <3>2. one(k) = ControlWithExceptions(c, policies, action)
      OBVIOUS
    <3> HIDE DEF one, action
    <3>3. one(k).id = c.id
      BY <3>1, <3>2, ExceptionsCache
    <3>4. ControlWithExceptions(one(k), policies, action) = one(k)
      BY <3>1, <3>2, ExceptionsOnce
    <3>5. QED
      BY <3>3, <3>4 DEF action
  <2> HIDE DEF one, once
  <2>3. ResultWithExceptions(once, policies)
            = [k \in DOMAIN controls |-> ControlWithExceptions(one(k), policies, attribute[one(k).id])]
    BY <2>1 DEF ResultWithExceptions
  <2>4. ResultWithExceptions(once, policies) = once
    BY <2>1, <2>2, <2>3
  <2>5. QED
    BY <2>4 DEF once
<1>2. QED
  BY Invariance, <1>1, PTL

(* Every failed rule shows what one of the applied lists declares for it, in *)
(* the raw view and in every framework view alike.                           *)
LEMMA AppliedIsDeclared ==
    ASSUME NEW rule, IsRule(rule), rule.status = StatusFailed, NEW id, id # Unset,
           NEW policies, ArePolicies(policies),
           rule.exceptions = Attached(policies, id, rule.name), NEW f \in Frameworks \union {Unset}
    PROVE  ruleStatus(rule, IF f = Unset THEN <<>> ELSE <<f>>, id)
              = statusWithExceptions(rule, Declared(policies, f, id, rule.name))
<1>1. RuleView(rule, FrameworkSet(f), id)
          = statusWithExceptions(rule, Declared(policies, f, id, rule.name))
  BY DeclaredView DEF IsRule
<1>2. CASE f = Unset
  BY <1>1, <1>2 DEF FrameworkSet, ruleStatus
<1>3. CASE f # Unset
  <2>1. ruleStatus(rule, <<f>>, id) = RuleView(rule, {f}, id)
    BY <1>3, SingleView
  <2>2. QED
    BY <1>1, <1>3, <2>1 DEF FrameworkSet
<1>4. QED
  BY <1>2, <1>3

LEMMA AttachedRuleOK ==
    ASSUME NEW rule, IsRule(rule), NEW id, NEW lists, lists \subseteq PolicyLists,
           RuleAsApplied(rule, id, lists)
    PROVE  RuleOK(rule)
<1>1. ASSUME NEW x \in rule.exceptions
      PROVE  \E p \in UNION PolicyLists :
                x.id = p.id /\ x.tuples \subseteq p.tuples /\ (x.tuples = {} => p.tuples = {})
  <2>1. PICK policies \in lists : rule.exceptions = Attached(policies, id, rule.name)
    BY <1>1 DEF RuleAsApplied
  <2>2. ArePolicies(policies)
    BY <2>1, ListsArePolicies
  <2>3. PICK p \in policies : StandsFor(x, p, id, rule.name)
    BY <1>1, <2>1, <2>2, AttachedOrigin
  <2>4. p \in UNION PolicyLists
    BY <2>1, <2>3
  <2>5. QED
    BY <2>3, <2>4 DEF StandsFor, KeptForRule
<1>2. QED
  BY <1>1 DEF RuleOK, IsRule

THEOREM DeclaredCorrect == Spec => []ExceptionsAsDeclared
<1>1. Inv => ExceptionsAsDeclared
  <2> SUFFICES ASSUME Inv PROVE ExceptionsAsDeclared
    OBVIOUS
  <2> DEFINE lists == ToSet(applied)
  <2>1. lists \subseteq PolicyLists /\ (lists = {} <=> applied = <<>>)
    <3>1. applied \in Seq(PolicyLists)
      BY DEF Inv
    <3>2. applied # <<>> => Len(applied) \in Nat \ {0} /\ 1 \in DOMAIN applied
      BY <3>1
    <3>3. applied # <<>> => applied[1] \in lists
      BY <3>2 DEF ToSet
    <3>4. QED
      BY <3>1, <3>3, MembersOfNone DEF ToSet
  <2>2. \A k \in DOMAIN controls : IsControl(controls[k]) /\ AsApplied(controls[k], lists)
    BY DEF Inv, ControlInv
  <2> HIDE DEF lists
  <2>3. TypeOK
    <3>1. ASSUME NEW k \in DOMAIN controls
          PROVE  /\ controls[k].status \in StatusInfo
                 /\ controls[k].actionRequired \in ScanningSubStatus
                 /\ \A j \in DOMAIN controls[k].rules : RuleOK(controls[k].rules[j])
      BY <2>1, <2>2, AttachedRuleOK DEF IsControl, AsApplied
    <3>2. QED
      BY <3>1 DEF TypeOK, Inv
  <2>4. ASSUME NEW c \in AllControls, NEW j \in DOMAIN c.rules, c.rules[j].status = StatusFailed
        PROVE  \E policies \in (IF applied = <<>> THEN {{}} ELSE lists) :
                  \A f \in Frameworks \union {Unset} :
                      ruleStatus(c.rules[j], IF f = Unset THEN <<>> ELSE <<f>>, c.id)
                        = statusWithExceptions(c.rules[j], Declared(policies, f, c.id, c.rules[j].name))
    <3> DEFINE rule == c.rules[j]
    <3>1. IsControl(c) /\ IsRule(rule) /\ RuleAsApplied(rule, c.id, lists) /\ c.id # Unset
      BY <2>2 DEF AllControls, IsControl, AsApplied
    <3>2. PICK policies \in (IF applied = <<>> THEN {{}} ELSE lists) :
             ArePolicies(policies) /\ rule.exceptions = Attached(policies, c.id, rule.name)
      <4>1. CASE applied = <<>>
        <5>1. rule.exceptions = {}
          BY <2>1, <3>1, <4>1 DEF RuleAsApplied
        <5>2. Attached({}, c.id, rule.name) = {} /\ ArePolicies({})
          BY DEF Attached, GetResourceExceptions, ListRuleExceptions, filterPostureExceptions,
                 ArePolicies
        <5>3. QED
          BY <4>1, <5>1, <5>2
      <4>2. CASE applied # <<>>
        <5>1. PICK policies \in lists : rule.exceptions = Attached(policies, c.id, rule.name)
          BY <2>1, <2>4, <3>1, <4>2 DEF RuleAsApplied
        <5>2. ArePolicies(policies)
          BY <2>1, <5>1, ListsArePolicies
        <5>3. QED
          BY <4>2, <5>1, <5>2
      <4>3. QED
        BY <4>1, <4>2
    <3> HIDE DEF rule
    <3>3. \A f \in Frameworks \union {Unset} :
              ruleStatus(rule, IF f = Unset THEN <<>> ELSE <<f>>, c.id)
                  = statusWithExceptions(rule, Declared(policies, f, c.id, rule.name))
      BY <2>4, <3>1, <3>2, AppliedIsDeclared DEF rule
    <3>4. QED
      BY <3>3 DEF rule
  <2>5. QED
    BY <2>3, <2>4 DEF ExceptionsAsDeclared, lists
<1>2. QED
  BY Invariance, <1>1, PTL
=============================================================================

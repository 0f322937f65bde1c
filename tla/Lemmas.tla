------------------------------- MODULE Lemmas -------------------------------
(***************************************************************************)
(* The lemmas that the proofs about several modules cite.  What the folds  *)
(* and sums of the community modules compute: they are recursive           *)
(* functions; induction is by a least counterexample.  And the algebra of  *)
(* the statuses.                                                           *)
(***************************************************************************)
EXTENDS ScanStatus, Integers, FiniteSets, Sequences, FiniteSetsExt, SequencesExt,
        FiniteSetTheorems, TLAPS

(* Every nonempty set of natural numbers has a least member.  The intervals  *)
(* from 0 are finite sets, ordered by inclusion, which is well founded.      *)
LEMMA LeastMember ==
    ASSUME NEW T \in SUBSET Nat, T # {}
    PROVE  \E n \in T : \A m \in T : n <= m
<1> DEFINE upto(n) == 0 .. n
           R == StrictSubsetOrdering(Nat)
           D == {upto(n) : n \in T}
<1>1. D \subseteq FiniteSubsetsOf(Nat)
  <2>1. \A n \in T : upto(n) \subseteq Nat /\ IsFiniteSet(upto(n))
    BY FS_Interval
  <2>2. QED
    BY <2>1 DEF FiniteSubsetsOf
<1>2. IsWellFoundedOn(R, FiniteSubsetsOf(Nat))
  BY FS_StrictSubsetOrderingWellFounded
<1>3. PICK d \in D : \A e \in D : ~(<<e, d>> \in R)
  <2> HIDE DEF R
  <2>1. D # {}
    OBVIOUS
  <2> HIDE DEF D
  <2>2. QED
    BY <1>1, <1>2, <2>1, WFMin
<1>4. PICK n \in T : d = upto(n)
  OBVIOUS
<1>5. ASSUME NEW m \in T, m < n PROVE FALSE
  <2>1. n \in upto(n) /\ n \notin upto(m) /\ upto(m) \subseteq upto(n)
    BY <1>5
  <2>2. <<upto(m), upto(n)>> \in R
    BY <2>1 DEF StrictSubsetOrdering
  <2>3. QED
    BY <1>3, <1>4, <2>2
<1>6. QED
  BY <1>5

(* Induction up to N: a set with 0 that is closed under successor.           *)
LEMMA InductionUpTo ==
    ASSUME NEW N \in Nat, NEW T, 0 \in T, \A n \in 0 .. N - 1 : n \in T => n + 1 \in T
    PROVE  \A n \in 0 .. N : n \in T
<1> DEFINE Missing == {n \in 0 .. N : n \notin T}
<1> SUFFICES ASSUME Missing # {} PROVE FALSE
  OBVIOUS
<1>1. PICK n \in Missing : \A m \in Missing : n <= m
  <2>1. Missing \in SUBSET Nat
    OBVIOUS
  <2> HIDE DEF Missing
  <2>2. QED
    BY <2>1, LeastMember
<1>2. n \in 0 .. N /\ n \notin T /\ n # 0
  OBVIOUS
<1>3. n - 1 \in 0 .. N - 1 /\ n - 1 \notin Missing
  BY <1>1, <1>2
<1>4. QED
  BY <1>2, <1>3

(* Induction over a finite set: a collection with {} that is closed under    *)
(* adding an element of S has every subset of S.                             *)
LEMMA FiniteInduction ==
    ASSUME NEW S, IsFiniteSet(S), NEW T, {} \in T,
           \A A \in SUBSET S : A \in T => \A x \in S \ A : A \union {x} \in T
    PROVE  \A A \in SUBSET S : A \in T
<1> DEFINE Good == {n \in Nat : \A A \in SUBSET S : Cardinality(A) = n => A \in T}
<1>1. /\ Cardinality(S) \in Nat
      /\ \A A \in SUBSET S : IsFiniteSet(A) /\ Cardinality(A) \in 0 .. Cardinality(S)
  BY FS_Subset, FS_CardinalityType
<1>2. 0 \in Good
  BY <1>1, FS_EmptySet
<1>3. ASSUME NEW n \in 0 .. Cardinality(S) - 1, n \in Good PROVE n + 1 \in Good
  <2> SUFFICES ASSUME NEW A \in SUBSET S, Cardinality(A) = n + 1 PROVE A \in T
    BY <1>3
  <2>1. A # {}
    BY <1>1, FS_EmptySet
  <2>2. PICK x \in A : TRUE
    BY <2>1
  <2>3. Cardinality(A \ {x}) = n
    <3>1. IsFiniteSet(A)
      BY <1>1
    <3>2. Cardinality(A \ {x}) = Cardinality(A) - 1
      BY <3>1, FS_RemoveElement
    <3>3. QED
      BY <1>1, <3>2
  <2>4. A \ {x} \in T
    BY <1>3, <2>3
  <2>5. (A \ {x}) \union {x} = A /\ x \in S \ (A \ {x})
    OBVIOUS
  <2>6. QED
    BY <2>4, <2>5
<1>4. \A n \in 0 .. Cardinality(S) : n \in Good
  <2> HIDE DEF Good
  <2> QED
    BY <1>1, <1>2, <1>3, InductionUpTo
<1>5. QED
  BY <1>1, <1>4

-----------------------------------------------------------------------------
(* The members of a sequence.                                                *)
LEMMA MembersOfNone == ToSet(<<>>) = {}
BY DEF ToSet

LEMMA MembersOfAppend ==
    ASSUME NEW E, NEW s \in Seq(E), NEW x \in E
    PROVE  Append(s, x) \in Seq(E) /\ ToSet(Append(s, x)) = ToSet(s) \union {x}
<1> DEFINE n == Len(s)
           t == Append(s, x)
<1>1. /\ n \in Nat /\ DOMAIN s = 1 .. n /\ DOMAIN t = 1 .. n + 1
      /\ t[n + 1] = x /\ \A j \in 1 .. n : t[j] = s[j]
  OBVIOUS
<1>2. t \in Seq(E)
  OBVIOUS
<1> HIDE DEF n, t
<1>3. 1 .. n + 1 = (1 .. n) \union {n + 1}
  BY <1>1
<1>4. ToSet(t) = ToSet(s) \union {x}
  BY <1>1, <1>3 DEF ToSet
<1>5. QED
  BY <1>2, <1>4 DEF t

(* The length of a sequence that repeats nothing counts its members.         *)
LEMMA LengthOfDistinct ==
    ASSUME NEW E, NEW s \in Seq(E), IsInjective(s)
    PROVE  IsFiniteSet(ToSet(s)) /\ Cardinality(ToSet(s)) = Len(s) /\ Len(s) \in Nat
<1> DEFINE n == Len(s)
<1>1. n \in Nat /\ DOMAIN s = 1 .. n /\ s \in [1 .. n -> ToSet(s)]
  BY DEF ToSet
<1>2. s \in Bijection(1 .. n, ToSet(s))
  BY <1>1 DEF ToSet, Bijection, Injection, Surjection, IsInjective
<1>3. IsFiniteSet(1 .. n) /\ Cardinality(1 .. n) = n
  BY <1>1, FS_Interval
<1>4. ExistsBijection(1 .. n, ToSet(s))
  BY <1>2 DEF ExistsBijection
<1>5. QED
  BY <1>1, <1>3, <1>4, FS_Bijection

-----------------------------------------------------------------------------
(* Folds over a sequence.  The equation a left fold is defined by, over the  *)
(* sets of positions.                                                        *)
LEMMA MaxOfInterval ==
    ASSUME NEW n \in Nat, NEW s \in SUBSET (1 .. n), n \in s
    PROVE  Max(s) = n
<1>1. \A y \in s : n >= y
  OBVIOUS
<1>2. \A x \in s : (\A y \in s : x >= y) => x = n
  OBVIOUS
<1>3. QED
  BY <1>1, <1>2 DEF Max

LEMMA LastOfPrefix ==
    ASSUME NEW n \in Nat, NEW k \in 1 .. n
    PROVE  /\ 1 .. k \in SUBSET (1 .. n) /\ 1 .. k # {}
           /\ Max(1 .. k) = k
           /\ (1 .. k) \ {k} = 1 .. k - 1
<1>1. 1 .. k \in SUBSET (1 .. n) /\ k \in 1 .. k
  OBVIOUS
<1>2. (1 .. k) \ {k} = 1 .. k - 1
  OBVIOUS
<1>3. QED
  BY <1>1, <1>2, MaxOfInterval

LEMMA MaxIsMember ==
    ASSUME NEW n \in Nat, NEW s \in SUBSET (1 .. n), s # {}
    PROVE  Max(s) \in s /\ \A y \in s : Max(s) >= y
<1> DEFINE Gaps == {n - x : x \in s}
<1>1. Gaps \in SUBSET Nat /\ Gaps # {}
  <2>1. \A x \in s : n - x \in Nat
    OBVIOUS
  <2>2. PICK x \in s : TRUE
    OBVIOUS
  <2>3. n - x \in Gaps
    OBVIOUS
  <2>4. QED
    BY <2>1, <2>3
<1>2. PICK g \in Gaps : \A m \in Gaps : g <= m
  <2> HIDE DEF Gaps
  <2> QED
    BY <1>1, LeastMember
<1>3. PICK x \in s : g = n - x
  OBVIOUS
<1>4. ASSUME NEW y \in s PROVE x >= y
  <2>1. g <= n - y
    BY <1>2
  <2>2. QED
    BY <1>3, <2>1
<1>5. QED
  BY <1>4 DEF Max

(* It has a solution, whatever function on well-typed values is folded.      *)
SolvesFold(h, step, start, seq, n) ==
    h = [s \in SUBSET (1 .. n) |->
            IF s = {} THEN start ELSE step[<<h[s \ {Max(s)}], seq[Max(s)]>>]]

LEMMA FoldIsSolvable ==
    ASSUME NEW D, NEW E, NEW step \in [D \X E -> D], NEW start \in D,
           NEW N \in Nat, NEW seq \in [1 .. N -> E]
    PROVE  \E h \in [SUBSET (1 .. N) -> D] : SolvesFold(h, step, start, seq, N)
<1> DEFINE value(h, s) == IF s = {} THEN start ELSE step[<<h[s \ {Max(s)}], seq[Max(s)]>>]
           Solvable == {n \in Nat : \E h \in [SUBSET (1 .. n) -> D] :
                                        SolvesFold(h, step, start, seq, n)}
<1>1. 0 \in Solvable
  <2> DEFINE h == [s \in SUBSET (1 .. 0) |-> start]
  <2>1. SUBSET (1 .. 0) = {{}}
    OBVIOUS
  <2>2. h = [s \in SUBSET (1 .. 0) |-> value(h, s)]
    BY <2>1
  <2>3. h \in [SUBSET (1 .. 0) -> D]
    OBVIOUS
  <2>4. QED
    BY <2>2, <2>3 DEF SolvesFold
<1>2. ASSUME NEW m \in 0 .. N - 1, m \in Solvable PROVE m + 1 \in Solvable
  <2> DEFINE n == m + 1
  <2>1. PICK g \in [SUBSET (1 .. m) -> D] : SolvesFold(g, step, start, seq, m)
    BY <1>2
  <2> DEFINE h == [s \in SUBSET (1 .. n) |-> IF n \in s THEN value(g, s) ELSE g[s]]
  <2>2. ASSUME NEW s \in SUBSET (1 .. n) PROVE h[s] = value(h, s) /\ h[s] \in D
    <3>1. CASE n \in s
      <4>1. Max(s) = n
        BY <3>1, MaxOfInterval
      <4>2. s \ {n} \in SUBSET (1 .. m) /\ s \ {n} \in SUBSET (1 .. n) /\ n \notin s \ {n}
        OBVIOUS
      <4>3. h[s \ {n}] = g[s \ {n}] /\ g[s \ {n}] \in D
        BY <4>2
      <4>4. h[s] = value(g, s)
        BY <3>1
      <4>5. seq[n] \in E
        OBVIOUS
      <4>6. s # {}
        BY <3>1
      <4> HIDE DEF h
      <4>7. QED
        BY <4>1, <4>3, <4>4, <4>5, <4>6
    <3>2. CASE n \notin s
      <4>1. s \in SUBSET (1 .. m)
        BY <3>2
      <4>2. h[s] = g[s] /\ g[s] \in D
        BY <3>2, <4>1
      <4>3. g[s] = value(g, s)
        BY <2>1, <4>1 DEF SolvesFold
      <4>4. CASE s = {}
        BY <4>2, <4>3, <4>4
      <4>5. CASE s # {}
        <5>1. s \ {Max(s)} \in SUBSET (1 .. n) /\ n \notin s \ {Max(s)}
          BY <3>2
        <5>2. h[s \ {Max(s)}] = g[s \ {Max(s)}]
          BY <5>1
        <5> HIDE DEF h
        <5>3. QED
          BY <4>2, <4>3, <4>5, <5>2
      <4>6. QED
        BY <4>4, <4>5
    <3>3. QED
      BY <3>1, <3>2
  <2>3. h \in [SUBSET (1 .. n) -> D]
    <3>1. h = [s \in SUBSET (1 .. n) |-> h[s]]
      OBVIOUS
    <3> HIDE DEF h
    <3>2. QED
      BY <2>2, <3>1
  <2>4. h = [s \in SUBSET (1 .. n) |-> value(h, s)]
    <3>1. h = [s \in SUBSET (1 .. n) |-> h[s]]
      OBVIOUS
    <3> HIDE DEF h, value
    <3>2. [s \in SUBSET (1 .. n) |-> h[s]] = [s \in SUBSET (1 .. n) |-> value(h, s)]
      BY <2>2
    <3>3. QED
      BY <3>1, <3>2
  <2>5. SolvesFold(h, step, start, seq, n)
    <3> HIDE DEF h
    <3> QED
      BY <2>4 DEF SolvesFold
  <2>6. QED
    <3> HIDE DEF h
    <3> QED
      BY <2>3, <2>5
<1>3. N \in Solvable
  <2> HIDE DEF Solvable
  <2>1. \A m \in 0 .. N - 1 : m \in Solvable => m + 1 \in Solvable
    BY <1>2
  <2>2. N \in 0 .. N
    OBVIOUS
  <2>3. QED
    BY <1>1, <2>1, <2>2, InductionUpTo
<1>4. QED
  BY <1>3

-----------------------------------------------------------------------------
(* Sums over a finite set.  The equation a sum is defined by, and a solution *)
(* of it: the sets of at most n members have one, for every n.               *)
Chosen(A) == CHOOSE x \in A : TRUE

SolvesSum(h, f, C) ==
    h = [A \in C |-> IF A = {} THEN 0 ELSE f[Chosen(A)] + h[A \ {Chosen(A)}]]

LEMMA SumIsSolvable ==
    ASSUME NEW S, IsFiniteSet(S), NEW f, \A y \in S : f[y] \in Int
    PROVE  \E h \in [SUBSET S -> Int] : SolvesSum(h, f, SUBSET S)
<1> DEFINE Small(n) == {A \in SUBSET S : Cardinality(A) <= n}
           value(h, A) == IF A = {} THEN 0 ELSE f[Chosen(A)] + h[A \ {Chosen(A)}]
           Solvable == {n \in Nat : \E h \in [Small(n) -> Int] : SolvesSum(h, f, Small(n))}
<1>1. /\ Cardinality(S) \in Nat
      /\ \A A \in SUBSET S : IsFiniteSet(A) /\ Cardinality(A) \in 0 .. Cardinality(S)
  BY FS_Subset, FS_CardinalityType
<1>2. \A A \in SUBSET S : A # {} =>
         /\ Chosen(A) \in A /\ f[Chosen(A)] \in Int
         /\ A \ {Chosen(A)} \in SUBSET S
         /\ Cardinality(A \ {Chosen(A)}) = Cardinality(A) - 1
  <2> SUFFICES ASSUME NEW A \in SUBSET S, A # {}
               PROVE  /\ Chosen(A) \in A /\ f[Chosen(A)] \in Int
                      /\ A \ {Chosen(A)} \in SUBSET S
                      /\ Cardinality(A \ {Chosen(A)}) = Cardinality(A) - 1
    OBVIOUS
  <2>1. Chosen(A) \in A
    BY DEF Chosen
  <2>2. Cardinality(A \ {Chosen(A)}) = Cardinality(A) - 1
    BY <1>1, <2>1, FS_RemoveElement
  <2>3. QED
    BY <2>1, <2>2
<1>3. 0 \in Solvable
  <2> DEFINE h == [A \in Small(0) |-> 0]
  <2>1. \A A \in Small(0) : A = {}
    BY <1>1, FS_EmptySet
  <2>2. h = [A \in Small(0) |-> value(h, A)]
    BY <2>1
  <2>3. h \in [Small(0) -> Int]
    OBVIOUS
  <2> HIDE DEF h, Small
  <2>4. QED
    BY <2>2, <2>3 DEF SolvesSum
<1>4. ASSUME NEW n \in 0 .. Cardinality(S) - 1, n \in Solvable PROVE n + 1 \in Solvable
  <2>1. PICK g \in [Small(n) -> Int] : SolvesSum(g, f, Small(n))
    BY <1>4
  <2> DEFINE h == [A \in Small(n + 1) |-> value(g, A)]
  <2>2. ASSUME NEW A \in Small(n) PROVE g[A] = value(g, A)
    <3> HIDE DEF Small
    <3> QED
      BY <2>1 DEF SolvesSum
  <2>3. ASSUME NEW A \in Small(n + 1) PROVE h[A] = value(h, A) /\ h[A] \in Int
    <3>1. h[A] = value(g, A)
      OBVIOUS
    <3>2. CASE A = {}
      BY <3>1, <3>2
    <3>3. CASE A # {}
      <4> DEFINE B == A \ {Chosen(A)}
      <4>1. B \in Small(n) /\ B \in Small(n + 1) /\ f[Chosen(A)] \in Int
        BY <1>1, <1>2, <3>3
      <4>2. h[B] = g[B] /\ g[B] \in Int
        BY <2>2, <4>1
      <4> HIDE DEF h, Small
      <4>3. QED
        BY <3>1, <3>3, <4>1, <4>2
    <3>4. QED
      BY <3>2, <3>3
  <2>4. h = [A \in Small(n + 1) |-> h[A]]
    OBVIOUS
  <2>5. h \in [Small(n + 1) -> Int] /\ SolvesSum(h, f, Small(n + 1))
    <3> HIDE DEF h, Small, value
    <3>1. [A \in Small(n + 1) |-> h[A]] = [A \in Small(n + 1) |-> value(h, A)]
      BY <2>3
    <3>2. h = [A \in Small(n + 1) |-> value(h, A)]
      BY <2>4, <3>1
    <3>3. QED
      BY <2>3, <2>4, <3>2 DEF SolvesSum, value
  <2>6. QED
    <3> HIDE DEF h, Small
    <3> QED
      BY <1>1, <2>5
<1>5. Cardinality(S) \in Solvable
  <2>1. \A n \in 0 .. Cardinality(S) - 1 : n \in Solvable => n + 1 \in Solvable
    BY <1>4
  <2> HIDE DEF Solvable
  <2>2. QED
    BY <1>1, <1>3, <2>1, InductionUpTo
<1>6. Small(Cardinality(S)) = SUBSET S
  BY <1>1
<1>7. QED
  <2> HIDE DEF Small
  <2> QED
    BY <1>5, <1>6

(* A member is chosen, and what is left is smaller.                          *)
LEMMA ChosenMember ==
    ASSUME NEW S, IsFiniteSet(S), NEW A \in SUBSET S, A # {}
    PROVE  /\ Chosen(A) \in A
           /\ A \ {Chosen(A)} \in SUBSET S
           /\ Cardinality(A) \in Nat
           /\ Cardinality(A \ {Chosen(A)}) = Cardinality(A) - 1
<1>1. Chosen(A) \in A
  BY DEF Chosen
<1>2. IsFiniteSet(A)
  BY FS_Subset
<1>3. QED
  BY <1>1, <1>2, FS_RemoveElement, FS_CardinalityType

(* Two solutions agree wherever both are defined.                            *)
LEMMA SolutionsAgree ==
    ASSUME NEW S, IsFiniteSet(S), NEW f, NEW B \in SUBSET S, NEW h, NEW k,
           SolvesSum(h, f, SUBSET S), SolvesSum(k, f, SUBSET B)
    PROVE  h[B] = k[B]
<1> DEFINE Good == {n \in Nat : \A A \in SUBSET B : Cardinality(A) = n => h[A] = k[A]}
<1>1. IsFiniteSet(B) /\ Cardinality(B) \in Nat
  BY FS_Subset, FS_CardinalityType
<1>2. \A A \in SUBSET B :
         /\ h[A] = IF A = {} THEN 0 ELSE f[Chosen(A)] + h[A \ {Chosen(A)}]
         /\ k[A] = IF A = {} THEN 0 ELSE f[Chosen(A)] + k[A \ {Chosen(A)}]
  BY DEF SolvesSum
<1>3. 0 \in Good
  <2>1. \A A \in SUBSET B : Cardinality(A) = 0 => A = {}
    BY <1>1, FS_Subset, FS_EmptySet
  <2>2. QED
    BY <1>2, <2>1
<1>4. ASSUME NEW n \in 0 .. Cardinality(B) - 1, n \in Good PROVE n + 1 \in Good
  <2> SUFFICES ASSUME NEW A \in SUBSET B, Cardinality(A) = n + 1 PROVE h[A] = k[A]
    BY <1>1, <1>4
  <2>1. A # {}
    <3>1. Cardinality({}) = 0 /\ n + 1 # 0
      BY <1>1, FS_EmptySet
    <3>2. QED
      BY <3>1
  <2>2. A \ {Chosen(A)} \in SUBSET B /\ Cardinality(A \ {Chosen(A)}) = n
    BY <1>1, <2>1, ChosenMember
  <2>3. h[A \ {Chosen(A)}] = k[A \ {Chosen(A)}]
    BY <1>4, <2>2
  <2>4. QED
    BY <1>2, <2>1, <2>3
<1>5. Cardinality(B) \in Good
  <2>1. \A n \in 0 .. Cardinality(B) - 1 : n \in Good => n + 1 \in Good
    BY <1>4
  <2> HIDE DEF Good
  <2>2. QED
    BY <1>1, <1>3, <2>1, InductionUpTo
<1>6. QED
  BY <1>5

(* In a solution, any member can be taken out first.                         *)
LEMMA AnyMemberFirst ==
    ASSUME NEW S, IsFiniteSet(S), NEW f, \A y \in S : f[y] \in Int, NEW h \in [SUBSET S -> Int],
           SolvesSum(h, f, SUBSET S), NEW x \in S
    PROVE  h[S] = f[x] + h[S \ {x}]
<1> DEFINE Good == {n \in Nat : \A A \in SUBSET S : Cardinality(A) = n =>
                                    \A y \in A : h[A] = f[y] + h[A \ {y}]}
<1>1. Cardinality(S) \in Nat
  BY FS_CardinalityType
<1>2. \A A \in SUBSET S : A # {} => h[A] = f[Chosen(A)] + h[A \ {Chosen(A)}]
  BY DEF SolvesSum
<1>3. 0 \in Good
  <2>1. \A A \in SUBSET S : Cardinality(A) = 0 => A = {}
    BY FS_Subset, FS_EmptySet
  <2>2. QED
    BY <2>1
<1>4. ASSUME NEW n \in 0 .. Cardinality(S) - 1, n \in Good PROVE n + 1 \in Good
  <2> SUFFICES ASSUME NEW A \in SUBSET S, Cardinality(A) = n + 1, NEW y \in A
               PROVE  h[A] = f[y] + h[A \ {y}]
    BY <1>1, <1>4
  <2> DEFINE z == Chosen(A)
  <2>1. /\ z \in A /\ A \ {z} \in SUBSET S /\ Cardinality(A \ {z}) = n
        /\ h[A] = f[z] + h[A \ {z}]
    BY <1>1, <1>2, ChosenMember
  <2>2. A \ {y} \in SUBSET S /\ Cardinality(A \ {y}) = n
    <3>1. IsFiniteSet(A)
      BY FS_Subset
    <3>2. Cardinality(A \ {y}) = Cardinality(A) - 1
      BY <3>1, FS_RemoveElement
    <3>3. QED
      BY <1>1, <3>2
  <2> HIDE DEF z
  <2>3. CASE y = z
    BY <2>1, <2>3
  <2>4. CASE y # z
    <3>1. h[A \ {z}] = f[y] + h[(A \ {z}) \ {y}]
      BY <1>4, <2>1, <2>4
    <3>2. h[A \ {y}] = f[z] + h[(A \ {y}) \ {z}]
      BY <1>4, <2>1, <2>2, <2>4
    <3>3. (A \ {z}) \ {y} = (A \ {y}) \ {z} /\ (A \ {y}) \ {z} \in SUBSET S
      OBVIOUS
    <3>4. f[y] \in Int /\ f[z] \in Int /\ h[(A \ {y}) \ {z}] \in Int
      BY <2>1, <3>3
    <3>5. h[A] = f[z] + (f[y] + h[(A \ {y}) \ {z}])
      BY <2>1, <3>1, <3>3
    <3>6. \A a, b, c \in Int : a + (b + c) = b + (a + c)
      OBVIOUS
    <3>7. h[A] = f[y] + (f[z] + h[(A \ {y}) \ {z}])
      BY <3>4, <3>5, <3>6
    <3>8. QED
      BY <3>2, <3>7
  <2>5. QED
    BY <2>3, <2>4
<1>5. Cardinality(S) \in Good
  <2>1. \A n \in 0 .. Cardinality(S) - 1 : n \in Good => n + 1 \in Good
    BY <1>4
  <2> HIDE DEF Good
  <2>2. QED
    BY <1>1, <1>3, <2>1, InductionUpTo
<1>6. QED
  BY <1>5

(* The sum of the community modules is the value of a solution.              *)
LEMMA SumIsSolution ==
    ASSUME NEW S, IsFiniteSet(S), NEW f, \A y \in S : f[y] \in Int
    PROVE  \E h \in [SUBSET S -> Int] :
              /\ SolvesSum(h, f, SUBSET S)
              /\ SumFunctionOnSet(f, S) = h[S]
<1> DEFINE iter == CHOOSE h : SolvesSum(h, f, SUBSET S)
<1>1. PICK h \in [SUBSET S -> Int] : SolvesSum(h, f, SUBSET S)
  BY SumIsSolvable
<1>2. SumFunctionOnSet(f, S) = iter[S]
  BY DEF SolvesSum, Chosen, SumFunctionOnSet, FoldFunctionOnSet, MapThenFoldSet
<1>3. SolvesSum(iter, f, SUBSET S)
  BY <1>1
<1> HIDE DEF iter
<1>4. iter[S] = h[S]
  <2>1. S \in SUBSET S
    OBVIOUS
  <2>2. QED
    BY <1>1, <1>3, <2>1, SolutionsAgree
<1>5. QED
  BY <1>1, <1>2, <1>4

(* The facts about sums that other proofs use.                               *)
LEMMA SumType ==
    ASSUME NEW S, IsFiniteSet(S), NEW f, \A y \in S : f[y] \in Int
    PROVE  SumFunctionOnSet(f, S) \in Int
<1>1. PICK h \in [SUBSET S -> Int] : SumFunctionOnSet(f, S) = h[S]
  BY SumIsSolution
<1>2. S \in SUBSET S
  OBVIOUS
<1>3. QED
  BY <1>1, <1>2

LEMMA SumOfNone == ASSUME NEW f PROVE SumFunctionOnSet(f, {}) = 0
<1> DEFINE none == {}
<1>1. IsFiniteSet(none) /\ (\A y \in none : f[y] \in Int) /\ none \in SUBSET none
  BY FS_EmptySet
<1>2. none = {}
  OBVIOUS
<1> HIDE DEF none
<1>3. PICK h \in [SUBSET none -> Int] :
         SolvesSum(h, f, SUBSET none) /\ SumFunctionOnSet(f, none) = h[none]
  BY <1>1, SumIsSolution
<1>4. h[none] = 0
  BY <1>1, <1>2, <1>3 DEF SolvesSum
<1>5. QED
  BY <1>2, <1>3, <1>4

LEMMA SumWithout ==
    ASSUME NEW S, IsFiniteSet(S), NEW f, \A y \in S : f[y] \in Int, NEW x \in S
    PROVE  SumFunctionOnSet(f, S) = f[x] + SumFunctionOnSet(f, S \ {x})
<1>1. PICK h \in [SUBSET S -> Int] :
         SolvesSum(h, f, SUBSET S) /\ SumFunctionOnSet(f, S) = h[S]
  BY SumIsSolution
<1>2. IsFiniteSet(S \ {x}) /\ \A y \in S \ {x} : f[y] \in Int
  BY FS_RemoveElement
<1>3. PICK k \in [SUBSET (S \ {x}) -> Int] :
         SolvesSum(k, f, SUBSET (S \ {x})) /\ SumFunctionOnSet(f, S \ {x}) = k[S \ {x}]
  BY <1>2, SumIsSolution
<1>4. h[S \ {x}] = k[S \ {x}]
  <2> DEFINE B == S \ {x}
  <2>1. B \in SUBSET S /\ SolvesSum(k, f, SUBSET B)
    BY <1>3
  <2> HIDE DEF B
  <2>2. h[B] = k[B]
    BY <1>1, <2>1, SolutionsAgree
  <2>3. QED
    BY <2>2 DEF B
<1>5. h[S] = f[x] + h[S \ {x}]
  BY <1>1, AnyMemberFirst
<1>6. QED
  BY <1>1, <1>3, <1>4, <1>5

LEMMA SumWith ==
    ASSUME NEW S, IsFiniteSet(S), NEW x \in S, NEW A \in SUBSET S, x \notin A,
           NEW f, \A y \in S : f[y] \in Int
    PROVE  SumFunctionOnSet(f, A \union {x}) = f[x] + SumFunctionOnSet(f, A)
<1> DEFINE B == A \union {x}
<1>1. B \in SUBSET S /\ x \in B /\ B \ {x} = A
  OBVIOUS
<1> HIDE DEF B
<1>2. IsFiniteSet(B) /\ \A y \in B : f[y] \in Int
  BY <1>1, FS_Subset
<1>3. SumFunctionOnSet(f, B) = f[x] + SumFunctionOnSet(f, B \ {x})
  BY <1>1, <1>2, SumWithout
<1>4. QED
  BY <1>1, <1>3 DEF B

(* Raising the terms of the members of R by one raises the sum by as many.   *)
LEMMA SumRaised ==
    ASSUME NEW S, IsFiniteSet(S), NEW f, NEW g, NEW R \in SUBSET S,
           \A y \in S : f[y] \in Int /\ g[y] = f[y] + IF y \in R THEN 1 ELSE 0
    PROVE  SumFunctionOnSet(g, S) = SumFunctionOnSet(f, S) + Cardinality(R)
<1> DEFINE Good == {A \in SUBSET S :
              SumFunctionOnSet(g, A) = SumFunctionOnSet(f, A) + Cardinality(A \intersect R)}
<1>1. {} \in Good
  <2>1. {} \intersect R = {}
    OBVIOUS
  <2>2. QED
    BY <2>1, SumOfNone, FS_EmptySet
<1>2. ASSUME NEW A \in SUBSET S, A \in Good, NEW x \in S \ A PROVE A \union {x} \in Good
  <2> DEFINE B == A \union {x}
  <2>1. /\ SumFunctionOnSet(f, B) = f[x] + SumFunctionOnSet(f, A)
        /\ SumFunctionOnSet(g, B) = g[x] + SumFunctionOnSet(g, A)
    <3>1. \A y \in S : f[y] \in Int /\ g[y] \in Int
      OBVIOUS
    <3>2. QED
      BY <3>1, SumWith
  <2>2. IsFiniteSet(A \intersect R) /\ IsFiniteSet(A) /\ Cardinality(A \intersect R) \in Nat
    BY FS_Subset, FS_CardinalityType
  <2>3. Cardinality(B \intersect R)
          = Cardinality(A \intersect R) + IF x \in R THEN 1 ELSE 0
    <3>1. CASE x \in R
      <4>1. B \intersect R = (A \intersect R) \union {x} /\ x \notin A \intersect R
        BY <3>1
      <4> HIDE DEF B
      <4>2. Cardinality((A \intersect R) \union {x}) = Cardinality(A \intersect R) + 1
        BY <2>2, <4>1, FS_AddElement
      <4>3. QED
        BY <3>1, <4>1, <4>2
    <3>2. CASE x \notin R
      <4>1. B \intersect R = A \intersect R
        BY <3>2
      <4> HIDE DEF B
      <4>2. QED
        BY <2>2, <3>2, <4>1
    <3>3. QED
      BY <3>1, <3>2
  <2>4. SumFunctionOnSet(f, A) \in Int /\ f[x] \in Int
    BY <2>2, SumType
  <2>5. g[x] = f[x] + IF x \in R THEN 1 ELSE 0
    OBVIOUS
  <2>6. SumFunctionOnSet(g, A) = SumFunctionOnSet(f, A) + Cardinality(A \intersect R)
    BY <1>2
  <2>7. B \in SUBSET S
    OBVIOUS
  <2> HIDE DEF B
  <2>8. SumFunctionOnSet(g, B) = SumFunctionOnSet(f, B) + Cardinality(B \intersect R)
    BY <2>1, <2>2, <2>3, <2>4, <2>5, <2>6
  <2>9. QED
    BY <2>7, <2>8 DEF B
<1>3. S \in Good
  <2>1. \A A \in SUBSET S : A \in Good => \A x \in S \ A : A \union {x} \in Good
    BY <1>2
  <2>2. S \in SUBSET S
    OBVIOUS
  <2> HIDE DEF Good
  <2>3. QED
    BY <1>1, <2>1, <2>2, FiniteInduction
<1>4. S \intersect R = R
  OBVIOUS
<1>5. QED
  BY <1>3, <1>4

(* Equal terms make equal sums.                                              *)
LEMMA SumOfEqual ==
    ASSUME NEW S, IsFiniteSet(S), NEW f, NEW g,
           \A y \in S : f[y] \in Int /\ g[y] = f[y]
    PROVE  SumFunctionOnSet(g, S) = SumFunctionOnSet(f, S)
<1>1. \A y \in S : f[y] \in Int /\ g[y] = f[y] + IF y \in {} THEN 1 ELSE 0
  OBVIOUS
<1>2. SumFunctionOnSet(g, S) = SumFunctionOnSet(f, S) + Cardinality({})
  <2>1. {} \in SUBSET S
    OBVIOUS
  <2>2. QED
    BY <1>1, <2>1, SumRaised
<1>3. SumFunctionOnSet(f, S) \in Int
  BY SumType
<1>4. QED
  BY <1>2, <1>3, FS_EmptySet

LEMMA SumOfZeros ==
    ASSUME NEW S, IsFiniteSet(S), NEW f, \A y \in S : f[y] = 0
    PROVE  SumFunctionOnSet(f, S) = 0
<1> DEFINE Good == {A \in SUBSET S : SumFunctionOnSet(f, A) = 0}
<1>1. {} \in Good
  BY SumOfNone
<1>2. ASSUME NEW A \in SUBSET S, A \in Good, NEW x \in S \ A PROVE A \union {x} \in Good
  <2>1. SumFunctionOnSet(f, A \union {x}) = f[x] + SumFunctionOnSet(f, A)
    <3>1. \A y \in S : f[y] \in Int
      OBVIOUS
    <3>2. QED
      BY <3>1, SumWith
  <2>2. QED
    BY <1>2, <2>1
<1>3. S \in Good
  <2>1. \A A \in SUBSET S : A \in Good => \A x \in S \ A : A \union {x} \in Good
    BY <1>2
  <2>2. S \in SUBSET S
    OBVIOUS
  <2> HIDE DEF Good
  <2>3. QED
    BY <1>1, <2>1, <2>2, FiniteInduction
<1>4. QED
  BY <1>3

-----------------------------------------------------------------------------
(* Sequences of sequences.                                                   *)
LEMMA MembersOfConcat ==
    ASSUME NEW E, NEW s \in Seq(E), NEW t \in Seq(E)
    PROVE  s \o t \in Seq(E) /\ ToSet(s \o t) = ToSet(s) \union ToSet(t)
<1> DEFINE m == Len(s)
           n == Len(t)
           u == s \o t
<1>1. /\ m \in Nat /\ n \in Nat /\ DOMAIN s = 1 .. m /\ DOMAIN t = 1 .. n /\ DOMAIN u = 1 .. m + n
      /\ \A j \in 1 .. m : u[j] = s[j]
      /\ \A j \in m + 1 .. m + n : u[j] = t[j - m]
  OBVIOUS
<1>2. u \in Seq(E)
  OBVIOUS
<1> HIDE DEF m, n, u
<1>3. \A j \in 1 .. n : u[j + m] = t[j]
  <2> SUFFICES ASSUME NEW j \in 1 .. n PROVE u[j + m] = t[j]
    OBVIOUS
  <2>1. j + m \in m + 1 .. m + n /\ (j + m) - m = j
    BY <1>1
  <2>2. QED
    BY <1>1, <2>1
<1>4. ToSet(s) \subseteq ToSet(u)
  <2>1. \A j \in 1 .. m : j \in 1 .. m + n
    BY <1>1
  <2>2. QED
    BY <1>1, <2>1 DEF ToSet
<1>5. ToSet(t) \subseteq ToSet(u)
  <2>1. \A j \in 1 .. n : j + m \in 1 .. m + n
    BY <1>1
  <2>2. QED
    BY <1>1, <1>3, <2>1 DEF ToSet
<1>6. ToSet(u) \subseteq ToSet(s) \union ToSet(t)
  <2> SUFFICES ASSUME NEW j \in 1 .. m + n PROVE u[j] \in ToSet(s) \union ToSet(t)
    BY <1>1 DEF ToSet
  <2>1. CASE j \in 1 .. m
    BY <1>1, <2>1 DEF ToSet
  <2>2. CASE j \notin 1 .. m
    <3>1. j \in m + 1 .. m + n /\ j - m \in 1 .. n
      BY <1>1, <2>2
    <3>2. u[j] = t[j - m]
      BY <1>1, <3>1
    <3>3. QED
      BY <1>1, <3>1, <3>2 DEF ToSet
  <2>3. QED
    BY <2>1, <2>2
<1>7. QED
  BY <1>2, <1>4, <1>5, <1>6 DEF u

SolvesFlatten(f, seqs, n) ==
    f = [i \in 1 .. n |-> IF i = 1 THEN seqs[i] ELSE f[i - 1] \o seqs[i]]

LEMMA FlattenIsSolvable ==
    ASSUME NEW E, NEW n \in Nat, NEW seqs \in [1 .. n -> Seq(E)]
    PROVE  \E f : SolvesFlatten(f, seqs, n)
<1> DEFINE step == [p \in Seq(E) \X Seq(E) |-> p[1] \o p[2]]
<1>1. step \in [Seq(E) \X Seq(E) -> Seq(E)] /\ <<>> \in Seq(E)
  OBVIOUS
<1>2. \A x \in Seq(E), y \in Seq(E) : step[<<x, y>>] = x \o y
  OBVIOUS
<1> HIDE DEF step
<1>3. PICK h \in [SUBSET (1 .. n) -> Seq(E)] : SolvesFold(h, step, <<>>, seqs, n)
  BY <1>1, FoldIsSolvable
<1> DEFINE f == [i \in 1 .. n |-> h[1 .. i]]
<1>4. ASSUME NEW i \in 1 .. n PROVE h[1 .. i] = h[1 .. i - 1] \o seqs[i]
  <2>1. /\ 1 .. i \in SUBSET (1 .. n) /\ 1 .. i # {} /\ Max(1 .. i) = i
        /\ (1 .. i) \ {i} = 1 .. i - 1
    BY LastOfPrefix
  <2>2. h[1 .. i] = step[<<h[1 .. i - 1], seqs[i]>>]
    BY <1>3, <2>1 DEF SolvesFold
  <2>3. 1 .. i - 1 \in SUBSET (1 .. n)
    OBVIOUS
  <2>4. h[1 .. i - 1] \in Seq(E) /\ seqs[i] \in Seq(E)
    BY <2>3
  <2>5. QED
    BY <1>2, <2>2, <2>4
<1>5. h[1 .. 0] = <<>>
  <2>1. 1 .. 0 = {} /\ {} \in SUBSET (1 .. n)
    OBVIOUS
  <2>2. QED
    BY <1>3, <2>1 DEF SolvesFold
<1>6. ASSUME NEW i \in 1 .. n PROVE f[i] = IF i = 1 THEN seqs[i] ELSE f[i - 1] \o seqs[i]
  <2>1. CASE i = 1
    <3>1. h[1 .. 1] = h[1 .. 0] \o seqs[1]
      <4>1. 1 \in 1 .. n /\ 1 - 1 = 0
        BY <2>1
      <4>2. h[1 .. 1] = h[1 .. 1 - 1] \o seqs[1]
        BY <1>4, <4>1
      <4>3. QED
        BY <4>1, <4>2
    <3>2. seqs[1] \in Seq(E)
      BY <2>1
    <3>3. QED
      BY <1>5, <2>1, <3>1, <3>2
  <2>2. CASE i # 1
    <3>1. i - 1 \in 1 .. n
      BY <2>2
    <3>2. QED
      BY <1>4, <2>2, <3>1
  <2>3. QED
    BY <2>1, <2>2
<1>7. SolvesFlatten(f, seqs, n)
  <2>1. f = [i \in 1 .. n |-> f[i]]
    OBVIOUS
  <2> HIDE DEF f
  <2>2. QED
    BY <1>6, <2>1 DEF SolvesFlatten
<1> HIDE DEF f
<1>8. QED
  BY <1>7

(* The loop over the sequences, step by step.                                *)
IsFlattening(flat, seqs, n) ==
    /\ flat[0] = <<>>
    /\ \A k \in 1 .. n : flat[k] = flat[k - 1] \o seqs[k]
    /\ FlattenSeq(seqs) = flat[n]

LEMMA FlattenSteps ==
    ASSUME NEW E, NEW n \in Nat, NEW seqs \in [1 .. n -> Seq(E)]
    PROVE  \E flat : IsFlattening(flat, seqs, n)
<1> DEFINE f == CHOOSE g : SolvesFlatten(g, seqs, n)
           flat == [k \in 0 .. n |-> IF k = 0 THEN <<>> ELSE f[k]]
<1>1. SolvesFlatten(f, seqs, n)
  BY FlattenIsSolvable
<1>2. Len(seqs) = n /\ DOMAIN seqs = 1 .. n
  OBVIOUS
<1>3. n # 0 => FlattenSeq(seqs) = f[n]
  BY <1>2 DEF FlattenSeq, SolvesFlatten
<1>4. n = 0 => FlattenSeq(seqs) = <<>>
  BY <1>2 DEF FlattenSeq
<1> HIDE DEF f
<1>5. ASSUME NEW k \in 1 .. n PROVE flat[k] = flat[k - 1] \o seqs[k]
  <2>1. f[k] = IF k = 1 THEN seqs[k] ELSE f[k - 1] \o seqs[k]
    BY <1>1 DEF SolvesFlatten
  <2>2. seqs[k] \in Seq(E) /\ k \in 0 .. n /\ k - 1 \in 0 .. n
    OBVIOUS
  <2>3. CASE k = 1
    BY <2>1, <2>2, <2>3
  <2>4. CASE k # 1
    BY <2>1, <2>2, <2>4
  <2>5. QED
    BY <2>3, <2>4
<1>6. flat[0] = <<>> /\ FlattenSeq(seqs) = flat[n]
  BY <1>3, <1>4
<1> HIDE DEF flat
<1>7. IsFlattening(flat, seqs, n)
  BY <1>5, <1>6 DEF IsFlattening
<1>8. QED
  BY <1>7

MembersOf(seqs, n) == UNION {ToSet(seqs[j]) : j \in 1 .. n}

HasMembers(flat, seqs, n, E) ==
    \A k \in 0 .. n : flat[k] \in Seq(E) /\ ToSet(flat[k]) = MembersOf(seqs, k)

LEMMA FlattenedMembers ==
    ASSUME NEW E, NEW n \in Nat, NEW seqs \in [1 .. n -> Seq(E)],
           NEW flat, IsFlattening(flat, seqs, n)
    PROVE  HasMembers(flat, seqs, n, E)
<1> DEFINE Good == {k \in 0 .. n : flat[k] \in Seq(E) /\ ToSet(flat[k]) = MembersOf(seqs, k)}
<1>1. 0 \in Good
  <2>1. flat[0] = <<>> /\ MembersOf(seqs, 0) = {}
    BY DEF IsFlattening, MembersOf
  <2>2. <<>> \in Seq(E) /\ 0 \in 0 .. n
    OBVIOUS
  <2>3. flat[0] \in Seq(E) /\ ToSet(flat[0]) = MembersOf(seqs, 0)
    BY <2>1, <2>2, MembersOfNone
  <2>4. QED
    BY <2>2, <2>3
<1>2. ASSUME NEW k \in 0 .. n - 1, k \in Good PROVE k + 1 \in Good
  <2>1. flat[k + 1] = flat[k] \o seqs[k + 1] /\ k + 1 \in 0 .. n /\ seqs[k + 1] \in Seq(E)
    <3>1. k + 1 \in 1 .. n /\ k + 1 \in 0 .. n /\ (k + 1) - 1 = k
      OBVIOUS
    <3>2. flat[k + 1] = flat[(k + 1) - 1] \o seqs[k + 1]
      BY <3>1 DEF IsFlattening
    <3>3. seqs[k + 1] \in Seq(E)
      BY <3>1
    <3>4. QED
      BY <3>1, <3>2, <3>3
  <2>2. flat[k] \in Seq(E) /\ ToSet(flat[k]) = MembersOf(seqs, k)
    BY <1>2
  <2>3. MembersOf(seqs, k + 1) = MembersOf(seqs, k) \union ToSet(seqs[k + 1])
    <3>1. 1 .. k + 1 = (1 .. k) \union {k + 1}
      OBVIOUS
    <3>2. QED
      BY <3>1 DEF MembersOf
  <2> DEFINE s == seqs[k + 1]
             u == flat[k]
  <2>4. u \o s \in Seq(E) /\ ToSet(u \o s) = ToSet(u) \union ToSet(s)
    <3>1. u \in Seq(E) /\ s \in Seq(E)
      BY <2>1, <2>2
    <3> HIDE DEF u, s
    <3>2. QED
      BY <3>1, MembersOfConcat
  <2>5. flat[k + 1] \in Seq(E) /\ ToSet(flat[k + 1]) = MembersOf(seqs, k + 1)
    BY <2>1, <2>2, <2>3, <2>4
  <2>6. QED
    BY <2>1, <2>5
<1> HIDE DEF Good
<1>3. \A k \in 0 .. n : k \in Good
  BY <1>1, <1>2, InductionUpTo
<1>4. QED
  BY <1>3 DEF Good, HasMembers

LEMMA FlattenMembers ==
    ASSUME NEW E, NEW n \in Nat, NEW seqs \in [1 .. n -> Seq(E)]
    PROVE  FlattenSeq(seqs) \in Seq(E) /\ ToSet(FlattenSeq(seqs)) = MembersOf(seqs, n)
<1>1. PICK flat : IsFlattening(flat, seqs, n)
  BY FlattenSteps
<1>2. HasMembers(flat, seqs, n, E)
  BY <1>1, FlattenedMembers
<1>3. flat[n] \in Seq(E) /\ ToSet(flat[n]) = MembersOf(seqs, n)
  BY <1>2 DEF HasMembers
<1>4. QED
  BY <1>1, <1>3 DEF IsFlattening

(* What repeats nothing and has nothing in common is joined.                 *)
LEMMA ConcatDistinct ==
    ASSUME NEW E, NEW s \in Seq(E), NEW t \in Seq(E), IsInjective(s), IsInjective(t),
           ToSet(s) \intersect ToSet(t) = {}
    PROVE  IsInjective(s \o t)
<1> DEFINE m == Len(s)
           n == Len(t)
           u == s \o t
<1>1. /\ m \in Nat /\ n \in Nat /\ DOMAIN s = 1 .. m /\ DOMAIN t = 1 .. n /\ DOMAIN u = 1 .. m + n
      /\ \A j \in 1 .. m : u[j] = s[j]
      /\ \A j \in m + 1 .. m + n : u[j] = t[j - m]
  OBVIOUS
<1>2. \A i \in 1 .. m : \A j \in 1 .. n : s[i] # t[j]
  BY <1>1 DEF ToSet
<1> HIDE DEF m, n, u
<1>3. \A j \in 1 .. m + n : j \in 1 .. m \/ (j \in m + 1 .. m + n /\ j - m \in 1 .. n)
  BY <1>1
<1>4. ASSUME NEW i \in 1 .. m + n, NEW j \in 1 .. m + n, u[i] = u[j] PROVE i = j
  <2>1. CASE i \in 1 .. m /\ j \in 1 .. m
    BY <1>1, <1>4, <2>1 DEF IsInjective
  <2>2. CASE i \in 1 .. m /\ j \notin 1 .. m
    BY <1>1, <1>2, <1>3, <1>4, <2>2
  <2>3. CASE i \notin 1 .. m /\ j \in 1 .. m
    BY <1>1, <1>2, <1>3, <1>4, <2>3
  <2>4. CASE i \notin 1 .. m /\ j \notin 1 .. m
    <3>1. /\ i - m \in 1 .. n /\ j - m \in 1 .. n
          /\ u[i] = t[i - m] /\ u[j] = t[j - m]
      BY <1>1, <1>3, <2>4
    <3>2. i - m = j - m
      BY <1>1, <1>4, <3>1 DEF IsInjective
    <3>3. QED
      BY <1>1, <3>2
  <2>5. QED
    BY <2>1, <2>2, <2>3, <2>4
<1>5. QED
  BY <1>1, <1>4 DEF IsInjective, u

LEMMA FlattenDistinct ==
    ASSUME NEW E, NEW n \in Nat, NEW seqs \in [1 .. n -> Seq(E)],
           \A j \in 1 .. n : IsInjective(seqs[j]),
           \A j, k \in 1 .. n : j # k => ToSet(seqs[j]) \intersect ToSet(seqs[k]) = {}
    PROVE  IsInjective(FlattenSeq(seqs))
<1>1. PICK flat : IsFlattening(flat, seqs, n)
  BY FlattenSteps
<1>2. \A k \in 0 .. n : flat[k] \in Seq(E) /\ ToSet(flat[k]) = MembersOf(seqs, k)
  BY <1>1, FlattenedMembers DEF HasMembers
<1> DEFINE Good == {k \in 0 .. n : IsInjective(flat[k])}
<1>3. 0 \in Good
  <2>1. flat[0] = <<>>
    BY <1>1 DEF IsFlattening
  <2>2. IsInjective(<<>>)
    BY DEF IsInjective
  <2>3. QED
    BY <2>1, <2>2
<1>4. ASSUME NEW k \in 0 .. n - 1, k \in Good PROVE k + 1 \in Good
  <2>1. /\ k + 1 \in 1 .. n /\ (k + 1) - 1 = k /\ k \in 0 .. n /\ k + 1 \in 0 .. n
        /\ \A j \in 1 .. k : j \in 1 .. n /\ j # k + 1
    OBVIOUS
  <2>2. flat[k + 1] = flat[k] \o seqs[k + 1]
    BY <1>1, <2>1 DEF IsFlattening
  <2> DEFINE s == flat[k]
             t == seqs[k + 1]
  <2>3. s \in Seq(E) /\ t \in Seq(E) /\ IsInjective(s) /\ IsInjective(t)
    BY <1>2, <1>4, <2>1
  <2>4. ToSet(s) \intersect ToSet(t) = {}
    <3>1. ToSet(s) = UNION {ToSet(seqs[j]) : j \in 1 .. k}
      BY <1>2, <2>1 DEF MembersOf
    <3>2. \A j \in 1 .. k : ToSet(seqs[j]) \intersect ToSet(t) = {}
      BY <2>1
    <3> HIDE DEF s, t
    <3>3. QED
      BY <3>1, <3>2
  <2>5. IsInjective(s \o t)
    <3> HIDE DEF s, t
    <3>1. QED
      BY <2>3, <2>4, ConcatDistinct
  <2>6. QED
    BY <2>1, <2>2, <2>5
<1>5. n \in Good
  <2>1. n \in 0 .. n
    OBVIOUS
  <2> HIDE DEF Good
  <2>2. QED
    BY <1>3, <1>4, <2>1, InductionUpTo
<1>6. QED
  BY <1>1, <1>5 DEF IsFlattening

-----------------------------------------------------------------------------
(* Sums of natural numbers: a part is at most the whole, and bounds of the   *)
(* terms are bounds of the sums.                                             *)
LEMMA SumOfNaturals ==
    ASSUME NEW S, IsFiniteSet(S), NEW f, \A y \in S : f[y] \in Nat
    PROVE  \A A \in SUBSET S : SumFunctionOnSet(f, A) \in 0 .. SumFunctionOnSet(f, S)
<1> DEFINE sum(A) == SumFunctionOnSet(f, A)
           Good == {A \in SUBSET S : sum(A) \in Nat}
           Less == {A \in SUBSET S : \A B \in SUBSET A : sum(B) <= sum(A)}
<1>1. {} \in Good
  BY SumOfNone
<1>2. ASSUME NEW A \in SUBSET S, NEW x \in S \ A
      PROVE  sum(A \union {x}) = f[x] + sum(A)
  BY SumWith
<1> HIDE DEF sum
<1>3. \A A \in SUBSET S : A \in Good => \A x \in S \ A : A \union {x} \in Good
  BY <1>2
<1>4. \A A \in SUBSET S : sum(A) \in Nat
  <2> HIDE DEF Good
  <2>1. \A A \in SUBSET S : A \in Good
    BY <1>1, <1>3, FiniteInduction
  <2>2. QED
    BY <2>1 DEF Good
<1>5. {} \in Less
  BY <1>4
<1>6. ASSUME NEW A \in SUBSET S, A \in Less, NEW x \in S \ A
      PROVE  A \union {x} \in Less
  <2>1. ASSUME NEW B \in SUBSET (A \union {x}) PROVE sum(B) <= sum(A \union {x})
    <3>1. CASE x \notin B
      <4>1. B \in SUBSET A
        BY <3>1
      <4>2. sum(B) <= sum(A)
        BY <1>6, <4>1
      <4>3. QED
        BY <1>2, <1>4, <4>1, <4>2
    <3>2. CASE x \in B
      <4>1. B \ {x} \in SUBSET A /\ (B \ {x}) \union {x} = B /\ x \in S \ (B \ {x})
        BY <3>2
      <4>2. sum(B \ {x}) <= sum(A)
        BY <1>6, <4>1
      <4>3. sum(B) = f[x] + sum(B \ {x})
        BY <1>2, <4>1
      <4>4. QED
        BY <1>2, <1>4, <4>1, <4>2, <4>3
    <3>3. QED
      BY <3>1, <3>2
  <2>2. QED
    BY <2>1
<1>7. S \in Less
  <2>1. \A A \in SUBSET S : A \in Less => \A x \in S \ A : A \union {x} \in Less
    BY <1>6
  <2> HIDE DEF Less
  <2>2. QED
    BY <1>5, <2>1, FiniteInduction
<1>8. QED
  BY <1>4, <1>7 DEF sum

LEMMA SumScaled ==
    ASSUME NEW S, IsFiniteSet(S), NEW f, NEW g, NEW a \in Nat, NEW b \in Nat,
           \A y \in S : f[y] \in Nat /\ g[y] \in Nat /\ a * f[y] <= b * g[y]
    PROVE  a * SumFunctionOnSet(f, S) <= b * SumFunctionOnSet(g, S)
<1> DEFINE F(A) == SumFunctionOnSet(f, A)
           G(A) == SumFunctionOnSet(g, A)
           Good == {A \in SUBSET S : a * F(A) <= b * G(A)}
<1>1. {} \in Good
  BY SumOfNone
<1>2. \A A \in SUBSET S : F(A) \in Nat /\ G(A) \in Nat
  <2>1. F(S) \in Int /\ G(S) \in Int
    BY SumType
  <2>2. (\A A \in SUBSET S : F(A) \in 0 .. F(S)) /\ (\A A \in SUBSET S : G(A) \in 0 .. G(S))
    BY SumOfNaturals
  <2> HIDE DEF F, G
  <2>3. QED
    BY <2>1, <2>2
<1>3. ASSUME NEW A \in SUBSET S, NEW x \in S \ A
      PROVE  F(A \union {x}) = f[x] + F(A) /\ G(A \union {x}) = g[x] + G(A)
  BY SumWith
<1> HIDE DEF F, G
<1>4. ASSUME NEW A \in SUBSET S, A \in Good, NEW x \in S \ A
      PROVE  A \union {x} \in Good
  <2>1. /\ a * (f[x] + F(A)) = a * f[x] + a * F(A)
        /\ b * (g[x] + G(A)) = b * g[x] + b * G(A)
        /\ a * f[x] \in Nat /\ a * F(A) \in Nat /\ b * g[x] \in Nat /\ b * G(A) \in Nat
    BY <1>2
  <2>2. a * f[x] + a * F(A) <= b * g[x] + b * G(A)
    <3>1. a * f[x] <= b * g[x] /\ a * F(A) <= b * G(A)
      BY <1>4
    <3>2. QED
      BY <2>1, <3>1
  <2>3. a * F(A \union {x}) <= b * G(A \union {x})
    BY <1>3, <2>1, <2>2
  <2>4. QED
    BY <2>3
<1>5. S \in Good
  <2>1. \A A \in SUBSET S : A \in Good => \A x \in S \ A : A \union {x} \in Good
    BY <1>4
  <2> HIDE DEF Good
  <2>2. QED
    BY <1>1, <2>1, FiniteInduction
<1>6. QED
  BY <1>5 DEF F, G

LEMMA SumScaledStrictly ==
    ASSUME NEW S, IsFiniteSet(S), NEW f, NEW g, NEW a \in Nat, NEW b \in Nat, NEW z \in S,
           \A y \in S : f[y] \in Nat /\ g[y] \in Nat /\ a * f[y] <= b * g[y],
           a * f[z] < b * g[z]
    PROVE  a * SumFunctionOnSet(f, S) < b * SumFunctionOnSet(g, S)
<1> DEFINE R == S \ {z}
           F == SumFunctionOnSet(f, R)
           G == SumFunctionOnSet(g, R)
<1>1. IsFiniteSet(R) /\ \A y \in R : f[y] \in Nat /\ g[y] \in Nat /\ a * f[y] <= b * g[y]
  BY FS_Subset
<1>2. F \in Nat /\ G \in Nat
  <2> HIDE DEF R
  <2>1. F \in Int /\ G \in Int /\ R \in SUBSET R
    BY <1>1, SumType
  <2>2. F \in 0 .. F /\ G \in 0 .. G
    BY <1>1, <2>1, SumOfNaturals
  <2> HIDE DEF F, G
  <2>3. QED
    BY <2>1, <2>2
<1>3. a * F <= b * G
  <2> HIDE DEF R
  <2>1. QED
    BY <1>1, SumScaled
<1>4. SumFunctionOnSet(f, S) = f[z] + F /\ SumFunctionOnSet(g, S) = g[z] + G
  BY SumWithout
<1> HIDE DEF F, G, R
<1>5. /\ a * (f[z] + F) = a * f[z] + a * F
      /\ b * (g[z] + G) = b * g[z] + b * G
      /\ a * f[z] \in Nat /\ a * F \in Nat /\ b * g[z] \in Nat /\ b * G \in Nat
  BY <1>2
<1>6. a * f[z] + a * F < b * g[z] + b * G
  BY <1>3, <1>5
<1>7. QED
  BY <1>4, <1>5, <1>6

LEMMA SumOfConstant ==
    ASSUME NEW S, IsFiniteSet(S), NEW f, NEW w \in Nat, \A y \in S : f[y] = w
    PROVE  SumFunctionOnSet(f, S) = w * Cardinality(S)
<1> DEFINE sum(A) == SumFunctionOnSet(f, A)
           Good == {A \in SUBSET S : sum(A) = w * Cardinality(A)}
<1>1. {} \in Good
  <2>1. Cardinality({}) = 0 /\ sum({}) = 0
    BY SumOfNone, FS_EmptySet
  <2>2. QED
    BY <2>1
<1>2. ASSUME NEW A \in SUBSET S, A \in Good, NEW x \in S \ A
      PROVE  A \union {x} \in Good
  <2>1. sum(A \union {x}) = w + sum(A)
    <3>1. sum(A \union {x}) = f[x] + sum(A)
      BY SumWith
    <3>2. QED
      BY <3>1
  <2>2. Cardinality(A) \in Nat /\ Cardinality(A \union {x}) = Cardinality(A) + 1
    BY FS_Subset, FS_AddElement, FS_CardinalityType
  <2>3. sum(A) = w * Cardinality(A)
    BY <1>2
  <2> HIDE DEF sum
  <2>4. w + w * Cardinality(A) = w * (Cardinality(A) + 1)
    BY <2>2
  <2>5. QED
    BY <2>1, <2>2, <2>3, <2>4
<1>3. S \in Good
  <2>1. \A A \in SUBSET S : A \in Good => \A x \in S \ A : A \union {x} \in Good
    BY <1>2
  <2> HIDE DEF Good
  <2>2. QED
    BY <1>1, <2>1, FiniteInduction
<1>4. QED
  BY <1>3

(* A finite set of positive numbers has a greatest member.                   *)
LEMMA MaxOfFinite ==
    ASSUME NEW S, IsFiniteSet(S), S \subseteq Nat \ {0}, S # {}
    PROVE  Max(S) \in S
<1> DEFINE Good == {A \in SUBSET S : \E n \in Nat : A \subseteq 1 .. n}
<1>1. {} \in Good
  OBVIOUS
<1>2. ASSUME NEW A \in SUBSET S, A \in Good, NEW x \in S \ A
      PROVE  A \union {x} \in Good
  <2>1. PICK n \in Nat : A \subseteq 1 .. n
    BY <1>2
  <2>2. CASE x <= n
    BY <2>1, <2>2
  <2>3. CASE ~(x <= n)
    <3>1. x \in Nat /\ A \union {x} \subseteq 1 .. x
      BY <2>1, <2>3
    <3>2. QED
      BY <3>1
  <2>4. QED
    BY <2>2, <2>3
<1>3. S \in Good
  <2>1. \A A \in SUBSET S : A \in Good => \A x \in S \ A : A \union {x} \in Good
    BY <1>2
  <2> HIDE DEF Good
  <2>2. QED
    BY <1>1, <2>1, FiniteInduction
<1>4. PICK n \in Nat : S \in SUBSET (1 .. n)
  BY <1>3
<1>5. QED
  BY <1>4, MaxIsMember

-----------------------------------------------------------------------------
(* The statuses, and the precedence lists of their sub statuses.             *)
(* The three statuses a summary computes differ.                             *)
LEMMA StatusesDiffer ==
    /\ StatusPassed # StatusFailed
    /\ StatusPassed # StatusSkipped
    /\ StatusFailed # StatusSkipped
BY Zenon DEF StatusPassed, StatusFailed, StatusSkipped

(* The sub statuses of each precedence list differ from one another and from *)
(* the unknown sub status.                                                   *)
LEMMA SubStatusesDiffer ==
    /\ SubStatusUnknown \notin {SubStatusException, SubStatusIncompleteCoverage,
            SubStatusIrrelevant, SubStatusNotEvaluated, SubStatusConfiguration,
            SubStatusIntegration, SubStatusRequiresReview, SubStatusManualReview}
    /\ SubStatusException \notin {SubStatusIncompleteCoverage, SubStatusIrrelevant}
    /\ SubStatusIncompleteCoverage # SubStatusIrrelevant
    /\ SubStatusNotEvaluated \notin {SubStatusConfiguration, SubStatusIntegration,
            SubStatusRequiresReview, SubStatusManualReview}
    /\ SubStatusConfiguration \notin {SubStatusIntegration, SubStatusRequiresReview,
            SubStatusManualReview}
    /\ SubStatusIntegration \notin {SubStatusRequiresReview, SubStatusManualReview}
    /\ SubStatusRequiresReview # SubStatusManualReview
BY Zenon DEF SubStatusUnknown, SubStatusException, SubStatusIncompleteCoverage,
             SubStatusIrrelevant, SubStatusNotEvaluated, SubStatusConfiguration,
             SubStatusIntegration, SubStatusRequiresReview, SubStatusManualReview

(* Summarising a set of sub statuses first loses nothing: what it is         *)
(* summarised to stands for the whole set in a later comparison.             *)
LEMMA FailedAbsorbs ==
    ASSUME NEW S, NEW x
    PROVE  FailedSubStatus({FailedSubStatus(S), x}) = FailedSubStatus(S \union {x})
BY SubStatusesDiffer DEF FailedSubStatus, Prefer

LEMMA PassedAbsorbs ==
    ASSUME NEW S, NEW x
    PROVE  PassedSubStatus({PassedSubStatus(S), x}) = PassedSubStatus(S \union {x})
BY SubStatusesDiffer DEF PassedSubStatus, Prefer

LEMMA SkippedAbsorbs ==
    ASSUME NEW S, NEW x
    PROVE  SkippedSubStatus({SkippedSubStatus(S), x}) = SkippedSubStatus(S \union {x})
BY SubStatusesDiffer DEF SkippedSubStatus, Prefer

(* The values of SubStatusFor are sub statuses.                              *)
LEMMA SubStatusForType == \A s, S : SubStatusFor(s, S) \in ScanningSubStatus
BY DEF SubStatusFor, FailedSubStatus, PassedSubStatus, SkippedSubStatus, Prefer,
       ScanningSubStatus

(* Comparing two sub statuses under one status picks the first of its list.  *)
LEMMA ComparedSubStatus ==
    ASSUME NEW st \in {StatusPassed, StatusFailed, StatusSkipped}, NEW a, NEW b
    PROVE  CompareStatusAndSubStatus(Info(st, a), Info(st, b)).sub = SubStatusFor(st, {a, b})
BY StatusesDiffer DEF CompareStatusAndSubStatus, Compare, Info

(* Of no sub statuses nothing is left.                                       *)
LEMMA SummaryOfNone == \A st : SubStatusFor(st, {}) = SubStatusUnknown
BY DEF SubStatusFor, FailedSubStatus, PassedSubStatus, SkippedSubStatus, Prefer
=============================================================================

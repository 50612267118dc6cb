------------------------------ MODULE DataFacts ------------------------------
(***************************************************************************)
(* What the proofs of several parts need of data: induction over numbers,  *)
(* finite sets and sequences, recursion, sums, concatenations and sets of  *)
(* numbers in order.  The library's induction theorems take an operator;   *)
(* here what is to be shown is a set, and the induction is that there is   *)
(* no least number outside of it.                                          *)
(***************************************************************************)
EXTENDS Integers, SequencesExt, FiniteSetsExt, WellFoundedInduction, FiniteSetTheorems, SequenceTheorems, TLAPS

LessThan == {pair \in Nat \X Nat : pair[1] < pair[2]}

\* Every set of natural numbers has a least element.
LEMMA LeastNumber ==
  ASSUME NEW T, T \subseteq Nat, T # {}
  PROVE  \E n \in T : \A m \in T : n <= m
<1>1. IsWellFoundedOn(LessThan, Nat)
  BY NatLessThanWellFounded, SMT DEF OpToRel, LessThan
<1>2. PICK n \in T : \A m \in T : ~(<<m, n>> \in LessThan)
  BY <1>1, WFMin
<1>3. \A m \in T : n <= m
  <2> TAKE m \in T
  <2>1. <<m, n>> \notin LessThan BY <1>2
  <2> QED BY <2>1 DEF LessThan
<1> QED BY <1>3

\* Induction over the natural numbers.
LEMMA NumbersInduct ==
  ASSUME NEW S, 0 \in S, \A n \in Nat : n \in S => n + 1 \in S
  PROVE  \A n \in Nat : n \in S
<1> DEFINE T == Nat \ S
<1>1. SUFFICES ASSUME T # {} PROVE FALSE OBVIOUS
<1>2. PICK n \in T : \A m \in T : n <= m BY <1>1, LeastNumber
<1>3. n # 0 /\ n - 1 \in Nat /\ n - 1 \notin T BY <1>2
<1> QED BY <1>2, <1>3

\* Induction over the subsets of a finite set.
LEMMA SetsInduct ==
  ASSUME NEW S, IsFiniteSet(S), NEW F, {} \in F,
         \A T \in SUBSET S : \A x \in S \ T : T \in F => T \cup {x} \in F
  PROVE  \A T \in SUBSET S : T \in F
<1> DEFINE N == {n \in Nat : \A T \in SUBSET S : Cardinality(T) = n => T \in F}
<1>1. \A T \in SUBSET S : IsFiniteSet(T) /\ Cardinality(T) \in Nat /\ (Cardinality(T) = 0 <=> T = {})
  BY FS_Subset, FS_CardinalityType, FS_EmptySet
<1>2. 0 \in N
  BY <1>1, FS_EmptySet
<1>3. ASSUME NEW n \in Nat, n \in N PROVE n + 1 \in N
  <2> SUFFICES ASSUME NEW T \in SUBSET S, Cardinality(T) = n + 1 PROVE T \in F
    OBVIOUS
  <2>1. T # {} BY <1>1
  <2>2. PICK x \in T : TRUE BY <2>1
  <2>3. IsFiniteSet(T) /\ Cardinality(T \ {x}) = Cardinality(T) - 1 BY <1>1, FS_RemoveElement, Zenon
  <2>4. T \ {x} \in F BY <1>3, <2>3 DEF N
  <2>5. (T \ {x}) \cup {x} \in F BY <2>4
  <2> QED BY <2>5
<1> HIDE DEF N
<1>4. \A n \in Nat : n \in N BY <1>2, <1>3, NumbersInduct
<1> QED BY <1>1, <1>4 DEF N

\* A recursion over the positions of a sequence has a solution.
StepsStay(n, V, Op) == \A k \in 1..n : \A v \in V : Op[<<k, v>>] \in V
Stepped(g, n, base, Op) == g[0] = base /\ \A k \in 1..n : g[k] = Op[<<k, g[k - 1]>>]

LEMMA RecursionOverPositions ==
  ASSUME NEW n \in Nat, NEW V, NEW base \in V, NEW Op, StepsStay(n, V, Op)
  PROVE  \E g \in [0..n -> V] : Stepped(g, n, base, Op)
<1> USE DEF StepsStay, Stepped
<1> DEFINE Solves(g, m) == g \in [0..m -> V] /\ g[0] = base /\ \A k \in 1..m : g[k] = Op[<<k, g[k - 1]>>]
           M == {m \in Nat : m <= n => \E g \in [0..m -> V] : Solves(g, m)}
<1>1. 0 \in M
  <2>1. Solves([k \in 0..0 |-> base], 0) OBVIOUS
  <2> QED BY <2>1
<1>2. ASSUME NEW m \in Nat, m \in M PROVE m + 1 \in M
  <2> SUFFICES ASSUME m + 1 <= n PROVE \E g \in [0..(m + 1) -> V] : Solves(g, m + 1)
    OBVIOUS
  <2>1. PICK g \in [0..m -> V] : Solves(g, m) BY <1>2
  <2> DEFINE h == [k \in 0..(m + 1) |-> IF k <= m THEN g[k] ELSE Op[<<m + 1, g[m]>>]]
  <2>2. h \in [0..(m + 1) -> V] BY <2>1
  <2>3. h[0] = base BY <2>1
  <2>4. ASSUME NEW k \in 1..(m + 1) PROVE h[k] = Op[<<k, h[k - 1]>>]
    <3>1. CASE k <= m BY <2>1, <3>1
    <3>2. CASE k = m + 1 BY <2>1, <3>2
    <3> QED BY <3>1, <3>2
  <2> QED BY <2>2, <2>3, <2>4
<1> HIDE DEF M
<1>3. \A m \in Nat : m \in M BY <1>1, <1>2, NumbersInduct
<1> QED BY <1>3 DEF M

\* A recursion that takes one element after another out of a finite set has one.
Recursion(S, V, base, pick, Op) ==
  /\ base \in V
  /\ \A T \in SUBSET S : T # {} => pick[T] \in T
  /\ \A x \in S : \A v \in V : Op[<<x, v>>] \in V
Solution(g, S, base, pick, Op) ==
  \A T \in SUBSET S : g[T] = IF T = {} THEN base ELSE Op[<<pick[T], g[T \ {pick[T]}]>>]

LEMMA RecursionOverSets ==
  ASSUME NEW S, IsFiniteSet(S), NEW V, NEW base, NEW pick, NEW Op, Recursion(S, V, base, pick, Op)
  PROVE  \E g \in [SUBSET S -> V] : Solution(g, S, base, pick, Op)
<1> USE DEF Recursion
<1> DEFINE Upto(n) == {T \in SUBSET S : Cardinality(T) <= n}
           Step(g, T) == IF T = {} THEN base ELSE Op[<<pick[T], g[T \ {pick[T]}]>>]
           N == {n \in Nat : \E g \in [Upto(n) -> V] : \A T \in Upto(n) : g[T] = Step(g, T)}
<1>1. \A T \in SUBSET S : IsFiniteSet(T) /\ Cardinality(T) \in Nat /\ (Cardinality(T) = 0 <=> T = {})
  BY FS_Subset, FS_CardinalityType, FS_EmptySet
<1>2. \A T \in SUBSET S : T # {} => /\ T \ {pick[T]} \in SUBSET S
                                    /\ Cardinality(T \ {pick[T]}) = Cardinality(T) - 1
  BY <1>1, FS_RemoveElement
<1>3. 0 \in N
  <2> DEFINE g == [T \in Upto(0) |-> base]
  <2>1. \A T \in Upto(0) : T = {} BY <1>1
  <2>2. g \in [Upto(0) -> V] OBVIOUS
  <2>3. \A T \in Upto(0) : g[T] = Step(g, T) BY <2>1
  <2> QED BY <2>2, <2>3
<1>4. ASSUME NEW n \in Nat, n \in N PROVE n + 1 \in N
  <2>1. PICK g \in [Upto(n) -> V] : \A T \in Upto(n) : g[T] = Step(g, T) BY <1>4
  <2> DEFINE h == [T \in Upto(n + 1) |-> IF T \in Upto(n) THEN g[T] ELSE Step(g, T)]
  <2>2. \A T \in Upto(n + 1) : T # {} => T \ {pick[T]} \in Upto(n)
    BY <1>1, <1>2
  <2>3. \A T \in Upto(n + 1) : Step(g, T) \in V
    BY <2>1, <2>2
  <2>4. h \in [Upto(n + 1) -> V] BY <2>1, <2>3
  <2>5. ASSUME NEW T \in Upto(n + 1) PROVE h[T] = Step(h, T)
    <3>1. h[T] = Step(g, T) BY <2>1
    <3>2. CASE T = {} BY <3>1, <3>2
    <3>3. CASE T # {}
      <4>1. T \ {pick[T]} \in Upto(n) /\ T \ {pick[T]} \in Upto(n + 1) BY <2>2, <3>3, <1>1
      <4>2. h[T \ {pick[T]}] = g[T \ {pick[T]}] BY <4>1
      <4> QED BY <3>1, <3>3, <4>2
    <3> QED BY <3>2, <3>3
  <2> HIDE DEF h
  <2>6. \E f \in [Upto(n + 1) -> V] : \A T \in Upto(n + 1) : f[T] = Step(f, T) BY <2>4, <2>5
  <2> HIDE DEF Upto, Step
  <2> QED BY <2>6 DEF N
<1> HIDE DEF N
<1>5. Cardinality(S) \in N BY <1>1, <1>3, <1>4, NumbersInduct
<1>6. PICK g \in [Upto(Cardinality(S)) -> V] : \A T \in Upto(Cardinality(S)) : g[T] = Step(g, T)
  BY <1>5 DEF N
<1>7. Upto(Cardinality(S)) = SUBSET S BY FS_Subset
<1>8. \A T \in SUBSET S : g[T] = Step(g, T) BY <1>6, <1>7
<1> QED BY <1>6, <1>7, <1>8 DEF Solution

-----------------------------------------------------------------------------
(* Sums.                                                                   *)

AnyOf(T) == CHOOSE x \in T : TRUE
AddsUp(g, f, S) == g = [T \in SUBSET S |-> IF T = {} THEN 0 ELSE f[AnyOf(T)] + g[T \ {AnyOf(T)}]]

LEMMA SumByChoice ==
  ASSUME NEW f, NEW S
  PROVE  SumFunctionOnSet(f, S) = (CHOOSE g : AddsUp(g, f, S))[S]
BY DEF SumFunctionOnSet, FoldFunctionOnSet, MapThenFoldSet, AddsUp, AnyOf

\* One function holds the sums over all subsets of a finite set.
LEMMA SumsAreOneFunction ==
  ASSUME NEW f, NEW S, IsFiniteSet(S), \A x \in S : f[x] \in Int
  PROVE  \E g \in [SUBSET S -> Int] : AddsUp(g, f, S) /\ \A T \in SUBSET S : SumFunctionOnSet(f, T) = g[T]
<1> DEFINE pick == [T \in SUBSET S |-> AnyOf(T)]
           Op == [p \in S \X Int |-> f[p[1]] + p[2]]
<1>1. \A T \in SUBSET S : T # {} => pick[T] \in T
  BY DEF AnyOf
<1>2. \A x \in S : \A v \in Int : Op[<<x, v>>] \in Int /\ Op[<<x, v>>] = f[x] + v
  OBVIOUS
<1>3. \A T \in SUBSET S : pick[T] = AnyOf(T)
  OBVIOUS
<1> HIDE DEF pick, Op
<1>4. PICK g \in [SUBSET S -> Int] :
        \A T \in SUBSET S : g[T] = IF T = {} THEN 0 ELSE Op[<<pick[T], g[T \ {pick[T]}]>>]
  <2>1. Recursion(S, Int, 0, pick, Op) BY <1>1, <1>2 DEF Recursion
  <2>2. \E g \in [SUBSET S -> Int] : Solution(g, S, 0, pick, Op) BY <2>1, RecursionOverSets, Zenon
  <2> QED BY <2>2 DEF Solution
<1>5. \A T \in SUBSET S : g[T] = IF T = {} THEN 0 ELSE f[AnyOf(T)] + g[T \ {AnyOf(T)}]
  <2> SUFFICES ASSUME NEW T \in SUBSET S, T # {} PROVE g[T] = f[AnyOf(T)] + g[T \ {AnyOf(T)}]
    BY <1>4
  <2>1. AnyOf(T) \in S /\ T \ {AnyOf(T)} \in SUBSET S BY <1>1, <1>3
  <2>2. g[T \ {AnyOf(T)}] \in Int BY <2>1
  <2> QED BY <1>2, <1>3, <1>4, <2>1, <2>2
<1>6. AddsUp(g, f, S)
  BY <1>5 DEF AddsUp
<1>7. ASSUME NEW T \in SUBSET S PROVE SumFunctionOnSet(f, T) = g[T]
  <2> DEFINE h == CHOOSE h : AddsUp(h, f, T)
             N == {n \in Nat : \A U \in SUBSET T : Cardinality(U) = n => h[U] = g[U]}
  <2>1. AddsUp([U \in SUBSET T |-> g[U]], f, T)
    <3> DEFINE r == [U \in SUBSET T |-> g[U]]
    <3>1. \A U \in SUBSET T : r[U] = IF U = {} THEN 0 ELSE f[AnyOf(U)] + r[U \ {AnyOf(U)}]
      <4> TAKE U \in SUBSET T
      <4>1. U \in SUBSET S /\ U \ {AnyOf(U)} \in SUBSET T OBVIOUS
      <4> QED BY <4>1, <1>5
    <3> QED BY <3>1 DEF AddsUp
  <2>2. AddsUp(h, f, T) BY <2>1
  <2>3. \A U \in SUBSET T : h[U] = IF U = {} THEN 0 ELSE f[AnyOf(U)] + h[U \ {AnyOf(U)}]
    BY <2>2 DEF AddsUp
  <2>4. SumFunctionOnSet(f, T) = h[T] BY SumByChoice
  <2> HIDE DEF h
  <2>5. \A U \in SUBSET T : IsFiniteSet(U) /\ Cardinality(U) \in Nat /\ (Cardinality(U) = 0 <=> U = {})
    BY FS_Subset, FS_CardinalityType, FS_EmptySet
  <2>6. 0 \in N BY <1>5, <2>3, <2>5
  <2>7. ASSUME NEW n \in Nat, n \in N PROVE n + 1 \in N
    <3> SUFFICES ASSUME NEW U \in SUBSET T, Cardinality(U) = n + 1 PROVE h[U] = g[U] OBVIOUS
    <3>1. U # {} BY <2>5
    <3>2. AnyOf(U) \in U BY <3>1 DEF AnyOf
    <3>3. Cardinality(U \ {AnyOf(U)}) = Cardinality(U) - 1 BY <2>5, <3>2, FS_RemoveElement, Zenon
    <3>4. Cardinality(U \ {AnyOf(U)}) = n BY <3>3
    <3>5. h[U \ {AnyOf(U)}] = g[U \ {AnyOf(U)}] BY <2>7, <3>4 DEF N
    <3> QED BY <1>5, <2>3, <3>1, <3>5
  <2> HIDE DEF N
  <2>8. \A n \in Nat : n \in N BY <2>6, <2>7, NumbersInduct
  <2>9. h[T] = g[T] BY <2>5, <2>8 DEF N
  <2> QED BY <2>4, <2>9
<1> QED BY <1>6, <1>7

\* The sum over the empty set, and what any one element adds.
Summable(f, S) == IsFiniteSet(S) /\ \A x \in S : f[x] \in Int

LEMMA SumOfElement ==
  ASSUME NEW f, NEW S, Summable(f, S)
  PROVE  /\ SumFunctionOnSet(f, {}) = 0 /\ SumFunctionOnSet(f, S) \in Int
         /\ \A x \in S : SumFunctionOnSet(f, S) = f[x] + SumFunctionOnSet(f, S \ {x})
<1>1. PICK g \in [SUBSET S -> Int] : AddsUp(g, f, S) /\ \A T \in SUBSET S : SumFunctionOnSet(f, T) = g[T]
  BY SumsAreOneFunction DEF Summable
<1> USE DEF Summable
<1>2. \A T \in SUBSET S : g[T] = IF T = {} THEN 0 ELSE f[AnyOf(T)] + g[T \ {AnyOf(T)}]
  BY <1>1 DEF AddsUp
<1> DEFINE N == {n \in Nat : \A T \in SUBSET S : \A x \in T : Cardinality(T) = n => g[T] = f[x] + g[T \ {x}]}
<1>3. \A T \in SUBSET S : IsFiniteSet(T) /\ Cardinality(T) \in Nat /\ (Cardinality(T) = 0 <=> T = {})
  BY FS_Subset, FS_CardinalityType, FS_EmptySet
<1>4. 0 \in N BY <1>3
<1>5. ASSUME NEW n \in Nat, n \in N PROVE n + 1 \in N
  <2> SUFFICES ASSUME NEW T \in SUBSET S, NEW x \in T, Cardinality(T) = n + 1 PROVE g[T] = f[x] + g[T \ {x}]
    OBVIOUS
  <2> DEFINE y == AnyOf(T)
  <2>1. y \in T /\ g[T] = f[y] + g[T \ {y}] BY <1>2 DEF AnyOf
  <2> HIDE DEF y
  <2>2. CASE x = y BY <2>1, <2>2
  <2>3. CASE x # y
    <3>1. T \ {y} \in SUBSET S /\ x \in T \ {y} /\ T \ {x} \in SUBSET S /\ y \in T \ {x} BY <2>1, <2>3
    <3>2. Cardinality(T \ {y}) = Cardinality(T) - 1 BY <1>3, <2>1, FS_RemoveElement, Zenon
    <3>3. Cardinality(T \ {x}) = Cardinality(T) - 1 BY <1>3, FS_RemoveElement, Zenon
    <3>4. Cardinality(T \ {x}) = n /\ Cardinality(T \ {y}) = n BY <3>2, <3>3
    <3>5. g[T \ {y}] = f[x] + g[(T \ {y}) \ {x}] BY <1>5, <3>1, <3>4 DEF N
    <3>6. g[T \ {x}] = f[y] + g[(T \ {x}) \ {y}] BY <1>5, <3>1, <3>4 DEF N
    <3>7. (T \ {y}) \ {x} = (T \ {x}) \ {y} OBVIOUS
    <3>8. f[x] \in Int /\ f[y] \in Int /\ g[(T \ {x}) \ {y}] \in Int BY <2>1
    <3>9. g[T \ {y}] = f[x] + g[(T \ {x}) \ {y}] BY <3>5, <3>7
    <3> HIDE DEF N
    <3> DEFINE rest == g[(T \ {x}) \ {y}]
               without == g[T \ {y}]
               other == g[T \ {x}]
    <3>10. rest \in Int /\ without = f[x] + rest /\ other = f[y] + rest /\ g[T] = f[y] + without
      BY <2>1, <3>6, <3>8, <3>9
    <3> HIDE DEF rest, without, other
    <3>11. g[T] = f[x] + other BY <3>8, <3>10
    <3> QED BY <3>11 DEF other
  <2> QED BY <2>2, <2>3
<1> HIDE DEF N
<1>6. Cardinality(S) \in N BY <1>3, <1>4, <1>5, NumbersInduct
<1>7. \A x \in S : g[S] = f[x] + g[S \ {x}] BY <1>6 DEF N
<1>8. g[{}] = 0 BY <1>2
<1> QED BY <1>1, <1>7, <1>8

\* What is added to a sum of natural numbers does not make it smaller.
LEMMA SumIsMonotone ==
  ASSUME NEW f, NEW S, IsFiniteSet(S), \A x \in S : f[x] \in Nat
  PROVE  \A T \in SUBSET S : SumFunctionOnSet(f, T) \in Nat /\ SumFunctionOnSet(f, T) <= SumFunctionOnSet(f, S)
<1> DEFINE Less(T, U) == SumFunctionOnSet(f, T) \in Nat /\ SumFunctionOnSet(f, T) <= SumFunctionOnSet(f, U)
           F == {U \in SUBSET S : SumFunctionOnSet(f, U) \in Nat /\ \A T \in SUBSET U : Less(T, U)}
<1>1. \A U \in SUBSET S : Summable(f, U) BY FS_Subset DEF Summable
<1>2. {} \in F
  <2>1. SumFunctionOnSet(f, {}) = 0 BY <1>1, SumOfElement
  <2> QED BY <2>1
<1>3. ASSUME NEW U \in SUBSET S, NEW x \in S \ U, U \in F PROVE U \cup {x} \in F
  <2> DEFINE W == U \cup {x}
  <2>1. W \in SUBSET S /\ x \in W /\ W \ {x} = U OBVIOUS
  <2>2. SumFunctionOnSet(f, W) = f[x] + SumFunctionOnSet(f, W \ {x}) BY <1>1, <2>1, SumOfElement
  <2>3. SumFunctionOnSet(f, U) \in Nat /\ f[x] \in Nat BY <1>3
  <2>4. SumFunctionOnSet(f, W) = f[x] + SumFunctionOnSet(f, U) BY <2>1, <2>2
  <2>5. ASSUME NEW T \in SUBSET W PROVE Less(T, W)
    <3>1. CASE x \in T
      <4>1. SumFunctionOnSet(f, T) = f[x] + SumFunctionOnSet(f, T \ {x}) BY <1>1, <2>1, <3>1, SumOfElement
      <4>2. T \ {x} \in SUBSET U OBVIOUS
      <4>3. Less(T \ {x}, U) BY <1>3, <4>2
      <4> QED BY <2>3, <2>4, <4>1, <4>3
    <3>2. CASE x \notin T
      <4>1. Less(T, U) BY <1>3, <3>2
      <4> QED BY <2>3, <2>4, <4>1
    <3> QED BY <3>1, <3>2
  <2> QED BY <2>1, <2>3, <2>4, <2>5
<1> HIDE DEF F
<1>4. S \in F BY <1>2, <1>3, SetsInduct
<1> QED BY <1>4 DEF F

-----------------------------------------------------------------------------
(* Sequences.                                                              *)

\* Induction over sequences.
LEMMA SequencesInduct ==
  ASSUME NEW E, NEW F, <<>> \in F, \A s \in Seq(E) : \A e \in E : s \in F => Append(s, e) \in F
  PROVE  \A s \in Seq(E) : s \in F
<1> DEFINE N == {n \in Nat : \A s \in Seq(E) : Len(s) = n => s \in F}
<1>1. 0 \in N
  <2> SUFFICES ASSUME NEW s \in Seq(E), Len(s) = 0 PROVE s \in F OBVIOUS
  <2>1. s = <<>> BY EmptySeq
  <2> QED BY <2>1
<1>2. ASSUME NEW n \in Nat, n \in N PROVE n + 1 \in N
  <2> SUFFICES ASSUME NEW s \in Seq(E), Len(s) = n + 1 PROVE s \in F OBVIOUS
  <2>1. s # <<>> OBVIOUS
  <2>2. PICK t \in Seq(E), e \in E : s = Append(t, e) BY <2>1, SequenceEmptyOrAppend
  <2>3. Len(t) = n BY <2>2
  <2> QED BY <1>2, <2>2, <2>3
<1> HIDE DEF N
<1>3. \A n \in Nat : n \in N BY <1>1, <1>2, NumbersInduct
<1> QED BY <1>3, LenProperties DEF N

\* What the elements of a sequence weigh together.
Weigh(w, s) == SumFunction([n \in DOMAIN s |-> w[s[n]]])
Weighed(w, E) == \A e \in E : w[e] \in Int

LEMMA SumsAgree ==
  ASSUME NEW f, NEW h, NEW S, IsFiniteSet(S), \A x \in S : f[x] \in Int /\ h[x] = f[x]
  PROVE  SumFunctionOnSet(h, S) = SumFunctionOnSet(f, S)
<1> DEFINE F == {T \in SUBSET S : SumFunctionOnSet(h, T) = SumFunctionOnSet(f, T)}
<1>1. {} \in F
  BY SumOfElement, FS_EmptySet DEF Summable
<1>2. ASSUME NEW T \in SUBSET S, NEW x \in S \ T, T \in F PROVE T \cup {x} \in F
  <2> DEFINE U == T \cup {x}
  <2>1. IsFiniteSet(U) /\ U \in SUBSET S /\ x \in U /\ U \ {x} = T BY FS_Subset
  <2>2. Summable(f, U) /\ Summable(h, U) /\ x \in U BY <2>1 DEF Summable
  <2> HIDE DEF U
  <2>3. SumFunctionOnSet(f, U) = f[x] + SumFunctionOnSet(f, U \ {x}) BY <2>2, SumOfElement
  <2>4. SumFunctionOnSet(h, U) = h[x] + SumFunctionOnSet(h, U \ {x}) BY <2>2, SumOfElement
  <2>5. SumFunctionOnSet(f, T) \in Int /\ f[x] \in Int /\ h[x] = f[x]
    <3>1. Summable(f, T) BY FS_Subset DEF Summable
    <3> QED BY <3>1, SumOfElement
  <2>6. SumFunctionOnSet(h, U) = SumFunctionOnSet(f, U)
    BY <1>2, <2>1, <2>3, <2>4, <2>5
  <2> QED BY <2>1, <2>6 DEF U
<1> HIDE DEF F
<1>3. S \in F BY <1>1, <1>2, SetsInduct
<1> QED BY <1>3 DEF F

LEMMA WeightOfAppended ==
  ASSUME NEW E, NEW w, Weighed(w, E), NEW s \in Seq(E), NEW e \in E
  PROVE  /\ Weigh(w, <<>>) = 0 /\ Weigh(w, s) \in Int
         /\ Weigh(w, Append(s, e)) = Weigh(w, s) + w[e]
<1> DEFINE f == [n \in DOMAIN s |-> w[s[n]]]
           t == Append(s, e)
           h == [n \in DOMAIN t |-> w[t[n]]]
           last == Len(s) + 1
<1>1. DOMAIN s = 1..Len(s) /\ DOMAIN t = 1..last /\ last \in Nat /\ Len(s) \in Nat
  OBVIOUS
<1>2. \A n \in DOMAIN s : f[n] \in Int /\ h[n] = f[n]
  BY ElementOfSeq DEF Weighed
<1>3. h[last] = w[e] /\ w[e] \in Int
  BY DEF Weighed
<1>4. DOMAIN f = DOMAIN s /\ DOMAIN h = DOMAIN t
  OBVIOUS
<1>5. Weigh(w, s) = SumFunctionOnSet(f, DOMAIN s) /\ Weigh(w, t) = SumFunctionOnSet(h, DOMAIN t)
  BY <1>4 DEF Weigh, SumFunction
<1> HIDE DEF f, h, t, last
<1>6. IsFiniteSet(DOMAIN s) /\ IsFiniteSet(DOMAIN t) /\ last \in DOMAIN t /\ (DOMAIN t) \ {last} = DOMAIN s
  <2>1. IsFiniteSet(1..Len(s)) /\ IsFiniteSet(1..last) BY <1>1, FS_Interval
  <2>2. last \in 1..last /\ (1..last) \ {last} = 1..Len(s) BY <1>1 DEF last
  <2> QED BY <1>1, <2>1, <2>2
<1>7. \A n \in DOMAIN t : h[n] \in Int
  BY <1>1, <1>2, <1>3 DEF last
<1>8. SumFunctionOnSet(h, DOMAIN t) = h[last] + SumFunctionOnSet(h, (DOMAIN t) \ {last})
  <2>1. Summable(h, DOMAIN t) /\ last \in DOMAIN t BY <1>6, <1>7 DEF Summable
  <2> QED BY <2>1, SumOfElement
<1>9. SumFunctionOnSet(h, DOMAIN s) = SumFunctionOnSet(f, DOMAIN s)
  BY <1>2, <1>6, SumsAgree, Zenon
<1>10. SumFunctionOnSet(f, DOMAIN s) \in Int
  <2>1. Summable(f, DOMAIN s) BY <1>2, <1>6 DEF Summable
  <2> QED BY <2>1, SumOfElement, Zenon
<1>11. Weigh(w, <<>>) = 0
  <2> DEFINE g == [n \in DOMAIN <<>> |-> w[<<>>[n]]]
  <2>1. DOMAIN g = {} OBVIOUS
  <2>2. Weigh(w, <<>>) = SumFunctionOnSet(g, {}) BY <2>1 DEF Weigh, SumFunction
  <2> HIDE DEF g
  <2>3. SumFunctionOnSet(g, {}) = 0 BY SumOfElement, FS_EmptySet DEF Summable
  <2> QED BY <2>2, <2>3
<1>12. Weigh(w, t) = Weigh(w, s) + w[e]
  BY <1>3, <1>5, <1>6, <1>8, <1>9, <1>10
<1> QED BY <1>5, <1>10, <1>11, <1>12 DEF t

LEMMA WeightOfJoined ==
  ASSUME NEW E, NEW w, Weighed(w, E), NEW s \in Seq(E), NEW t \in Seq(E)
  PROVE  Weigh(w, s \o t) = Weigh(w, s) + Weigh(w, t)
<1> DEFINE F == {u \in Seq(E) : Weigh(w, u) \in Int /\ Weigh(w, s \o u) = Weigh(w, s) + Weigh(w, u)}
<1>1. E = {} \/ E # {} OBVIOUS
<1>2. CASE E = {}
  <2>1. s = <<>> /\ t = <<>> /\ s \o t = <<>> BY <1>2
  <2>2. Weigh(w, <<>>) = 0
    <3>1. Weighed([x \in {0} |-> 0], {0}) BY DEF Weighed
    <3> DEFINE g == [n \in DOMAIN <<>> |-> w[<<>>[n]]]
    <3>2. DOMAIN g = {} OBVIOUS
    <3>3. Weigh(w, <<>>) = SumFunctionOnSet(g, {}) BY <3>2 DEF Weigh, SumFunction
    <3> HIDE DEF g
    <3>4. SumFunctionOnSet(g, {}) = 0 BY SumOfElement, FS_EmptySet DEF Summable
    <3> QED BY <3>3, <3>4
  <2> QED BY <2>1, <2>2
<1>3. CASE E # {}
  <2>1. PICK any \in E : TRUE BY <1>3
  <2>2. \A u \in Seq(E) : Weigh(w, u) \in Int /\ Weigh(w, <<>>) = 0
    BY <2>1, WeightOfAppended
  <2>3. <<>> \in F
    <3>1. s \o <<>> = s OBVIOUS
    <3> QED BY <2>2, <3>1
  <2>4. ASSUME NEW u \in Seq(E), NEW e \in E, u \in F PROVE Append(u, e) \in F
    <3>1. s \o Append(u, e) = Append(s \o u, e)
      BY ConcatAssociative, AppendIsConcat
    <3>2. s \o u \in Seq(E) /\ Append(u, e) \in Seq(E) OBVIOUS
    <3>3. Weigh(w, Append(u, e)) = Weigh(w, u) + w[e] BY WeightOfAppended
    <3>4. Weigh(w, Append(s \o u, e)) = Weigh(w, s \o u) + w[e] BY <3>2, WeightOfAppended
    <3>5. w[e] \in Int BY DEF Weighed
    <3>6. Weigh(w, u) \in Int /\ Weigh(w, s) \in Int /\ Weigh(w, Append(u, e)) \in Int BY <2>2, <3>2
    <3>7. Weigh(w, s \o u) = Weigh(w, s) + Weigh(w, u) BY <2>4
    <3>8. Weigh(w, s \o Append(u, e)) = Weigh(w, s) + Weigh(w, Append(u, e))
      BY <3>1, <3>3, <3>4, <3>5, <3>6, <3>7
    <3> QED BY <3>2, <3>6, <3>8
  <2> HIDE DEF F
  <2>5. t \in F BY <2>3, <2>4, SequencesInduct
  <2> QED BY <2>5 DEF F
<1> QED BY <1>1, <1>2, <1>3

LEMMA WeightIsNat ==
  ASSUME NEW E, NEW w, \A e \in E : w[e] \in Nat, NEW s \in Seq(E)
  PROVE  Weigh(w, s) \in Nat
<1> DEFINE F == {u \in Seq(E) : Weigh(w, u) \in Nat}
<1>1. Weighed(w, E) BY DEF Weighed
<1>2. <<>> \in F
  <2> DEFINE g == [n \in DOMAIN <<>> |-> w[<<>>[n]]]
  <2>1. DOMAIN g = {} OBVIOUS
  <2>2. Weigh(w, <<>>) = SumFunctionOnSet(g, {}) BY <2>1 DEF Weigh, SumFunction
  <2> HIDE DEF g
  <2>3. SumFunctionOnSet(g, {}) = 0 BY SumOfElement, FS_EmptySet DEF Summable
  <2> QED BY <2>2, <2>3
<1>3. ASSUME NEW u \in Seq(E), NEW e \in E, u \in F PROVE Append(u, e) \in F
  BY <1>1, <1>3, WeightOfAppended
<1> HIDE DEF F
<1>4. s \in F BY <1>2, <1>3, SequencesInduct
<1> QED BY <1>4 DEF F

-----------------------------------------------------------------------------
(* Concatenations.                                                         *)

Joins(g, seqs, n) ==
  g[0] = <<>> /\ \A k \in 1..n : g[k] = g[k - 1] \o seqs[k]
Flatten(f, seqs, n) ==
  f = [i \in 1..n |-> IF i = 1 THEN seqs[i] ELSE f[i - 1] \o seqs[i]]

LEMMA SequencesOfSequences ==
  ASSUME NEW E, NEW seqs \in Seq(Seq(E))
  PROVE  Len(seqs) \in Nat /\ DOMAIN seqs = 1..Len(seqs) /\ \A k \in 1..Len(seqs) : seqs[k] \in Seq(E)
  BY ElementOfSeq, LenProperties

LEMMA JoinExists ==
  ASSUME NEW E, NEW n \in Nat, NEW seqs, \A k \in 1..n : seqs[k] \in Seq(E)
  PROVE  \E g \in [0..n -> Seq(E)] : Joins(g, seqs, n)
<1> DEFINE V == Seq(E)
           Op == [p \in (1..n) \X V |-> p[2] \o seqs[p[1]]]
<1>1. <<>> \in V OBVIOUS
<1>2. \A k \in 1..n : \A v \in V : Op[<<k, v>>] = v \o seqs[k] /\ Op[<<k, v>>] \in V
  BY ConcatProperties
<1> HIDE DEF Op
<1>3. PICK g \in [0..n -> V] : Stepped(g, n, <<>>, Op)
  <2> HIDE DEF V
  <2>1. \A k \in 1..n : \A v \in V : Op[<<k, v>>] \in V BY <1>2
  <2>2. StepsStay(n, V, Op) BY <2>1 DEF StepsStay
  <2> QED BY <1>1, <2>2, RecursionOverPositions
<1>4. \A k \in 1..n : g[k - 1] \in V
  BY <1>3
<1>5. \A k \in 1..n : g[k] = g[k - 1] \o seqs[k]
  BY <1>2, <1>3, <1>4 DEF Stepped
<1> QED BY <1>3, <1>5 DEF Joins, Stepped

\* FlattenSeq by its prefixes.
LEMMA FlattenIsJoin ==
  ASSUME NEW E, NEW seqs \in Seq(Seq(E)), NEW n, n = Len(seqs), NEW g \in [0..n -> Seq(E)], Joins(g, seqs, n)
  PROVE  FlattenSeq(seqs) = g[n]
<1>1. n \in Nat /\ \A k \in 1..n : seqs[k] \in Seq(E)
  BY SequencesOfSequences
<1>2. CASE n = 0
  <2>1. seqs = <<>> BY <1>2, EmptySeq
  <2> QED BY <1>2, <2>1 DEF FlattenSeq, Joins
<1>3. CASE n # 0
  <2> DEFINE flat == CHOOSE f : Flatten(f, seqs, n)
             h == [i \in 1..n |-> g[i]]
  <2>1. FlattenSeq(seqs) = flat[n] BY <1>3 DEF FlattenSeq, Flatten
  <2>2. ASSUME NEW i \in 1..n PROVE /\ i = 1 => g[i] = seqs[i]
                                    /\ i # 1 => g[i] = h[i - 1] \o seqs[i]
    <3>1. g[i] = g[i - 1] \o seqs[i] BY DEF Joins
    <3>2. CASE i = 1
      <4>1. g[1] = <<>> \o seqs[1]
        <5>1. i - 1 = 0 /\ g[0] = <<>> BY <3>2 DEF Joins
        <5> QED BY <3>1, <3>2, <5>1
      <4>2. <<>> \o seqs[1] = seqs[1] BY <1>1, <3>2, ConcatEmptySeq
      <4> QED BY <3>2, <4>1, <4>2
    <3>3. CASE i # 1
      <4>1. i - 1 \in 1..n BY <1>1, <3>3
      <4> QED BY <3>1, <3>3, <4>1
    <3> QED BY <3>2, <3>3
  <2>3. \A i \in 1..n : g[i] = IF i = 1 THEN seqs[i] ELSE h[i - 1] \o seqs[i] BY <2>2
  <2>4. h = [i \in 1..n |-> IF i = 1 THEN seqs[i] ELSE h[i - 1] \o seqs[i]]
    BY <2>3
  <2>5. Flatten(h, seqs, n) BY <2>4 DEF Flatten
  <2> HIDE DEF h
  <2>6. Flatten(flat, seqs, n) BY <2>5
  <2> HIDE DEF flat
  <2>7. flat = [i \in 1..n |-> IF i = 1 THEN seqs[i] ELSE flat[i - 1] \o seqs[i]] BY <2>6 DEF Flatten
  <2>8. \A i \in 1..n : flat[i] = IF i = 1 THEN seqs[i] ELSE flat[i - 1] \o seqs[i] BY <2>7, Zenon
  <2>9. \A i \in 1..n : g[i] = IF i = 1 THEN seqs[i] ELSE g[i - 1] \o seqs[i]
    <3> TAKE i \in 1..n
    <3>1. i # 1 => i - 1 \in 1..n BY <1>1
    <3>2. i # 1 => h[i - 1] = g[i - 1] BY <3>1 DEF h
    <3> QED BY <2>3, <3>2
  <2> DEFINE N == {m \in Nat : m + 1 \in 1..n => flat[m + 1] = g[m + 1]}
  <2>10. 0 \in N
    <3>1. 1 \in 1..n BY <1>1, <1>3
    <3>2. flat[1] = g[1] BY <2>8, <2>9, <3>1
    <3> QED BY <3>2
  <2>11. ASSUME NEW m \in Nat, m \in N PROVE m + 1 \in N
    <3> SUFFICES ASSUME m + 2 \in 1..n PROVE flat[m + 2] = g[m + 2] OBVIOUS
    <3>1. m + 1 \in 1..n /\ m + 2 # 1 /\ (m + 2) - 1 = m + 1 BY <1>1
    <3>2. flat[m + 1] = g[m + 1] BY <2>11, <3>1
    <3>3. flat[m + 2] = flat[m + 1] \o seqs[m + 2] BY <2>8, <3>1
    <3>4. g[m + 2] = g[m + 1] \o seqs[m + 2] BY <2>9, <3>1
    <3> QED BY <3>2, <3>3, <3>4
  <2> HIDE DEF N
  <2>12. \A m \in Nat : m \in N BY <2>10, <2>11, NumbersInduct
  <2>13. n - 1 \in N /\ (n - 1) + 1 = n /\ n \in 1..n BY <1>1, <1>3, <2>12
  <2>14. flat[n] = g[n] BY <2>13 DEF N
  <2> QED BY <2>1, <2>14
<1> QED BY <1>1, <1>2, <1>3

LEMMA FlattenAppended ==
  ASSUME NEW E, NEW seqs \in Seq(Seq(E)), NEW t \in Seq(E)
  PROVE  /\ FlattenSeq(<<>>) = <<>> /\ FlattenSeq(seqs) \in Seq(E)
         /\ FlattenSeq(Append(seqs, t)) = FlattenSeq(seqs) \o t
<1> DEFINE n == Len(seqs)
           all == Append(seqs, t)
           m == n + 1
<1>1. /\ n \in Nat /\ m \in Nat /\ n = Len(seqs) /\ all \in Seq(Seq(E)) /\ m = Len(all) /\ all[m] = t /\ m = n + 1
      /\ \A k \in 1..n : all[k] = seqs[k]
  BY AppendProperties, LenProperties
<1>2. \A k \in 1..m : all[k] \in Seq(E)
  BY <1>1, SequencesOfSequences
<1> HIDE DEF all, n, m
<1>3. PICK g \in [0..m -> Seq(E)] : Joins(g, all, m)
  BY <1>1, <1>2, JoinExists
<1>4. FlattenSeq(all) = g[m]
  BY <1>1, <1>3, FlattenIsJoin
<1>5. g[m] = g[n] \o t
  <2>1. m \in 1..m /\ m - 1 = n BY <1>1
  <2> QED BY <1>1, <1>3, <2>1 DEF Joins
<1> DEFINE h == [k \in 0..n |-> g[k]]
<1>6. h \in [0..n -> Seq(E)] /\ h[n] = g[n]
  BY <1>1, <1>3
<1>7. Joins(h, seqs, n)
  <2>1. h[0] = <<>> BY <1>1, <1>3 DEF Joins
  <2>2. ASSUME NEW k \in 1..n PROVE h[k] = h[k - 1] \o seqs[k]
    <3>1. k \in 1..m /\ k \in 0..n /\ k - 1 \in 0..n BY <1>1
    <3>2. g[k] = g[k - 1] \o all[k] BY <1>3, <3>1 DEF Joins
    <3> QED BY <1>1, <3>1, <3>2
  <2> HIDE DEF h
  <2> QED BY <2>1, <2>2 DEF Joins
<1> HIDE DEF h
<1>8. FlattenSeq(seqs) = g[n]
  BY <1>1, <1>6, <1>7, FlattenIsJoin
<1>9. g[n] \in Seq(E) BY <1>1, <1>3
<1>10. FlattenSeq(<<>>) = <<>> BY DEF FlattenSeq
<1> QED BY <1>4, <1>5, <1>8, <1>9, <1>10 DEF all

\* What a concatenation holds.
LEMMA RangeOfFlattened ==
  ASSUME NEW E, NEW seqs \in Seq(Seq(E))
  PROVE  Range(FlattenSeq(seqs)) = UNION {Range(seqs[k]) : k \in DOMAIN seqs}
<1> DEFINE F == {ss \in Seq(Seq(E)) : Range(FlattenSeq(ss)) = UNION {Range(ss[k]) : k \in DOMAIN ss}}
<1>1. <<>> \in F
  <2>1. FlattenSeq(<<>>) = <<>> BY DEF FlattenSeq
  <2> QED BY <2>1 DEF Range
<1>2. ASSUME NEW ss \in Seq(Seq(E)), NEW t \in Seq(E), ss \in F PROVE Append(ss, t) \in F
  <2> DEFINE all == Append(ss, t)
             n == Len(ss)
  <2>1. FlattenSeq(all) = FlattenSeq(ss) \o t /\ FlattenSeq(ss) \in Seq(E) BY FlattenAppended
  <2>2. Range(FlattenSeq(all)) = Range(FlattenSeq(ss)) \cup Range(t) BY <2>1, RangeConcatenation
  <2>3. /\ DOMAIN all = 1..(n + 1) /\ DOMAIN ss = 1..n /\ all[n + 1] = t
        /\ \A k \in 1..n : all[k] = ss[k]
        /\ all \in Seq(Seq(E)) /\ n \in Nat
    BY AppendProperties, LenProperties
  <2> HIDE DEF all, n
  <2>4. 1..(n + 1) = (1..n) \cup {n + 1} BY <2>3
  <2>5. UNION {Range(all[k]) : k \in DOMAIN all} = (UNION {Range(ss[k]) : k \in DOMAIN ss}) \cup Range(t)
    BY <2>3, <2>4
  <2>6. Range(FlattenSeq(all)) = UNION {Range(all[k]) : k \in DOMAIN all} BY <1>2, <2>2, <2>5
  <2> QED BY <2>3, <2>6 DEF all
<1> HIDE DEF F
<1>3. seqs \in F BY <1>1, <1>2, SequencesInduct
<1> QED BY <1>3 DEF F

LEMMA FlattenConsed ==
  ASSUME NEW E, NEW seqs \in Seq(Seq(E)), NEW t \in Seq(E)
  PROVE  FlattenSeq(<<t>> \o seqs) = t \o FlattenSeq(seqs)
<1> DEFINE F == {ss \in Seq(Seq(E)) : FlattenSeq(<<t>> \o ss) = t \o FlattenSeq(ss)}
<1>1. <<>> \in F
  <2>1. <<t>> \o <<>> = Append(<<>>, t) /\ <<>> \in Seq(Seq(E)) OBVIOUS
  <2>2. FlattenSeq(Append(<<>>, t)) = FlattenSeq(<<>>) \o t /\ FlattenSeq(<<>>) = <<>> BY <2>1, FlattenAppended
  <2>3. <<>> \o t = t /\ t \o <<>> = t BY ConcatEmptySeq
  <2> QED BY <2>1, <2>2, <2>3
<1>2. ASSUME NEW ss \in Seq(Seq(E)), NEW u \in Seq(E), ss \in F PROVE Append(ss, u) \in F
  <2>1. <<t>> \in Seq(Seq(E)) /\ <<t>> \o ss \in Seq(Seq(E)) OBVIOUS
  <2>2. <<t>> \o Append(ss, u) = Append(<<t>> \o ss, u)
    BY <2>1, ConcatAssociative, AppendIsConcat
  <2>3. FlattenSeq(Append(<<t>> \o ss, u)) = FlattenSeq(<<t>> \o ss) \o u
    BY <2>1, FlattenAppended
  <2>4. FlattenSeq(Append(ss, u)) = FlattenSeq(ss) \o u /\ FlattenSeq(ss) \in Seq(E)
    BY FlattenAppended
  <2>5. (t \o FlattenSeq(ss)) \o u = t \o (FlattenSeq(ss) \o u)
    BY <2>4, ConcatAssociative
  <2>6. Append(ss, u) \in Seq(Seq(E)) OBVIOUS
  <2> QED BY <1>2, <2>2, <2>3, <2>4, <2>5, <2>6
<1> HIDE DEF F
<1>3. seqs \in F BY <1>1, <1>2, SequencesInduct
<1> QED BY <1>3 DEF F

-----------------------------------------------------------------------------
(* Sequences of numbers in order.                                          *)

Ascending(s) == \A a, b \in DOMAIN s : a < b => s[a] < s[b]

LEMMA AscendingFirst ==
  ASSUME NEW E, NEW s \in Seq(E), NEW t \in Seq(E), Ascending(s \o t)
  PROVE  Ascending(s) /\ Range(s) \subseteq Range(s \o t)
<1>1. \A n \in DOMAIN s : n \in DOMAIN (s \o t) /\ (s \o t)[n] = s[n]
  BY ConcatProperties, LenProperties
<1> QED BY <1>1 DEF Ascending, Range

\* Taking an element out.
Numbers(E) == E \subseteq Nat

LEMMA AscendingWithout ==
  ASSUME NEW E, Numbers(E), NEW s \in Seq(E), NEW x \in E, NEW t \in Seq(E),
         Ascending(s \o (<<x>> \o t))
  PROVE  /\ Ascending(s \o t) /\ x \notin Range(s \o t)
         /\ Range(s \o (<<x>> \o t)) = Range(s \o t) \cup {x}
<1> USE DEF Numbers
<1> DEFINE u == s \o (<<x>> \o t)
           v == s \o t
           m == Len(s)
           n == Len(t)
           To(k) == IF k <= m THEN k ELSE k + 1
<1>1. /\ m \in Nat /\ n \in Nat /\ DOMAIN u = 1..(m + 1 + n) /\ DOMAIN v = 1..(m + n)
      /\ u \in Seq(E) /\ v \in Seq(E)
  BY ConcatProperties, LenProperties
<1>2. \A k \in 1..(m + n) : v[k] = u[To(k)]
  <2> TAKE k \in 1..(m + n)
  <2>1. CASE k <= m
    <3>1. v[k] = s[k] BY <1>1, <2>1
    <3>2. u[k] = s[k] BY <1>1, <2>1
    <3> QED BY <2>1, <3>1, <3>2
  <2>2. CASE k > m
    <3>1. v[k] = t[k - m] BY <1>1, <2>2
    <3>2. u[k + 1] = (<<x>> \o t)[k + 1 - m] BY <1>1, <2>2
    <3>3. (<<x>> \o t)[k + 1 - m] = t[k - m] BY <1>1, <2>2
    <3> QED BY <1>1, <2>2, <3>1, <3>2, <3>3
  <2> QED BY <1>1, <2>1, <2>2
<1>3. u[m + 1] = x
  <2>1. u[m + 1] = (<<x>> \o t)[1] BY <1>1
  <2> QED BY <2>1
<1>4. \A k \in 1..(m + 1 + n) : u[k] \in Nat
  <2>1. \A k \in DOMAIN u : u[k] \in E
    <3> HIDE DEF u
    <3> QED BY <1>1
  <2> QED BY <1>1, <2>1
<1>5. \A a, b \in 1..(m + 1 + n) : a < b => u[a] < u[b] BY <1>1 DEF Ascending
<1> HIDE DEF u, v, m, n
<1>6. \A k \in 1..(m + n) : To(k) \in 1..(m + 1 + n) /\ To(k) # m + 1 BY <1>1
<1>7. Ascending(v)
  <2> SUFFICES ASSUME NEW a \in 1..(m + n), NEW b \in 1..(m + n), a < b PROVE v[a] < v[b]
    BY <1>1 DEF Ascending
  <2>1. To(a) < To(b) BY <1>1
  <2> QED BY <1>2, <1>5, <1>6, <2>1
<1>8. x \notin Range(v)
  <2> SUFFICES ASSUME NEW k \in 1..(m + n), v[k] = x PROVE FALSE BY <1>1 DEF Range
  <2> DEFINE j == To(k)
  <2>1. u[j] = u[m + 1] /\ j \in 1..(m + 1 + n) /\ j # m + 1 BY <1>2, <1>3, <1>6
  <2> HIDE DEF j
  <2>2. m + 1 \in 1..(m + 1 + n) BY <1>1
  <2>3. j < m + 1 \/ m + 1 < j BY <1>1, <2>1
  <2>4. u[j] < u[m + 1] \/ u[m + 1] < u[j] BY <1>5, <2>1, <2>2, <2>3
  <2>5. u[j] \in Nat BY <1>4, <2>1
  <2> QED BY <2>1, <2>4, <2>5
<1>9. Range(u) = Range(v) \cup {x}
  <2>1. ASSUME NEW j \in 1..(m + 1 + n), j # m + 1 PROVE \E k \in 1..(m + n) : u[j] = v[k]
    <3>1. CASE j <= m
      <4>1. j \in 1..(m + n) /\ To(j) = j BY <1>1, <3>1
      <4> QED BY <1>2, <4>1
    <3>2. CASE j > m + 1
      <4>1. j - 1 \in 1..(m + n) /\ To(j - 1) = j BY <1>1, <3>2
      <4> QED BY <1>2, <4>1
    <3> QED BY <1>1, <2>1, <3>1, <3>2
  <2>2. m + 1 \in 1..(m + 1 + n) BY <1>1
  <2>3. \A k \in 1..(m + n) : \E j \in 1..(m + 1 + n) : v[k] = u[j] BY <1>2, <1>6
  <2>4. Range(u) = {u[j] : j \in 1..(m + 1 + n)} /\ Range(v) = {v[k] : k \in 1..(m + n)}
    BY <1>1 DEF Range
  <2>5. Range(u) \subseteq Range(v) \cup {x} BY <1>3, <2>1, <2>4
  <2>6. x \in Range(u) /\ Range(v) \subseteq Range(u) BY <1>3, <2>2, <2>3, <2>4
  <2> QED BY <2>5, <2>6
<1> QED BY <1>7, <1>8, <1>9 DEF u, v

-----------------------------------------------------------------------------
(* Largest numbers.                                                        *)

LEMMA LargestNumber ==
  ASSUME NEW n \in Nat, NEW T \in SUBSET (1..n), T # {}
  PROVE  Max(T) \in T /\ \A m \in T : m <= Max(T)
<1> DEFINE D == {n - m : m \in T}
<1>1. D \subseteq Nat /\ D # {}
  <2>1. \A m \in T : n - m \in Nat OBVIOUS
  <2> QED BY <2>1
<1>2. PICK d \in D : \A e \in D : d <= e BY <1>1, LeastNumber
<1>3. PICK x \in T : d = n - x BY <1>2
<1>4. \A m \in T : m <= x BY <1>2, <1>3
<1> QED BY <1>4 DEF Max

LEMMA LargestOfFew ==
  ASSUME NEW S, IsFiniteSet(S), S \subseteq Int, S # {}
  PROVE  Max(S) \in S /\ \A x \in S : x <= Max(S)
<1> DEFINE F == {T \in SUBSET S : T # {} => \E x \in T : \A y \in T : x >= y}
<1>1. {} \in F OBVIOUS
<1>2. ASSUME NEW T \in SUBSET S, NEW x \in S \ T, T \in F PROVE T \cup {x} \in F
  <2>1. CASE T = {} BY <2>1
  <2>2. CASE T # {}
    <3>1. PICK a \in T : \A y \in T : a >= y BY <1>2, <2>2
    <3>2. \E b \in T \cup {x} : \A y \in T \cup {x} : b >= y
      <4>1. CASE a >= x BY <3>1, <4>1
      <4>2. CASE x > a BY <3>1, <4>2
      <4> QED BY <4>1, <4>2
    <3> QED BY <3>2
  <2> QED BY <2>1, <2>2
<1> HIDE DEF F
<1>3. S \in F BY <1>1, <1>2, SetsInduct
<1>4. \E x \in S : \A y \in S : x >= y BY <1>3 DEF F
<1>5. Max(S) \in S /\ \A y \in S : Max(S) >= y BY <1>4 DEF Max
<1> QED BY <1>5

LEMMA LargerOfTwo ==
  ASSUME NEW a \in Int, NEW b \in Int
  PROVE  Max({a, b}) = IF a >= b THEN a ELSE b
<1>1. \E x \in {a, b} : \A y \in {a, b} : x >= y OBVIOUS
<1>2. Max({a, b}) \in {a, b} /\ \A y \in {a, b} : Max({a, b}) >= y BY <1>1 DEF Max
<1> QED BY <1>2

\* A finite set of numbers in order.
Ordered(S) == [n \in 1..Cardinality(S) |-> CHOOSE i \in S : Cardinality({k \in S : k < i}) = n - 1]

LEMMA OrderedIsAscending ==
  ASSUME NEW S, IsFiniteSet(S), S \subseteq Nat
  PROVE  Ordered(S) \in Seq(S) /\ Ascending(Ordered(S)) /\ Range(Ordered(S)) = S
<1> DEFINE n == Cardinality(S)
           Below(i) == {k \in S : k < i}
           rank == [i \in S |-> Cardinality(Below(i)) + 1]
           o == [m \in 1..n |-> CHOOSE i \in S : rank[i] = m]
<1>1. n \in Nat /\ \A T \in SUBSET S : IsFiniteSet(T) /\ Cardinality(T) \in Nat /\ Cardinality(T) <= n
  BY FS_CardinalityType, FS_Subset
<1>2. \A i \in S : Below(i) \in SUBSET S OBVIOUS
<1>3. ASSUME NEW i \in S PROVE rank[i] \in 1..n
  <2>1. IsFiniteSet(S \ {i}) /\ Cardinality(S \ {i}) = n - 1 BY FS_RemoveElement
  <2>2. Below(i) \in SUBSET (S \ {i}) OBVIOUS
  <2>3. Cardinality(Below(i)) <= n - 1 BY <2>1, <2>2, FS_Subset
  <2>4. Cardinality(Below(i)) \in Nat BY <1>1, <1>2
  <2> QED BY <1>1, <2>3, <2>4
<1>4. ASSUME NEW i \in S, NEW j \in S, i < j PROVE rank[i] < rank[j]
  <2>1. Below(i) \cup {i} \in SUBSET Below(j) /\ i \notin Below(i)
    <3>1. i \in Nat /\ j \in Nat /\ i < j BY <1>4
    <3>2. \A k \in S : k \in Nat OBVIOUS
    <3>3. \A k \in S : k < i => k < j BY <3>1, <3>2
    <3>4. \A k \in Below(i) : k \in Below(j) BY <3>3
    <3>5. i \in Below(j) /\ i \notin Below(i) BY <3>1
    <3> HIDE DEF Below
    <3> QED BY <3>4, <3>5
  <2>2. IsFiniteSet(Below(i)) /\ IsFiniteSet(Below(j)) BY <1>1, <1>2
  <2>3. Cardinality(Below(i) \cup {i}) = Cardinality(Below(i)) + 1 BY <2>1, <2>2, FS_AddElement
  <2>4. Cardinality(Below(i) \cup {i}) <= Cardinality(Below(j)) BY <2>1, <2>2, FS_Subset
  <2>5. Cardinality(Below(i)) \in Nat /\ Cardinality(Below(j)) \in Nat BY <1>1, <1>2
  <2> HIDE DEF Below
  <2> QED BY <2>3, <2>4, <2>5
<1>5. Ordered(S) = o
  <2>1. \A m \in 1..n : \A i \in S : rank[i] = m <=> Cardinality(Below(i)) = m - 1
    <3> TAKE m \in 1..n
    <3> TAKE i \in S
    <3>1. Cardinality(Below(i)) \in Nat BY <1>1, <1>2
    <3> HIDE DEF Below
    <3> QED BY <1>1, <3>1
  <2>2. \A m \in 1..n : (CHOOSE i \in S : rank[i] = m) = CHOOSE i \in S : Cardinality(Below(i)) = m - 1
    <3> HIDE DEF rank, Below
    <3> QED BY <2>1
  <2>3. o = [m \in 1..n |-> CHOOSE i \in S : Cardinality(Below(i)) = m - 1]
    <3> HIDE DEF rank, Below
    <3> QED BY <2>2
  <2> QED BY <2>3 DEF Ordered
<1>6. \A i, j \in S : rank[i] = rank[j] => i = j
  <2> HIDE DEF rank
  <2> SUFFICES ASSUME NEW i \in S, NEW j \in S, rank[i] = rank[j], i # j PROVE FALSE OBVIOUS
  <2>1. i < j \/ j < i OBVIOUS
  <2>2. rank[i] < rank[j] \/ rank[j] < rank[i] BY <1>4, <2>1
  <2>3. rank[i] \in 1..n /\ rank[j] \in 1..n BY <1>3
  <2> HIDE DEF n
  <2> QED BY <1>1, <2>2, <2>3
<1>7. rank \in Injection(S, 1..n)
  <2>1. rank \in [S -> 1..n] BY <1>3
  <2> HIDE DEF rank
  <2> QED BY <1>6, <2>1 DEF Injection, IsInjective
<1>8. rank \in Surjection(S, 1..n)
  <2>1. IsFiniteSet(1..n) /\ Cardinality(1..n) = n BY <1>1, FS_Interval
  <2> HIDE DEF rank
  <2> QED BY <1>7, <2>1, FS_Injection
<1>9. \A m \in 1..n : \E i \in S : rank[i] = m
  <2> HIDE DEF rank
  <2> QED BY <1>8 DEF Surjection
<1>10. \A m \in 1..n : o[m] \in S /\ rank[o[m]] = m
  <2> HIDE DEF rank
  <2> QED BY <1>9
<1> HIDE DEF rank, o, n
<1>11. o \in Seq(S) /\ DOMAIN o = 1..n
  <2>1. DOMAIN o = 1..n /\ o = [m \in 1..n |-> o[m]] BY DEF o
  <2> QED BY <1>1, <1>10, <2>1
<1>12. Ascending(o)
  <2> SUFFICES ASSUME NEW a \in 1..n, NEW b \in 1..n, a < b PROVE o[a] < o[b]
    BY <1>11 DEF Ascending
  <2>1. o[a] \in S /\ o[b] \in S /\ rank[o[a]] = a /\ rank[o[b]] = b BY <1>10
  <2>2. o[a] # o[b] BY <2>1
  <2>3. o[a] < o[b] \/ o[b] < o[a]
    <3>1. o[a] \in Nat /\ o[b] \in Nat BY <2>1
    <3> QED BY <2>2, <3>1
  <2>4. o[b] < o[a] => b < a BY <1>4, <2>1
  <2> QED BY <1>1, <2>3, <2>4
<1>13. Range(o) = S
  <2>1. \A i \in S : o[rank[i]] = i BY <1>3, <1>6, <1>10
  <2> QED BY <1>3, <1>10, <1>11, <2>1 DEF Range
<1> QED BY <1>5, <1>11, <1>12, <1>13

\* Cutting a sequence in two.
LEMMA SplitSequence ==
  ASSUME NEW E, NEW s \in Seq(E), NEW m \in 1..(Len(s) - 1)
  PROVE  /\ SubSeq(s, 1, m) \in Seq(E) /\ SubSeq(s, m + 1, Len(s)) \in Seq(E)
         /\ SubSeq(s, 1, m) # <<>> /\ SubSeq(s, m + 1, Len(s)) # <<>>
         /\ s = SubSeq(s, 1, m) \o SubSeq(s, m + 1, Len(s))
<1> DEFINE n == Len(s)
           a == SubSeq(s, 1, m)
           b == SubSeq(s, m + 1, n)
<1>1. n \in Nat /\ m \in Nat /\ 1 <= m /\ m < n /\ \A i \in 1..n : s[i] \in E
  BY ElementOfSeq, LenProperties
<1>2. a \in Seq(E) /\ Len(a) = m
  <2>1. \A i \in 1..m : s[i] \in E BY <1>1
  <2> HIDE DEF n
  <2> QED BY <1>1, <2>1, SubSeqProperties
<1>3. b \in Seq(E) /\ Len(b) = n - m
  <2>1. \A i \in (m + 1)..n : s[i] \in E BY <1>1
  <2> HIDE DEF n
  <2>2. m + 1 <= n /\ n - (m + 1) + 1 = n - m BY <1>1
  <2> QED BY <1>1, <2>1, <2>2, SubSeqProperties
<1>4. s = a \o b
  <2>1. 1 \in 1..(n + 1) /\ m \in (1 - 1)..n /\ n \in m..n BY <1>1
  <2>2. SubSeq(s, 1, n) = s BY SubSeqFull
  <2> QED BY <2>1, <2>2, ConcatAdjacentSubSeq
<1>5. a # <<>> /\ b # <<>>
  <2> HIDE DEF a, b
  <2> QED BY <1>1, <1>2, <1>3
<1> QED BY <1>2, <1>3, <1>4, <1>5

LEMMA PairIsJoin ==
  ASSUME NEW s, NEW u
  PROVE  <<s, u>> = <<s>> \o <<u>>
<1> DEFINE E == {s, u}
           a == <<s, u>>
           b == <<s>> \o <<u>>
<1>1. a \in Seq(E) /\ b \in Seq(E) /\ Len(a) = 2 /\ Len(b) = 2 OBVIOUS
<1>2. a[1] = s /\ a[2] = u /\ b[1] = s /\ b[2] = u OBVIOUS
<1> HIDE DEF a, b
<1>3. \A i \in 1..Len(a) : a[i] = b[i]
  <2>1. \A i \in 1..2 : i = 1 \/ i = 2 OBVIOUS
  <2> QED BY <1>1, <1>2, <2>1
<1>4. a = b BY <1>1, <1>3, SeqEqual
<1> QED BY <1>4 DEF a, b

-----------------------------------------------------------------------------
(* Finite sets.                                                            *)

LEMMA FewAreFinite == \A a, b, c, d : IsFiniteSet({a, b, c, d})
<1> SUFFICES ASSUME NEW a, NEW b, NEW c, NEW d PROVE IsFiniteSet({a, b, c, d}) OBVIOUS
<1>1. IsFiniteSet({a}) /\ IsFiniteSet({b}) /\ IsFiniteSet({c}) /\ IsFiniteSet({d}) BY FS_Singleton
<1>2. IsFiniteSet({a} \cup {b}) /\ IsFiniteSet({c} \cup {d}) BY <1>1, FS_Union
<1>3. IsFiniteSet(({a} \cup {b}) \cup ({c} \cup {d})) BY <1>2, FS_Union
<1>4. {a, b, c, d} = ({a} \cup {b}) \cup ({c} \cup {d}) OBVIOUS
<1> QED BY <1>3, <1>4

LEMMA ImageIsFinite ==
  ASSUME NEW S, IsFiniteSet(S), NEW f
  PROVE  IsFiniteSet({f[x] : x \in S})
<1> DEFINE T == {f[x] : x \in S}
           g == [x \in S |-> f[x]]
<1>1. g \in Surjection(S, T)
  BY DEF Surjection
<1> HIDE DEF g, T
<1>2. IsFiniteSet(T)
  BY <1>1, FS_Surjection
<1> QED BY <1>2 DEF T

LEMMA UnionIsFinite ==
  ASSUME NEW S, IsFiniteSet(S), NEW f, \A x \in S : IsFiniteSet(f[x])
  PROVE  IsFiniteSet(UNION {f[x] : x \in S})
<1>1. IsFiniteSet({f[x] : x \in S})
  BY ImageIsFinite
<1>2. \A T \in {f[x] : x \in S} : IsFiniteSet(T)
  OBVIOUS
<1> QED BY <1>1, <1>2, FS_UNION
=============================================================================

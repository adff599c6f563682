----------------------------- MODULE FoldProofs -----------------------------
(***************************************************************************)
(* Facts about the folds of the community modules that the models are      *)
(* built from: sums over a set of indices, the elements of a set put in a  *)
(* list, the largest number of a set.  A fold is a recursive function on   *)
(* the subsets of a finite set, which the prover sees as a CHOOSE; the     *)
(* first lemmas supply what that takes, induction and recursion over the   *)
(* subsets, stated with sets and functions where the library's theorems    *)
(* take an operator.                                                       *)
(***************************************************************************)
EXTENDS Integers, SequencesExt, FiniteSetTheorems, WellFoundedInduction, TLAPS

-----------------------------------------------------------------------------
(* Induction and recursion over the subsets of a finite set                *)

\* A set of numbers that has 0, and with each number the next one, has all up to n.
LEMMA CountingUp ==
  ASSUME NEW n \in Nat, NEW Good, 0 \in Good,
         \A i \in 1..n : i - 1 \in Good => i \in Good
  PROVE  \A i \in 0..n : i \in Good
<1> DEFINE Bad == {i \in 0..n : i \notin Good}
<1> SUFFICES ASSUME Bad # {} PROVE FALSE
  OBVIOUS
<1>1. \E i \in Bad : \A j \in Bad : ~ (<<j, i>> \in OpToRel(<, Nat))
  <2>1. Bad \subseteq Nat
    OBVIOUS
  <2> HIDE DEF Bad
  <2>2. QED
    BY <2>1, WFMin, NatLessThanWellFounded
<1>2. PICK i \in Bad : \A j \in Bad : ~ (j < i)
  <2>1. \A i, j \in Nat : j < i => <<j, i>> \in OpToRel(<, Nat)
    BY DEF OpToRel
  <2>2. Bad \subseteq Nat
    OBVIOUS
  <2> HIDE DEF Bad
  <2>3. QED
    BY <1>1, <2>1, <2>2
<1>3. i \in 1..n /\ i - 1 \in 0..n /\ i - 1 < i
  OBVIOUS
<1>4. i - 1 \in Good
  BY <1>2, <1>3
<1>5. QED
  BY <1>3, <1>4

\* A set of sets that has a set as soon as it has all its proper subsets has every
\* subset of a finite set.
LEMMA SmallerSetsFirst ==
  ASSUME NEW S, IsFiniteSet(S), NEW Good,
         \A s \in SUBSET S : (\A t \in SUBSET s : t # s => t \in Good) => s \in Good
  PROVE  \A s \in SUBSET S : s \in Good
<1> DEFINE Bad == {s \in SUBSET S : s \notin Good}
<1> SUFFICES ASSUME Bad # {} PROVE FALSE
  OBVIOUS
<1>1. \E s \in Bad : \A t \in Bad : ~ (<<t, s>> \in StrictSubsetOrdering(S))
  <2>1. Bad \subseteq FiniteSubsetsOf(S)
    BY FS_FiniteSubsetsOfFinite
  <2> HIDE DEF Bad
  <2>2. QED
    BY <2>1, WFMin, FS_StrictSubsetOrderingWellFounded
<1>2. PICK s \in Bad : \A t \in Bad : ~ (t \subseteq s /\ t # s)
  <2>1. \A s, t \in SUBSET S : t \subseteq s /\ t # s => <<t, s>> \in StrictSubsetOrdering(S)
    BY DEF StrictSubsetOrdering
  <2>2. Bad \subseteq SUBSET S
    OBVIOUS
  <2> HIDE DEF Bad
  <2>3. QED
    BY <1>1, <2>1, <2>2
<1>3. \A t \in SUBSET s : t # s => t \in Good
  BY <1>2
<1>4. QED
  BY <1>3

\* pick takes an element of every set, step stays in V, and g is what they make of base.
Picks(pick, S) == \A s \in SUBSET S : s # {} => pick[s] \in s
StaysIn(step, S, V) == \A s \in SUBSET S : \A v \in V : s # {} => step[s][v] \in V
Recursive(g, S, base, pick, step) ==
  \A s \in SUBSET S : g[s] = IF s = {} THEN base ELSE step[s][g[s \ {pick[s]}]]

\* A function on the subsets of S can be defined by its value for {} and a step from
\* each set without the element picked to the set with it.
LEMMA SubsetRecursion ==
  ASSUME NEW S, IsFiniteSet(S), NEW V, NEW base \in V, NEW pick, NEW step,
         Picks(pick, S), StaysIn(step, S, V)
  PROVE  \E g \in [SUBSET S -> V] : Recursive(g, S, base, pick, step)
<1> USE DEF Picks, StaysIn, Recursive
<1> DEFINE Defines(g, s) == g[s] = IF s = {} THEN base ELSE step[s][g[s \ {pick[s]}]]
           Good == {k \in Nat : \E g \in [SUBSET S -> V] :
                      \A s \in SUBSET S : Cardinality(s) <= k => Defines(g, s)}
           n == Cardinality(S)
<1>1. n \in Nat /\ \A s \in SUBSET S : IsFiniteSet(s) /\ Cardinality(s) \in 0..n
  BY FS_CardinalityType, FS_Subset
<1>2. 0 \in Good
  <2>1. [s \in SUBSET S |-> base] \in [SUBSET S -> V]
    OBVIOUS
  <2>2. \A s \in SUBSET S : Cardinality(s) <= 0 => s = {}
    BY <1>1, FS_EmptySet
  <2>3. QED
    BY <2>1, <2>2
<1>3. \A k \in 1..n : k - 1 \in Good => k \in Good
  <2> SUFFICES ASSUME NEW k \in 1..n, k - 1 \in Good PROVE k \in Good
    OBVIOUS
  <2>1. PICK g \in [SUBSET S -> V] :
          \A s \in SUBSET S : Cardinality(s) <= k - 1 => Defines(g, s)
    BY DEF Good
  <2> DEFINE h == [s \in SUBSET S |-> IF s = {} \/ Cardinality(s) <= k - 1 THEN g[s]
                                      ELSE step[s][g[s \ {pick[s]}]]]
  <2>2. h \in [SUBSET S -> V]
    <3>1. \A s \in SUBSET S : s # {} => g[s \ {pick[s]}] \in V
      OBVIOUS
    <3>2. QED
      BY <3>1
  <2>3. ASSUME NEW s \in SUBSET S, Cardinality(s) <= k PROVE Defines(h, s)
    <3>1. CASE s = {}
      <4>1. Cardinality(s) <= k - 1
        BY <3>1, FS_EmptySet, <1>1
      <4>2. QED
        BY <2>1, <3>1, <4>1
    <3>2. CASE s # {}
      <4>1. pick[s] \in s /\ s \ {pick[s]} \in SUBSET S
        BY <3>2
      <4>2. Cardinality(s \ {pick[s]}) = Cardinality(s) - 1
        BY <1>1, <4>1, FS_RemoveElement
      <4>3. Cardinality(s \ {pick[s]}) <= k - 1
        BY <1>1, <2>3, <4>2
      <4>4. h[s \ {pick[s]}] = g[s \ {pick[s]}]
        BY <4>1, <4>3
      <4>5. h[s] = step[s][g[s \ {pick[s]}]]
        BY <2>1, <3>2
      <4>6. QED
        BY <3>2, <4>4, <4>5
    <3>3. QED
      BY <3>1, <3>2
  <2>4. \A s \in SUBSET S : Cardinality(s) <= k => Defines(h, s)
    BY <2>3
  <2>5. k \in Nat
    BY <1>1
  <2> HIDE DEF h, Defines
  <2>6. QED
    BY <2>2, <2>4, <2>5
<1>4. n \in Good
  <2> HIDE DEF Good
  <2>1. QED
    BY <1>1, <1>2, <1>3, CountingUp
<1>5. PICK g \in [SUBSET S -> V] :
        \A s \in SUBSET S : Cardinality(s) <= n => Defines(g, s)
  BY <1>4
<1>6. \A s \in SUBSET S : Defines(g, s)
  BY <1>1, <1>5
<1>7. QED
  BY <1>6

-----------------------------------------------------------------------------
(* Sums                                                                    *)

\* What SumFunctionOnSet is to the prover.
Partial(f, S) ==
  CHOOSE iter : iter = [s \in SUBSET S |->
    IF s = {} THEN 0 ELSE f[CHOOSE x \in s : TRUE] + iter[s \ {CHOOSE x \in s : TRUE}]]

LEMMA SumIsPartial ==
  ASSUME NEW f, NEW S
  PROVE  SumFunctionOnSet(f, S) = Partial(f, S)[S]
BY DEF SumFunctionOnSet, FoldFunctionOnSet, MapThenFoldSet, Partial

\* Partial sums exist, and are what the recursion says.
LEMMA PartialSums ==
  ASSUME NEW S, IsFiniteSet(S), NEW f, \A x \in S : f[x] \in Nat
  PROVE  /\ Partial(f, S) \in [SUBSET S -> Nat]
         /\ \A s \in SUBSET S :
              Partial(f, S)[s] =
                IF s = {} THEN 0
                ELSE f[CHOOSE x \in s : TRUE] + Partial(f, S)[s \ {CHOOSE x \in s : TRUE}]
<1> DEFINE pick == [s \in SUBSET S |-> CHOOSE x \in s : TRUE]
           step == [s \in SUBSET S |-> [v \in Nat |-> f[pick[s]] + v]]
           Fits(iter) == iter = [s \in SUBSET S |->
             IF s = {} THEN 0 ELSE f[CHOOSE x \in s : TRUE] + iter[s \ {CHOOSE x \in s : TRUE}]]
<1>1. Picks(pick, S) /\ StaysIn(step, S, Nat)
  BY DEF Picks, StaysIn
<1>2. PICK g \in [SUBSET S -> Nat] : Recursive(g, S, 0, pick, step)
  <2> HIDE DEF pick, step
  <2>1. QED
    BY <1>1, SubsetRecursion
<1>3. \A s \in SUBSET S : g[s] = IF s = {} THEN 0 ELSE step[s][g[s \ {pick[s]}]]
  BY <1>2 DEF Recursive
<1>4. Fits(g)
  <2>1. \A s \in SUBSET S : g[s \ {pick[s]}] \in Nat
    OBVIOUS
  <2>2. QED
    BY <1>3, <2>1
<1>5. Fits(Partial(f, S))
  <2>1. \E iter : Fits(iter)
    BY <1>4
  <2>2. Partial(f, S) = CHOOSE iter : Fits(iter)
    BY DEF Partial
  <2> HIDE DEF Fits
  <2>3. QED
    BY <2>1, <2>2
<1> DEFINE sum == Partial(f, S)
<1>6. \A s \in SUBSET S : sum[s] =
        IF s = {} THEN 0 ELSE f[CHOOSE x \in s : TRUE] + sum[s \ {CHOOSE x \in s : TRUE}]
  BY <1>5
<1>7. \A s \in SUBSET S : sum[s] \in Nat
  <2> DEFINE Good == {s \in SUBSET S : sum[s] \in Nat}
  <2>1. ASSUME NEW s \in SUBSET S, \A t \in SUBSET s : t # s => t \in Good
        PROVE  s \in Good
    <3> HIDE DEF sum
    <3>1. CASE s = {}
      BY <1>6, <3>1
    <3>2. CASE s # {}
      <4> DEFINE x == CHOOSE y \in s : TRUE
      <4>1. x \in s
        BY <3>2
      <4>2. s \ {x} \in Good
        BY <2>1, <4>1
      <4>3. sum[s] = f[x] + sum[s \ {x}]
        BY <1>6, <3>2
      <4>4. QED
        BY <4>1, <4>2, <4>3
    <3>3. QED
      BY <3>1, <3>2
  <2> HIDE DEF Good
  <2>2. \A s \in SUBSET S : s \in Good
    BY <2>1, SmallerSetsFirst
  <2>3. QED
    BY <2>2 DEF Good
<1>8. DOMAIN sum = SUBSET S /\ sum = [s \in SUBSET S |-> sum[s]]
  BY <1>5
<1>9. QED
  BY <1>6, <1>7, <1>8

\* The partial sums of a set are those of any larger one.
LEMMA PartialAgrees ==
  ASSUME NEW S, IsFiniteSet(S), NEW f, \A x \in S : f[x] \in Nat, NEW T \in SUBSET S
  PROVE  Partial(f, T)[T] = Partial(f, S)[T]
<1> DEFINE Good == {s \in SUBSET T : Partial(f, T)[s] = Partial(f, S)[s]}
<1>1. IsFiniteSet(T) /\ \A x \in T : f[x] \in Nat
  BY FS_Subset
<1>2. ASSUME NEW s \in SUBSET T, \A t \in SUBSET s : t # s => t \in Good
      PROVE  s \in Good
  <2>1. CASE s = {}
    <3>1. Partial(f, T)[s] = 0
      BY <1>1, <2>1, PartialSums
    <3>2. s \in SUBSET S
      OBVIOUS
    <3>3. Partial(f, S)[s] = 0
      BY <2>1, <3>2, PartialSums
    <3>4. QED
      BY <3>1, <3>3
  <2>2. CASE s # {}
    <3> DEFINE x == CHOOSE y \in s : TRUE
    <3>1. x \in s
      BY <2>2
    <3>2. s \ {x} \in Good
      BY <1>2, <3>1
    <3>3. Partial(f, T)[s] = f[x] + Partial(f, T)[s \ {x}]
      BY <1>1, <2>2, PartialSums
    <3>4. Partial(f, S)[s] = f[x] + Partial(f, S)[s \ {x}]
      <4>1. s \in SUBSET S
        OBVIOUS
      <4>2. QED
        BY <2>2, <4>1, PartialSums
    <3>5. QED
      BY <3>2, <3>3, <3>4
  <2>3. QED
    BY <2>1, <2>2
<1>3. T \in Good
  <2> HIDE DEF Good
  <2>1. QED
    BY <1>1, <1>2, SmallerSetsFirst
<1>4. QED
  BY <1>3

\* The sum over a finite set is a number; it is 0 over {}, and each element of the set
\* can be taken out of it.
LEMMA SumOverSet ==
  ASSUME NEW S, IsFiniteSet(S), NEW f, \A x \in S : f[x] \in Nat
  PROVE  /\ SumFunctionOnSet(f, S) \in Nat
         /\ S = {} => SumFunctionOnSet(f, S) = 0
         /\ \A x \in S : SumFunctionOnSet(f, S) = f[x] + SumFunctionOnSet(f, S \ {x})
<1> DEFINE sum == Partial(f, S)
<1>0. \A t \in SUBSET S : sum[t] =
        IF t = {} THEN 0 ELSE f[CHOOSE z \in t : TRUE] + sum[t \ {CHOOSE z \in t : TRUE}]
  BY PartialSums
<1> DEFINE Good == {s \in SUBSET S : \A x \in s : sum[s] = f[x] + sum[s \ {x}]}
<1>1. \A s \in SUBSET S : sum[s] \in Nat
  <2>1. sum \in [SUBSET S -> Nat]
    BY PartialSums
  <2> HIDE DEF sum
  <2>2. QED
    BY <2>1
<1>2. ASSUME NEW s \in SUBSET S, \A t \in SUBSET s : t # s => t \in Good
      PROVE  s \in Good
  <2> SUFFICES ASSUME NEW x \in s PROVE sum[s] = f[x] + sum[s \ {x}]
    OBVIOUS
  <2> DEFINE y == CHOOSE z \in s : TRUE
  <2>1. y \in s /\ sum[s] = f[y] + sum[s \ {y}]
    <3>1. s # {} /\ y \in s
      OBVIOUS
    <3>2. \A t \in SUBSET S : sum[t] =
            IF t = {} THEN 0 ELSE f[CHOOSE z \in t : TRUE] + sum[t \ {CHOOSE z \in t : TRUE}]
      BY <1>0
    <3> HIDE DEF sum
    <3>3. QED
      BY <3>1, <3>2
  <2>2. CASE x = y
    BY <2>1, <2>2
  <2>3. CASE x # y
    <3> HIDE DEF y, sum
    <3>1. s \ {x} \in Good /\ s \ {y} \in Good
      BY <1>2, <2>1
    <3>2. y \in s \ {x} /\ x \in s \ {y}
      BY <2>1, <2>3
    <3>3. sum[s \ {x}] = f[y] + sum[(s \ {x}) \ {y}]
      BY <3>1, <3>2
    <3>4. sum[s \ {y}] = f[x] + sum[(s \ {y}) \ {x}]
      BY <3>1, <3>2
    <3>5. (s \ {x}) \ {y} = (s \ {y}) \ {x}
      OBVIOUS
    <3>6. (s \ {x}) \ {y} \in SUBSET S /\ x \in S /\ y \in S
      BY <2>1
    <3>7. sum[(s \ {x}) \ {y}] \in Nat /\ f[x] \in Nat /\ f[y] \in Nat
      BY <1>1, <3>6
    <3>8. QED
      BY <2>1, <3>3, <3>4, <3>5, <3>7
  <2>4. QED
    BY <2>2, <2>3
<1>3. S \in Good
  <2> HIDE DEF Good
  <2>1. QED
    BY <1>2, SmallerSetsFirst
<1>4. \A s \in SUBSET S : SumFunctionOnSet(f, s) = sum[s]
  BY SumIsPartial, PartialAgrees
<1>5. S = {} => sum[S] = 0
  BY PartialSums
<1>6. QED
  BY <1>1, <1>3, <1>4, <1>5

\* Sums of values that agree on the set are equal.
LEMMA SumAgrees ==
  ASSUME NEW S, IsFiniteSet(S), NEW f, NEW g,
         \A x \in S : f[x] \in Nat /\ g[x] = f[x]
  PROVE  SumFunctionOnSet(f, S) = SumFunctionOnSet(g, S)
<1> DEFINE Good == {s \in SUBSET S : SumFunctionOnSet(f, s) = SumFunctionOnSet(g, s)}
<1>1. ASSUME NEW s \in SUBSET S, \A t \in SUBSET s : t # s => t \in Good
      PROVE  s \in Good
  <2>1. IsFiniteSet(s) /\ \A x \in s : f[x] \in Nat /\ g[x] \in Nat
    BY FS_Subset
  <2>2. CASE s = {}
    BY <2>1, <2>2, SumOverSet
  <2>3. CASE s # {}
    <3>1. PICK x \in s : TRUE
      BY <2>3
    <3>2. s \ {x} \in Good
      BY <1>1
    <3>3. SumFunctionOnSet(f, s) = f[x] + SumFunctionOnSet(f, s \ {x})
      BY <2>1, SumOverSet
    <3>4. SumFunctionOnSet(g, s) = g[x] + SumFunctionOnSet(g, s \ {x})
      BY <2>1, SumOverSet
    <3>5. QED
      BY <3>2, <3>3, <3>4
  <2>4. QED
    BY <2>2, <2>3
<1>2. S \in Good
  <2> HIDE DEF Good
  <2>1. QED
    BY <1>1, SmallerSetsFirst
<1>3. QED
  BY <1>2

\* A sum is at most one that has a term as large for each of its own.
LEMMA SumOfMore ==
  ASSUME NEW S, IsFiniteSet(S), NEW T, IsFiniteSet(T), NEW f, NEW g,
         \A x \in S : f[x] \in Nat, \A y \in T : g[y] \in Nat,
         NEW h \in [S -> T], \A x, y \in S : h[x] = h[y] => x = y,
         \A x \in S : f[x] <= g[h[x]]
  PROVE  SumFunctionOnSet(f, S) <= SumFunctionOnSet(g, T)
<1> DEFINE Image(s) == {h[x] : x \in s}
           Good == {s \in SUBSET S : \A U \in SUBSET T :
                      Image(s) \subseteq U => SumFunctionOnSet(f, s) <= SumFunctionOnSet(g, U)}
<1>1. ASSUME NEW s \in SUBSET S, \A t \in SUBSET s : t # s => t \in Good
      PROVE  s \in Good
  <2> SUFFICES ASSUME NEW U \in SUBSET T, Image(s) \subseteq U
               PROVE  SumFunctionOnSet(f, s) <= SumFunctionOnSet(g, U)
    OBVIOUS
  <2>1. /\ IsFiniteSet(s) /\ \A x \in s : f[x] \in Nat
        /\ IsFiniteSet(U) /\ \A y \in U : g[y] \in Nat
    BY FS_Subset
  <2>2. SumFunctionOnSet(f, s) \in Nat /\ SumFunctionOnSet(g, U) \in Nat
    BY <2>1, SumOverSet
  <2>3. CASE s = {}
    <3>1. SumFunctionOnSet(f, s) = 0
      BY <2>1, <2>3, SumOverSet
    <3>2. QED
      BY <2>2, <3>1
  <2>4. CASE s # {}
    <3>1. PICK x \in s : TRUE
      BY <2>4
    <3>2. s \ {x} \in Good
      BY <1>1
    <3>3. h[x] \in U /\ U \ {h[x]} \in SUBSET T
      OBVIOUS
    <3>4. Image(s \ {x}) \subseteq U \ {h[x]}
      OBVIOUS
    <3>5. SumFunctionOnSet(f, s \ {x}) <= SumFunctionOnSet(g, U \ {h[x]})
      BY <3>2, <3>3, <3>4
    <3>6. SumFunctionOnSet(f, s) = f[x] + SumFunctionOnSet(f, s \ {x})
      BY <2>1, SumOverSet
    <3>7. SumFunctionOnSet(g, U) = g[h[x]] + SumFunctionOnSet(g, U \ {h[x]})
      BY <2>1, <3>3, SumOverSet
    <3>8. SumFunctionOnSet(f, s \ {x}) \in Nat /\ SumFunctionOnSet(g, U \ {h[x]}) \in Nat
      <4>1. /\ IsFiniteSet(s \ {x}) /\ \A y \in s \ {x} : f[y] \in Nat
            /\ IsFiniteSet(U \ {h[x]}) /\ \A y \in U \ {h[x]} : g[y] \in Nat
        BY <2>1, FS_RemoveElement
      <4>2. QED
        BY <4>1, SumOverSet
    <3>9. f[x] \in Nat /\ g[h[x]] \in Nat /\ f[x] <= g[h[x]]
      BY <2>1, <3>3
    <3>10. QED
      BY <3>5, <3>6, <3>7, <3>8, <3>9
  <2>5. QED
    BY <2>3, <2>4
<1>2. S \in Good
  <2> HIDE DEF Good
  <2>1. QED
    BY <1>1, SmallerSetsFirst
<1>3. QED
  BY <1>2

-----------------------------------------------------------------------------
(* Finite sets and lists of their elements                                 *)

\* What a function makes of a finite set is finite.
LEMMA FiniteImage ==
  ASSUME NEW f, IsFiniteSet(DOMAIN f), f = [x \in DOMAIN f |-> f[x]]
  PROVE  IsFiniteSet({f[x] : x \in DOMAIN f})
<1>1. f \in Surjection(DOMAIN f, {f[x] : x \in DOMAIN f})
  BY DEF Surjection
<1>2. QED
  BY <1>1, FS_Surjection

\* So are the elements of a list.
LEMMA FiniteList ==
  ASSUME NEW S, NEW seq \in Seq(S)
  PROVE  IsFiniteSet(DOMAIN seq) /\ IsFiniteSet(ToSet(seq)) /\ ToSet(seq) \subseteq S
<1>1. Len(seq) \in Nat /\ DOMAIN seq = 1..Len(seq) /\ seq = [i \in DOMAIN seq |-> seq[i]]
  OBVIOUS
<1>2. IsFiniteSet(DOMAIN seq)
  <2>1. \A n \in Nat : IsFiniteSet(1..n)
    BY FS_Interval
  <2>2. QED
    BY <1>1, <2>1
<1>3. IsFiniteSet({seq[i] : i \in DOMAIN seq})
  BY <1>1, <1>2, FiniteImage
<1>4. QED
  BY <1>1, <1>2, <1>3 DEF ToSet

\* SetToSeq lists the elements of a finite set, each one once.
LEMMA ListOfSet ==
  ASSUME NEW S, IsFiniteSet(S)
  PROVE  /\ SetToSeq(S) \in Seq(S) /\ ToSet(SetToSeq(S)) = S
         /\ Len(SetToSeq(S)) = Cardinality(S) /\ IsInjective(SetToSeq(S))
<1> DEFINE n == Cardinality(S)
           list == SetToSeq(S)
<1>1. n \in Nat /\ ExistsBijection(1..n, S)
  BY FS_CardinalityType
<1>2. \E f \in [1..n -> S] : IsInjective(f)
  BY <1>1 DEF ExistsBijection, Bijection, Injection
<1>3. list \in [1..n -> S] /\ IsInjective(list)
  BY <1>2 DEF SetToSeq
<1>4. list \in Seq(S) /\ Len(list) = n /\ DOMAIN list = 1..n
  BY <1>1, <1>3
<1>5. list \in Injection(1..n, S) /\ Cardinality(1..n) = n
  BY <1>1, <1>3, FS_Interval DEF Injection
<1>6. list \in Surjection(1..n, S)
  BY <1>5, FS_Injection
<1>7. ToSet(list) = S
  BY <1>3, <1>4, <1>6 DEF Surjection, ToSet
<1>8. QED
  BY <1>3, <1>4, <1>7

\* What a list holds when one more is appended.
LEMMA SetOfAppend ==
  ASSUME NEW S, NEW fs \in Seq(S), NEW f \in S
  PROVE  ToSet(Append(fs, f)) = ToSet(fs) \cup {f}
<1> DEFINE gs == Append(fs, f)
<1>1. Len(fs) \in Nat /\ DOMAIN fs = 1..Len(fs) /\ DOMAIN gs = 1..(Len(fs) + 1)
  OBVIOUS
<1>2. \A i \in DOMAIN fs : gs[i] = fs[i]
  OBVIOUS
<1>3. gs[Len(fs) + 1] = f
  OBVIOUS
<1>4. DOMAIN gs = DOMAIN fs \cup {Len(fs) + 1}
  BY <1>1
<1> HIDE DEF gs
<1>5. ToSet(gs) = ToSet(fs) \cup {f}
  BY <1>2, <1>3, <1>4 DEF ToSet
<1>6. QED
  BY <1>5 DEF gs

\* What FoldSet makes of Append, to the prover.
Appended(S) ==
  CHOOSE iter : iter = [s \in SUBSET S |->
    IF s = {} THEN <<>> ELSE Append(iter[s \ {CHOOSE x \in s : TRUE}], CHOOSE x \in s : TRUE)]

\* A list of the elements of a set, each of them once.
ListsAll(list, S) == list \in Seq(S) /\ ToSet(list) = S /\ IsInjective(list)

\* One more element for a list that does not have it.
LEMMA AppendNew ==
  ASSUME NEW S, NEW s \in SUBSET S, NEW list, ListsAll(list, s), NEW x \in S, x \notin s
  PROVE  ListsAll(Append(list, x), s \cup {x})
<1> DEFINE new == Append(list, x)
<1>1. list \in Seq(S) /\ new \in Seq(S)
  BY DEF ListsAll
<1>2. ToSet(new) = s \cup {x}
  BY <1>1, SetOfAppend DEF ListsAll
<1>3. new \in Seq(s \cup {x})
  BY <1>1, <1>2 DEF ToSet
<1>4. IsInjective(new)
  <2>1. /\ DOMAIN list = 1..Len(list) /\ DOMAIN new = 1..(Len(list) + 1) /\ Len(list) \in Nat
        /\ \A i \in DOMAIN list : new[i] = list[i] /\ list[i] \in s
        /\ new[Len(list) + 1] = x
    BY <1>1 DEF ListsAll
  <2>2. \A i, j \in DOMAIN list : list[i] = list[j] => i = j
    BY DEF ListsAll, IsInjective
  <2> HIDE DEF new
  <2>3. \A i \in DOMAIN new : i \in DOMAIN list \/ i = Len(list) + 1
    BY <2>1
  <2>4. \A i, j \in DOMAIN new : new[i] = new[j] => i = j
    BY <2>1, <2>2, <2>3
  <2>5. QED
    BY <2>4 DEF IsInjective
<1>5. QED
  BY <1>2, <1>3, <1>4 DEF ListsAll

\* Appending the elements of a finite set one by one, whatever their order, lists the set.
LEMMA AppendAll ==
  ASSUME NEW S, IsFiniteSet(S)
  PROVE  ListsAll(FoldSet(LAMBDA x, all : Append(all, x), <<>>, S), S)
<1> DEFINE pick == [s \in SUBSET S |-> CHOOSE x \in s : TRUE]
           step == [s \in SUBSET S |-> [v \in Seq(S) |-> Append(v, pick[s])]]
           Fits(iter) == iter = [s \in SUBSET S |-> IF s = {} THEN <<>>
             ELSE Append(iter[s \ {CHOOSE x \in s : TRUE}], CHOOSE x \in s : TRUE)]
<1>1. Picks(pick, S) /\ StaysIn(step, S, Seq(S)) /\ <<>> \in Seq(S)
  BY DEF Picks, StaysIn
<1>2. PICK g \in [SUBSET S -> Seq(S)] : Recursive(g, S, <<>>, pick, step)
  <2> HIDE DEF pick, step
  <2>1. QED
    BY <1>1, SubsetRecursion
<1>3. \A s \in SUBSET S : g[s] = IF s = {} THEN <<>> ELSE step[s][g[s \ {pick[s]}]]
  BY <1>2 DEF Recursive
<1>4. Fits(g)
  <2>1. \A s \in SUBSET S : g[s \ {pick[s]}] \in Seq(S)
    OBVIOUS
  <2>2. QED
    BY <1>3, <2>1
<1> DEFINE lists == Appended(S)
<1>5. Fits(lists)
  <2>1. \E iter : Fits(iter)
    BY <1>4
  <2>2. Appended(S) = CHOOSE iter : Fits(iter)
    BY DEF Appended
  <2> HIDE DEF Fits
  <2>3. QED
    BY <2>1, <2>2
<1>6. \A s \in SUBSET S : lists[s] = IF s = {} THEN <<>>
        ELSE Append(lists[s \ {CHOOSE x \in s : TRUE}], CHOOSE x \in s : TRUE)
  BY <1>5
<1>7. \A s \in SUBSET S : ListsAll(lists[s], s)
  <2> DEFINE Good == {s \in SUBSET S : ListsAll(lists[s], s)}
  <2>1. ASSUME NEW s \in SUBSET S, \A t \in SUBSET s : t # s => t \in Good
        PROVE  s \in Good
    <3> HIDE DEF lists
    <3>1. CASE s = {}
      <4>1. lists[s] = <<>>
        BY <1>6, <3>1
      <4>2. ListsAll(<<>>, {})
        BY DEF ListsAll, ToSet, IsInjective
      <4>3. QED
        BY <3>1, <4>1, <4>2
    <3>2. CASE s # {}
      <4> DEFINE x == CHOOSE y \in s : TRUE
                 rest == lists[s \ {x}]
      <4>1. x \in s
        BY <3>2
      <4>2. ListsAll(rest, s \ {x})
        BY <2>1, <4>1
      <4>3. lists[s] = Append(rest, x)
        BY <1>6, <3>2
      <4> HIDE DEF rest, x
      <4>4. x \in S /\ x \notin s \ {x} /\ s \ {x} \in SUBSET S /\ (s \ {x}) \cup {x} = s
        BY <4>1
      <4>5. ListsAll(Append(rest, x), (s \ {x}) \cup {x})
        BY <4>2, <4>4, AppendNew
      <4>6. QED
        BY <4>3, <4>4, <4>5
    <3>3. QED
      BY <3>1, <3>2
  <2> HIDE DEF Good
  <2>2. \A s \in SUBSET S : s \in Good
    BY <2>1, SmallerSetsFirst
  <2>3. QED
    BY <2>2 DEF Good
<1>8. FoldSet(LAMBDA x, all : Append(all, x), <<>>, S) = lists[S]
  BY DEF FoldSet, MapThenFoldSet, Appended
<1>9. QED
  BY <1>7, <1>8

\* The empty list, and the lists of one and two elements.
LEMMA ShortLists ==
  /\ ListsAll(<<>>, {})
  /\ \A x : ListsAll(<<x>>, {x})
  /\ \A x, y : x # y => ListsAll(<<x, y>>, {x, y})
BY DEF ListsAll, ToSet, IsInjective

\* The head and the tail of a list share its elements.
LEMMA HeadAndTail ==
  ASSUME NEW S, NEW list, ListsAll(list, S), list # <<>>
  PROVE  Head(list) \in S /\ ListsAll(Tail(list), S \ {Head(list)})
<1> DEFINE rest == Tail(list)
<1>1. /\ Len(list) \in Nat \ {0} /\ DOMAIN list = 1..Len(list) /\ DOMAIN rest = 1..(Len(list) - 1)
      /\ \A i \in DOMAIN rest : rest[i] = list[i + 1]
      /\ rest \in Seq(S) /\ Head(list) = list[1]
  BY DEF ListsAll
<1>2. \A i, j \in DOMAIN list : list[i] = list[j] => i = j
  BY DEF ListsAll, IsInjective
<1>3. S = {list[i] : i \in DOMAIN list}
  BY DEF ListsAll, ToSet
<1> HIDE DEF rest
<1>4. ToSet(rest) = S \ {Head(list)}
  <2>1. \A i \in DOMAIN rest : rest[i] \in S \ {Head(list)}
    BY <1>1, <1>2, <1>3
  <2>2. ASSUME NEW x \in S \ {Head(list)} PROVE \E i \in DOMAIN rest : rest[i] = x
    <3>1. PICK i \in DOMAIN list : list[i] = x
      BY <1>3
    <3>2. i - 1 \in DOMAIN rest /\ rest[i - 1] = list[i]
      BY <1>1, <3>1
    <3>3. QED
      BY <3>1, <3>2
  <2>3. QED
    BY <2>1, <2>2 DEF ToSet
<1>5. IsInjective(rest)
  <2>1. \A i, j \in DOMAIN rest : rest[i] = rest[j] => i + 1 = j + 1
    BY <1>1, <1>2
  <2>2. QED
    BY <1>1, <2>1 DEF IsInjective
<1>6. rest \in Seq(S \ {Head(list)})
  BY <1>1, <1>4 DEF ToSet
<1>7. QED
  BY <1>1, <1>3, <1>4, <1>5, <1>6 DEF ListsAll, rest

\* Two lists without a common element, one after the other.
LEMMA JoinedLists ==
  ASSUME NEW S, NEW T, S \cap T = {}, NEW a, NEW b, ListsAll(a, S), ListsAll(b, T)
  PROVE  ListsAll(a \o b, S \cup T)
<1> DEFINE c == a \o b
           m == Len(a)
           n == Len(b)
<1>1. a \in Seq(S \cup T) /\ b \in Seq(S \cup T)
  BY DEF ListsAll
<1>2. /\ m \in Nat /\ n \in Nat /\ DOMAIN a = 1..m /\ DOMAIN b = 1..n
      /\ c \in Seq(S \cup T) /\ DOMAIN c = 1..(m + n)
      /\ \A i \in 1..m : c[i] = a[i]
      /\ \A i \in (m + 1)..(m + n) : c[i] = b[i - m]
  BY <1>1
<1>3. /\ S = {a[i] : i \in DOMAIN a} /\ \A i, j \in DOMAIN a : a[i] = a[j] => i = j
      /\ T = {b[i] : i \in DOMAIN b} /\ \A i, j \in DOMAIN b : b[i] = b[j] => i = j
  BY DEF ListsAll, ToSet, IsInjective
<1> HIDE DEF c, m, n
<1>4. \A i \in DOMAIN c : i \in 1..m \/ i \in (m + 1)..(m + n)
  BY <1>2
<1>5. \A i \in (m + 1)..(m + n) : i - m \in DOMAIN b
  BY <1>2
<1>6. ToSet(c) = S \cup T
  <2>1. \A i \in DOMAIN c : c[i] \in S \cup T
    BY <1>2
  <2>2. ASSUME NEW x \in S PROVE \E i \in DOMAIN c : c[i] = x
    <3>1. PICK i \in DOMAIN a : a[i] = x
      BY <1>3
    <3>2. i \in DOMAIN c /\ c[i] = a[i]
      BY <1>2
    <3>3. QED
      BY <3>1, <3>2
  <2>3. ASSUME NEW x \in T PROVE \E i \in DOMAIN c : c[i] = x
    <3>1. PICK i \in DOMAIN b : b[i] = x
      BY <1>3
    <3>2. m + i \in (m + 1)..(m + n) /\ m + i \in DOMAIN c /\ (m + i) - m = i
      BY <1>2
    <3>3. QED
      BY <1>2, <3>1, <3>2
  <2>4. QED
    BY <2>1, <2>2, <2>3 DEF ToSet
<1>7. \A i, j \in DOMAIN c : c[i] = c[j] => i = j
  <2> SUFFICES ASSUME NEW i \in DOMAIN c, NEW j \in DOMAIN c, c[i] = c[j] PROVE i = j
    OBVIOUS
  <2>1. CASE i \in 1..m /\ j \in 1..m
    BY <1>2, <1>3, <2>1
  <2>2. CASE i \in (m + 1)..(m + n) /\ j \in (m + 1)..(m + n)
    <3>1. b[i - m] = b[j - m] /\ i - m \in DOMAIN b /\ j - m \in DOMAIN b
      BY <1>2, <1>5, <2>2
    <3>2. i - m = j - m
      BY <1>3, <3>1
    <3>3. QED
      BY <1>2, <2>2, <3>2
  <2>3. CASE i \in 1..m /\ j \in (m + 1)..(m + n)
    <3>1. c[i] \in S /\ c[j] \in T
      BY <1>2, <1>3, <1>5, <2>3
    <3>2. QED
      BY <3>1
  <2>4. CASE i \in (m + 1)..(m + n) /\ j \in 1..m
    <3>1. c[j] \in S /\ c[i] \in T
      BY <1>2, <1>3, <1>5, <2>4
    <3>2. QED
      BY <3>1
  <2>5. QED
    BY <1>4, <2>1, <2>2, <2>3, <2>4
<1>8. QED
  BY <1>2, <1>6, <1>7 DEF ListsAll, IsInjective, c

\* A list with something else, and never the same, in the place of each element.
LEMMA MappedList ==
  ASSUME NEW S, NEW list, ListsAll(list, S), NEW f, DOMAIN f = S,
         \A x, y \in S : f[x] = f[y] => x = y
  PROVE  ListsAll([i \in DOMAIN list |-> f[list[i]]], {f[x] : x \in S})
<1> DEFINE new == [i \in DOMAIN list |-> f[list[i]]]
<1>1. /\ Len(list) \in Nat /\ DOMAIN list = 1..Len(list) /\ S = {list[i] : i \in DOMAIN list}
      /\ \A i, j \in DOMAIN list : list[i] = list[j] => i = j
  BY DEF ListsAll, ToSet, IsInjective
<1>2. new \in Seq({f[x] : x \in S})
  BY <1>1
<1>3. ToSet(new) = {f[x] : x \in S}
  BY <1>1 DEF ToSet
<1>4. IsInjective(new)
  BY <1>1 DEF IsInjective
<1>5. QED
  BY <1>2, <1>3, <1>4 DEF ListsAll

\* What FlattenSeq makes of a list of lists, to the prover.
Flattens(iter, seqs) ==
  iter = [i \in 1..Len(seqs) |-> IF i = 1 THEN seqs[i] ELSE iter[i - 1] \o seqs[i]]

\* Lists without common elements, all of them one after the other.
LEMMA FlattenedLists ==
  ASSUME NEW seqs, NEW sets, Len(seqs) \in Nat, DOMAIN seqs = 1..Len(seqs),
         seqs = <<>> \/ Len(seqs) > 0,
         \A i \in DOMAIN seqs : ListsAll(seqs[i], sets[i]),
         \A i, j \in DOMAIN seqs : i # j => sets[i] \cap sets[j] = {}
  PROVE  ListsAll(FlattenSeq(seqs), UNION {sets[i] : i \in DOMAIN seqs})
<1> DEFINE n == Len(seqs)
           Fits(g, k) == \A i \in 1..k : g[i] = IF i = 1 THEN seqs[i] ELSE g[i - 1] \o seqs[i]
           Upto(k) == UNION {sets[i] : i \in 1..k}
           V == Seq(UNION {sets[i] : i \in DOMAIN seqs})
<1>1. \A i \in DOMAIN seqs : seqs[i] \in V
  BY DEF ListsAll
<1>2. CASE n = 0
  <2>1. FlattenSeq(seqs) = <<>>
    BY <1>2 DEF FlattenSeq
  <2>2. UNION {sets[i] : i \in DOMAIN seqs} = {}
    BY <1>2
  <2>3. QED
    BY <2>1, <2>2, ShortLists
<1>3. CASE n > 0
  <2> DEFINE Good == {k \in 0..n : \E g \in [1..n -> V] : Fits(g, k)}
  <2>1. n \in Nat /\ 1 \in DOMAIN seqs
    BY <1>3
  <2>2. 0 \in Good
    <3>1. \E g \in [1..n -> V] : TRUE
      <4>1. [i \in 1..n |-> seqs[1]] \in [1..n -> V]
        BY <1>1, <2>1
      <4>2. QED
        BY <4>1
    <3>2. \A g : Fits(g, 0)
      OBVIOUS
    <3> HIDE DEF Fits, V
    <3>3. QED
      BY <2>1, <3>1, <3>2
  <2>3. ASSUME NEW k \in 1..n, k - 1 \in Good PROVE k \in Good
    <3>1. PICK g \in [1..n -> V] : Fits(g, k - 1)
      BY <2>3
    <3> DEFINE next == IF k = 1 THEN seqs[1] ELSE g[k - 1] \o seqs[k]
               h == [i \in 1..n |-> IF i = k THEN next ELSE g[i]]
    <3>2. next \in V
      <4>1. k # 1 => k - 1 \in 1..n
        OBVIOUS
      <4> HIDE DEF V
      <4>2. \A a, b \in V : a \o b \in V
        BY DEF V
      <4>3. QED
        BY <1>1, <2>1, <3>1, <4>1, <4>2
    <3>3. h \in [1..n -> V]
      <4> HIDE DEF next, V
      <4>1. QED
        BY <3>1, <3>2
    <3>4. Fits(h, k)
      <4> SUFFICES ASSUME NEW i \in 1..k PROVE h[i] = IF i = 1 THEN seqs[i] ELSE h[i - 1] \o seqs[i]
        OBVIOUS
      <4>1. CASE i = k
        <5>1. i # 1 => i - 1 \in 1..n /\ i - 1 # k /\ h[i - 1] = g[i - 1]
          BY <4>1
        <5>2. h[i] = next
          BY <4>1
        <5>3. QED
          BY <4>1, <5>1, <5>2
      <4>2. CASE i # k
        <5>1. i \in 1..(k - 1) /\ i \in 1..n
          BY <4>2
        <5>2. g[i] = IF i = 1 THEN seqs[i] ELSE g[i - 1] \o seqs[i]
          BY <3>1, <5>1
        <5>3. h[i] = g[i] /\ (i # 1 => h[i - 1] = g[i - 1])
          BY <4>2, <5>1
        <5>4. QED
          BY <5>2, <5>3
      <4>3. QED
        BY <4>1, <4>2
    <3> HIDE DEF Fits, V, h
    <3>5. QED
      BY <3>3, <3>4
  <2>4. n \in Good
    <3> HIDE DEF Good
    <3>1. \A i \in 0..n : i \in Good
      BY <2>1, <2>2, <2>3, CountingUp
    <3>2. QED
      BY <2>1, <3>1
  <2>5. PICK g \in [1..n -> V] : Fits(g, n)
    BY <2>4
  <2>6. Flattens(g, seqs)
    BY <2>5 DEF Flattens
  <2> DEFINE all == CHOOSE iter : Flattens(iter, seqs)
  <2>7. Flattens(all, seqs)
    BY <2>6
  <2>8. \A i \in 1..n : all[i] = IF i = 1 THEN seqs[i] ELSE all[i - 1] \o seqs[i]
    BY <2>7 DEF Flattens
  <2>9. FlattenSeq(seqs) = all[n]
    BY <1>3 DEF FlattenSeq, Flattens
  <2> DEFINE Done == {k \in 0..n : k = 0 \/ ListsAll(all[k], Upto(k))}
  <2>10. ASSUME NEW k \in 1..n, k - 1 \in Done PROVE k \in Done
    <3> HIDE DEF all
    <3>1. k \in DOMAIN seqs
      OBVIOUS
    <3>2. CASE k = 1
      <4>1. Upto(1) = sets[1]
        OBVIOUS
      <4>2. all[1] = seqs[1] /\ ListsAll(seqs[1], sets[1])
        BY <2>1, <2>8
      <4>3. ListsAll(all[k], Upto(k))
        BY <3>2, <4>1, <4>2
      <4>4. QED
        BY <4>3
    <3>3. CASE k # 1
      <4>1. k - 1 \in 1..n /\ ListsAll(all[k - 1], Upto(k - 1))
        BY <2>10, <3>3
      <4>2. Upto(k) = Upto(k - 1) \cup sets[k]
        <5>1. \A i \in 1..k : i \in 1..(k - 1) \/ i = k
          OBVIOUS
        <5>2. 1..(k - 1) \subseteq 1..k /\ k \in 1..k
          OBVIOUS
        <5>3. QED
          BY <5>1, <5>2
      <4>3. Upto(k - 1) \cap sets[k] = {}
        <5>1. \A i \in 1..(k - 1) : i \in DOMAIN seqs /\ i # k
          OBVIOUS
        <5>2. QED
          BY <3>1, <5>1
      <4>4. all[k] = all[k - 1] \o seqs[k]
        BY <2>8, <3>3
      <4>5. ListsAll(seqs[k], sets[k])
        BY <3>1
      <4> HIDE DEF Upto
      <4>6. ListsAll(all[k - 1] \o seqs[k], Upto(k - 1) \cup sets[k])
        BY <4>1, <4>3, <4>5, JoinedLists
      <4>7. ListsAll(all[k], Upto(k))
        BY <4>2, <4>4, <4>6
      <4>8. QED
        BY <4>7
    <3>4. QED
      BY <3>2, <3>3
  <2>11. n \in Done
    <3> HIDE DEF Done
    <3>1. 0 \in Done
      BY <2>1 DEF Done
    <3>2. \A i \in 0..n : i \in Done
      BY <2>1, <2>10, <3>1, CountingUp
    <3>3. QED
      BY <2>1, <3>2
  <2> HIDE DEF all
  <2>12. ListsAll(all[n], Upto(n))
    BY <1>3, <2>11
  <2>13. QED
    BY <2>9, <2>12
<1>4. QED
  BY <1>2, <1>3

\* A list of a set is as long as the set is large.
LEMMA ListLength ==
  ASSUME NEW S, NEW list, ListsAll(list, S)
  PROVE  /\ Len(list) \in Nat /\ DOMAIN list = 1..Len(list)
         /\ IsFiniteSet(S) /\ Len(list) = Cardinality(S)
<1> DEFINE n == Len(list)
<1>1. list \in Seq(S) /\ n \in Nat /\ DOMAIN list = 1..n
  BY DEF ListsAll
<1>2. list \in [1..n -> S]
  BY <1>1
<1>3. \A i, j \in 1..n : list[i] = list[j] => i = j
  BY <1>1 DEF ListsAll, IsInjective
<1>4. \A x \in S : \E i \in 1..n : list[i] = x
  BY <1>1 DEF ListsAll, ToSet
<1>5. list \in Bijection(1..n, S)
  BY <1>2, <1>3, <1>4 DEF Bijection, Injection, Surjection, IsInjective
<1> HIDE DEF n
<1>6. IsFiniteSet(1..n) /\ Cardinality(1..n) = n
  BY <1>1, FS_Interval
<1>7. IsFiniteSet(S) /\ Cardinality(1..n) = Cardinality(S)
  <2>1. ExistsBijection(1..n, S)
    BY <1>5 DEF ExistsBijection
  <2>2. QED
    BY <1>6, <2>1, FS_Bijection
<1>8. QED
  BY <1>1, <1>6, <1>7 DEF n

\* A sum over the places of a list is the sum over the set that it lists.
LEMMA SumOverList ==
  ASSUME NEW S, NEW list, ListsAll(list, S), NEW f, \A x \in S : f[x] \in Nat
  PROVE  SumFunctionOnSet([i \in DOMAIN list |-> f[list[i]]], DOMAIN list) = SumFunctionOnSet(f, S)
<1> DEFINE D == DOMAIN list
           g == [i \in D |-> f[list[i]]]
           there == [i \in D |-> list[i]]
           back == [x \in S |-> CHOOSE i \in D : list[i] = x]
<1>1. IsFiniteSet(D) /\ IsFiniteSet(S)
  BY ListLength, FS_Interval
<1>2. S = {list[i] : i \in D} /\ \A i, j \in D : list[i] = list[j] => i = j
  BY DEF ListsAll, ToSet, IsInjective
<1>3. there \in [D -> S] /\ \A i, j \in D : there[i] = there[j] => i = j
  BY <1>2
<1>4. \A x \in S : back[x] \in D /\ list[back[x]] = x
  <2>1. \A x \in S : \E i \in D : list[i] = x
    BY <1>2
  <2>2. QED
    BY <2>1
<1>5. back \in [S -> D] /\ \A x, y \in S : back[x] = back[y] => x = y
  <2>1. back \in [S -> D]
    BY <1>4
  <2> HIDE DEF back
  <2>2. QED
    BY <1>4, <2>1
<1>6. \A i \in D : g[i] \in Nat /\ g[i] = f[there[i]]
  BY <1>2
<1>7. \A x \in S : f[x] = g[back[x]]
  <2> HIDE DEF back
  <2>1. QED
    BY <1>4
<1> HIDE DEF D, g, there, back
<1>8. SumFunctionOnSet(g, D) <= SumFunctionOnSet(f, S)
  <2>1. \A i \in D : g[i] <= f[there[i]]
    BY <1>6
  <2>2. QED
    BY <1>1, <1>3, <1>6, <2>1, SumOfMore
<1>9. SumFunctionOnSet(f, S) <= SumFunctionOnSet(g, D)
  <2>1. \A x \in S : f[x] <= g[back[x]]
    BY <1>7
  <2>2. QED
    BY <1>1, <1>5, <1>6, <2>1, SumOfMore
<1>10. SumFunctionOnSet(g, D) \in Nat /\ SumFunctionOnSet(f, S) \in Nat
  BY <1>1, <1>6, SumOverSet
<1>11. SumFunctionOnSet(g, D) = SumFunctionOnSet(f, S)
  BY <1>8, <1>9, <1>10
<1>12. QED
  BY <1>11 DEF g, D

ListOfLists(s, V) == s \in Seq(Seq(V))

\* One more list that lists nothing, place by place.
LEMMA OneMoreBlock ==
  ASSUME NEW V, NEW s, ListOfLists(s, V)
  PROVE  Append(s, <<>>) = [i \in 1..(Len(s) + 1) |-> IF i <= Len(s) THEN s[i] ELSE <<>>]
<1> DEFINE t == Append(s, <<>>)
           W == Seq(V)
<1>1. s \in Seq(W) /\ <<>> \in W
  BY DEF ListOfLists
<1> HIDE DEF W
<1>2. /\ Len(s) \in Nat /\ t \in Seq(W) /\ Len(t) = Len(s) + 1
      /\ t[Len(s) + 1] = <<>> /\ \A k \in 1..Len(s) : t[k] = s[k]
  BY <1>1
<1> HIDE DEF t
<1>3. DOMAIN t = 1..(Len(s) + 1) /\ t = [i \in DOMAIN t |-> t[i]]
  BY <1>2
<1>4. \A i \in 1..(Len(s) + 1) : t[i] = IF i <= Len(s) THEN s[i] ELSE <<>>
  BY <1>2
<1>5. QED
  BY <1>3, <1>4 DEF t

\* What a list of lists lists.
LEMMA ElementIsList ==
  ASSUME NEW V, NEW s, ListOfLists(s, V), NEW i \in 1..Len(s)
  PROVE  s[i] \in Seq(V)
BY DEF ListOfLists

\* all[k] is the first k lists, one after the other.
Joins(all, seqs, V) ==
  /\ all \in [1..Len(seqs) -> Seq(V)]
  /\ all[1] = seqs[1]
  /\ \A k \in 2..Len(seqs) : all[k] = all[k - 1] \o seqs[k]

\* A list of lists is flattened from the left.
LEMMA FlattenedFromTheLeft ==
  ASSUME NEW V, NEW seqs \in Seq(Seq(V)), Len(seqs) > 0
  PROVE  \E all : Joins(all, seqs, V) /\ FlattenSeq(seqs) = all[Len(seqs)]
<1> DEFINE n == Len(seqs)
           Fits(g, k) == \A i \in 1..k : g[i] = IF i = 1 THEN seqs[i] ELSE g[i - 1] \o seqs[i]
           Good == {k \in 0..n : \E g \in [1..n -> Seq(V)] : Fits(g, k)}
<1>1. n \in Nat /\ 1 \in 1..n /\ \A i \in 1..n : seqs[i] \in Seq(V)
  OBVIOUS
<1>2. 0 \in Good
  <2>1. [i \in 1..n |-> seqs[1]] \in [1..n -> Seq(V)]
    BY <1>1
  <2>2. \A g : Fits(g, 0)
    OBVIOUS
  <2> HIDE DEF Fits
  <2>3. QED
    BY <1>1, <2>1, <2>2
<1>3. ASSUME NEW k \in 1..n, k - 1 \in Good PROVE k \in Good
  <2>1. PICK g \in [1..n -> Seq(V)] : Fits(g, k - 1)
    BY <1>3
  <2> DEFINE next == IF k = 1 THEN seqs[1] ELSE g[k - 1] \o seqs[k]
             h == [i \in 1..n |-> IF i = k THEN next ELSE g[i]]
  <2>2. next \in Seq(V)
    <3>1. k # 1 => k - 1 \in 1..n
      OBVIOUS
    <3>2. k # 1 => g[k - 1] \in Seq(V)
      BY <2>1, <3>1
    <3>3. QED
      BY <1>1, <3>2
  <2>3. h \in [1..n -> Seq(V)]
    <3> HIDE DEF next
    <3>1. QED
      BY <2>1, <2>2
  <2>4. Fits(h, k)
    <3> SUFFICES ASSUME NEW i \in 1..k PROVE h[i] = IF i = 1 THEN seqs[i] ELSE h[i - 1] \o seqs[i]
      OBVIOUS
    <3>1. CASE i = k
      <4>1. i # 1 => i - 1 \in 1..n /\ i - 1 # k /\ h[i - 1] = g[i - 1]
        BY <3>1
      <4>2. h[i] = next
        BY <3>1
      <4>3. QED
        BY <3>1, <4>1, <4>2
    <3>2. CASE i # k
      <4>1. i \in 1..(k - 1) /\ i \in 1..n
        BY <3>2
      <4>2. g[i] = IF i = 1 THEN seqs[i] ELSE g[i - 1] \o seqs[i]
        BY <2>1, <4>1
      <4>3. h[i] = g[i] /\ (i # 1 => h[i - 1] = g[i - 1])
        BY <3>2, <4>1
      <4>4. QED
        BY <4>2, <4>3
    <3>3. QED
      BY <3>1, <3>2
  <2> HIDE DEF Fits, h
  <2>5. QED
    BY <2>3, <2>4
<1>4. n \in Good
  <2> HIDE DEF Good
  <2>1. \A i \in 0..n : i \in Good
    BY <1>1, <1>2, <1>3, CountingUp
  <2>2. QED
    BY <1>1, <2>1
<1>5. PICK g \in [1..n -> Seq(V)] : Fits(g, n)
  BY <1>4
<1>6. Flattens(g, seqs)
  BY <1>5 DEF Flattens
<1> DEFINE all == CHOOSE iter : Flattens(iter, seqs)
<1>7. Flattens(all, seqs)
  BY <1>6
<1>8. FlattenSeq(seqs) = all[n]
  BY <1>1 DEF FlattenSeq, Flattens
<1>9. all = [i \in 1..n |-> IF i = 1 THEN seqs[i] ELSE all[i - 1] \o seqs[i]]
  BY <1>7 DEF Flattens
<1> DEFINE Typed == {k \in 0..n : k = 0 \/ all[k] \in Seq(V)}
<1>10. ASSUME NEW k \in 1..n, k - 1 \in Typed PROVE k \in Typed
  <2> HIDE DEF all
  <2>1. all[k] = IF k = 1 THEN seqs[k] ELSE all[k - 1] \o seqs[k]
    BY <1>9
  <2>2. k # 1 => all[k - 1] \in Seq(V)
    BY <1>10
  <2>3. all[k] \in Seq(V)
    BY <1>1, <2>1, <2>2
  <2>4. QED
    BY <2>3
<1>11. \A k \in 1..n : all[k] \in Seq(V)
  <2> HIDE DEF all
  <2>1. 0 \in Typed
    BY <1>1
  <2> HIDE DEF Typed
  <2>2. \A k \in 0..n : k \in Typed
    BY <1>1, <1>10, <2>1, CountingUp
  <2>3. QED
    BY <2>2 DEF Typed
<1> HIDE DEF all
<1>12. DOMAIN all = 1..n
  BY <1>9
<1>13. all \in [1..n -> Seq(V)]
  BY <1>9, <1>11, <1>12
<1>14. all[1] = seqs[1] /\ \A k \in 2..n : all[k] = all[k - 1] \o seqs[k]
  <2>1. \A i \in 1..n : all[i] = IF i = 1 THEN seqs[i] ELSE all[i - 1] \o seqs[i]
    BY <1>9
  <2>2. \A k \in 2..n : k \in 1..n /\ k # 1
    BY <1>1
  <2> HIDE DEF n
  <2>3. QED
    BY <1>1, <2>1, <2>2
<1>15. QED
  BY <1>8, <1>13, <1>14 DEF Joins

\* Where two lists of lists agree up to a place, so do they when flattened up to there.
LEMMA JoinsAgree ==
  ASSUME NEW V, NEW s, NEW t, NEW a, NEW b, Joins(a, s, V), Joins(b, t, V),
         Len(s) \in Nat, Len(t) \in Nat, NEW m \in Nat, m <= Len(s), m <= Len(t),
         \A k \in 1..m : s[k] = t[k]
  PROVE  \A k \in 1..m : a[k] = b[k]
<1> DEFINE Good == {k \in 0..m : k = 0 \/ a[k] = b[k]}
<1>1. ASSUME NEW k \in 1..m, k - 1 \in Good PROVE k \in Good
  <2>1. CASE k = 1
    BY <1>1, <2>1 DEF Joins
  <2>2. CASE k # 1
    <3>1. k \in 2..Len(s) /\ k \in 2..Len(t)
      BY <2>2
    <3>2. a[k] = a[k - 1] \o s[k] /\ b[k] = b[k - 1] \o t[k]
      BY <3>1 DEF Joins
    <3>3. a[k - 1] = b[k - 1] /\ s[k] = t[k]
      BY <1>1, <2>2
    <3>4. a[k] = b[k]
      BY <3>2, <3>3
    <3>5. QED
      BY <3>4
  <2>3. QED
    BY <2>1, <2>2
<1>2. 0 \in Good
  OBVIOUS
<1> HIDE DEF Good
<1>3. \A k \in 0..m : k \in Good
  BY <1>1, <1>2, CountingUp
<1>4. QED
  BY <1>3 DEF Good

\* An empty list at the end adds nothing.
LEMMA FlattenedWithNothing ==
  ASSUME NEW V, NEW s, ListOfLists(s, V)
  PROVE  FlattenSeq(Append(s, <<>>)) = FlattenSeq(s)
<1> DEFINE t == Append(s, <<>>)
           n == Len(s)
<1>1. /\ ListOfLists(t, V) /\ Len(t) = n + 1 /\ n \in Nat
      /\ t[n + 1] = <<>> /\ \A k \in 1..n : t[k] = s[k]
  BY DEF ListOfLists
<1>2. n = 0 => s = <<>>
  BY DEF ListOfLists
<1> HIDE DEF t, n
<1>3. PICK b : Joins(b, t, V) /\ FlattenSeq(t) = b[n + 1]
  <2>1. t \in Seq(Seq(V)) /\ Len(t) > 0 /\ Len(t) = n + 1
    BY <1>1 DEF ListOfLists
  <2>2. QED
    BY <2>1, FlattenedFromTheLeft
<1>4. CASE n = 0
  <2>1. FlattenSeq(s) = <<>>
    BY <1>2, <1>4 DEF FlattenSeq
  <2>2. b[1] = t[1] /\ t[1] = <<>>
    BY <1>1, <1>3, <1>4 DEF Joins
  <2>3. QED
    BY <1>3, <1>4, <2>1, <2>2 DEF t
<1>5. CASE n # 0
  <2>1. n > 0 /\ n + 1 \in 2..Len(t) /\ (n + 1) - 1 = n
    BY <1>1, <1>5
  <2>2. PICK a : Joins(a, s, V) /\ FlattenSeq(s) = a[n]
    BY <2>1, FlattenedFromTheLeft DEF n, ListOfLists
  <2>3. \A k \in 1..n : s[k] = t[k]
    BY <1>1
  <2>4. Len(s) \in Nat /\ Len(t) \in Nat /\ n <= Len(s) /\ n <= Len(t)
    BY <1>1 DEF n
  <2>5. \A k \in 1..n : a[k] = b[k]
    BY <1>1, <1>3, <2>2, <2>3, <2>4, JoinsAgree
  <2>6. b[n + 1] = b[n] \o <<>>
    BY <1>1, <1>3, <2>1 DEF Joins
  <2>7. b[n] \in Seq(V) /\ a[n] = b[n]
    <3>1. n \in 1..n /\ n \in 1..Len(t)
      BY <1>1, <2>1
    <3>2. QED
      BY <1>3, <2>5, <3>1 DEF Joins
  <2>8. b[n] \o <<>> = b[n]
    BY <2>7
  <2>9. QED
    BY <1>3, <2>2, <2>6, <2>7, <2>8 DEF t
<1>6. QED
  BY <1>4, <1>5

\* Three lists one after the other: which two are joined first does not matter.
LEMMA JoinedInAnyOrder ==
  ASSUME NEW V, NEW a \in Seq(V), NEW b \in Seq(V), NEW c \in Seq(V)
  PROVE  (a \o b) \o c = a \o (b \o c)
<1>1. Len((a \o b) \o c) = Len(a \o (b \o c))
  OBVIOUS
<1>2. \A i \in 1..Len((a \o b) \o c) : ((a \o b) \o c)[i] = (a \o (b \o c))[i]
  OBVIOUS
<1>3. (a \o b) \o c \in Seq(V) /\ a \o (b \o c) \in Seq(V)
  OBVIOUS
<1> DEFINE l == (a \o b) \o c
           r == a \o (b \o c)
<1> HIDE DEF l, r
<1>4. l = r
  <2>1. l \in Seq(V) /\ r \in Seq(V) /\ Len(l) = Len(r) /\ \A i \in 1..Len(l) : l[i] = r[i]
    BY <1>1, <1>2, <1>3 DEF l, r
  <2>2. l = [i \in 1..Len(l) |-> l[i]] /\ r = [i \in 1..Len(r) |-> r[i]]
    BY <2>1
  <2>3. QED
    BY <2>1, <2>2
<1>5. QED
  BY <1>4 DEF l, r

\* So the order in which two more lists are joined to a first one does not matter.
JoinsEitherWay(V, h) == \A x, y \in Seq(V) : (h \o x) \o y = h \o (x \o y)

LEMMA JoinedToTheFirst ==
  ASSUME NEW V, NEW h \in Seq(V)
  PROVE  JoinsEitherWay(V, h)
BY JoinedInAnyOrder, SMT DEF JoinsEitherWay

\* Two lists of lists that differ at the places i and i + 1 only, and there together list
\* the same.
SameNextTo(s, t, i) ==
  /\ Len(t) = Len(s)
  /\ s[i] \o s[i + 1] = t[i] \o t[i + 1]
  /\ \A k \in 1..Len(s) : k # i /\ k # i + 1 => s[k] = t[k]

\* Two neighbours may change as long as both of them together list the same.
LEMMA FlattenedNeighbours ==
  ASSUME NEW V, NEW s, NEW t, ListOfLists(s, V), ListOfLists(t, V),
         NEW i \in 1..(Len(s) - 1), SameNextTo(s, t, i)
  PROVE  FlattenSeq(s) = FlattenSeq(t)
<1> DEFINE n == Len(s)
<1>1. /\ n \in Nat /\ n > 0 /\ i \in 1..n /\ i + 1 \in 2..n /\ (i + 1) - 1 = i
      /\ Len(t) = n
  <2>1. n \in Nat /\ i \in 1..(n - 1)
    BY DEF ListOfLists
  <2>2. Len(t) = n
    BY Zenon DEF SameNextTo
  <2> HIDE DEF n
  <2>3. n > 0 /\ i \in 1..n /\ i + 1 \in 2..n /\ (i + 1) - 1 = i
    BY <2>1
  <2>4. QED
    BY <2>1, <2>2, <2>3
<1>2. PICK a : Joins(a, s, V) /\ FlattenSeq(s) = a[n]
  BY <1>1, FlattenedFromTheLeft DEF ListOfLists
<1>3. PICK b : Joins(b, t, V) /\ FlattenSeq(t) = b[n]
  BY <1>1, FlattenedFromTheLeft DEF ListOfLists
<1>4. \A k \in 1..(i - 1) : a[k] = b[k]
  <2>1. \A k \in 1..(i - 1) : s[k] = t[k]
    BY DEF SameNextTo
  <2> DEFINE m == i - 1
  <2>2. m \in Nat /\ Len(s) \in Nat /\ Len(t) \in Nat /\ m <= Len(s) /\ m <= Len(t)
    BY <1>1
  <2>3. \A k \in 1..m : s[k] = t[k]
    BY <2>1
  <2> HIDE DEF m
  <2>4. \A k \in 1..m : a[k] = b[k]
    BY <1>2, <1>3, <2>2, <2>3, JoinsAgree
  <2>5. QED
    BY <2>4 DEF m
<1>5. s[i] \in Seq(V) /\ s[i + 1] \in Seq(V) /\ t[i] \in Seq(V) /\ t[i + 1] \in Seq(V)
  <2>1. i \in 1..Len(s) /\ i + 1 \in 1..Len(s) /\ i \in 1..Len(t) /\ i + 1 \in 1..Len(t)
    BY <1>1
  <2>2. QED
    BY <2>1, ElementIsList
<1>6. a[i + 1] = b[i + 1]
  <2>1. a[i + 1] = a[i] \o s[i + 1] /\ b[i + 1] = b[i] \o t[i + 1]
    BY <1>1, <1>2, <1>3 DEF Joins
  <2>2. CASE i = 1
    BY <1>2, <1>3, <2>1, <2>2 DEF Joins, SameNextTo
  <2>3. CASE i # 1
    <3>1. i \in 2..n /\ i - 1 \in 1..n /\ i - 1 \in 1..(i - 1)
      BY <1>1, <2>3
    <3>2. a[i] = a[i - 1] \o s[i] /\ b[i] = b[i - 1] \o t[i]
      BY <1>1, <1>2, <1>3, <3>1 DEF Joins
    <3>3. a[i - 1] = b[i - 1] /\ a[i - 1] \in Seq(V)
      BY <1>2, <1>4, <3>1 DEF Joins
    <3> DEFINE head == a[i - 1]
    <3>4. \A x, y \in Seq(V) : (head \o x) \o y = head \o (x \o y)
      <4>1. head \in Seq(V)
        BY <3>3
      <4> HIDE DEF head
      <4>2. JoinsEitherWay(V, head)
        BY <4>1, JoinedToTheFirst, Zenon
      <4>3. QED
        BY <4>2, Zenon DEF JoinsEitherWay
    <3>5. /\ (head \o s[i]) \o s[i + 1] = head \o (s[i] \o s[i + 1])
          /\ (head \o t[i]) \o t[i + 1] = head \o (t[i] \o t[i + 1])
      <4> HIDE DEF head
      <4>1. QED
        BY <1>5, <3>4, Zenon
    <3>6. QED
      <4>1. s[i] \o s[i + 1] = t[i] \o t[i + 1]
        BY Zenon DEF SameNextTo
      <4>2. a[i + 1] = head \o (s[i] \o s[i + 1]) /\ b[i + 1] = head \o (t[i] \o t[i + 1])
        BY <2>1, <3>2, <3>3, <3>5, Zenon
      <4>3. QED
        BY <4>1, <4>2, Zenon
  <2>4. QED
    BY <2>2, <2>3
<1> DEFINE Good == {k \in 0..n : k <= i \/ a[k] = b[k]}
<1>7. ASSUME NEW k \in 1..n, k - 1 \in Good PROVE k \in Good
  <2>1. CASE k <= i
    BY <2>1
  <2>2. CASE k = i + 1
    BY <1>6, <2>2
  <2>3. CASE k > i + 1
    <3>1. k \in 2..n /\ s[k] = t[k] /\ a[k - 1] = b[k - 1]
      BY <1>7, <2>3 DEF SameNextTo
    <3>2. a[k] = a[k - 1] \o s[k] /\ b[k] = b[k - 1] \o t[k]
      BY <1>1, <1>2, <1>3, <3>1 DEF Joins
    <3>3. a[k] = b[k]
      BY <3>1, <3>2
    <3>4. QED
      BY <3>3
  <2>4. QED
    BY <1>1, <2>1, <2>2, <2>3
<1>8. 0 \in Good
  BY <1>1
<1> HIDE DEF Good
<1>9. \A k \in 0..n : k \in Good
  BY <1>1, <1>7, <1>8, CountingUp
<1>10. a[n] = b[n]
  <2>1. n \in Good /\ ~ (n <= i)
    BY <1>1, <1>9
  <2>2. QED
    BY <2>1 DEF Good
<1>11. QED
  BY <1>2, <1>3, <1>10

\* The first place at which a list has what is looked for.
LEMMA FirstPlace ==
  ASSUME NEW n \in Nat, NEW Places, Places \subseteq 1..n, Places # {}
  PROVE  \E i \in Places : \A j \in 1..(i - 1) : j \notin Places
<1> SUFFICES ASSUME \A i \in Places : \E j \in 1..(i - 1) : j \in Places PROVE FALSE
  OBVIOUS
<1> DEFINE Good == {k \in 0..n : \A j \in 1..k : j \notin Places}
<1>1. 0 \in Good
  OBVIOUS
<1>2. ASSUME NEW k \in 1..n, k - 1 \in Good PROVE k \in Good
  <2>1. \A j \in 1..(k - 1) : j \notin Places
    BY <1>2
  <2>2. k \notin Places
    BY <2>1
  <2>3. \A j \in 1..k : j \in 1..(k - 1) \/ j = k
    OBVIOUS
  <2>4. QED
    BY <2>1, <2>2, <2>3
<1> HIDE DEF Good
<1>3. n \in Good
  <2>1. \A k \in 0..n : k \in Good
    BY <1>1, <1>2, CountingUp
  <2>2. QED
    BY <2>1
<1>4. QED
  BY <1>3 DEF Good
=============================================================================

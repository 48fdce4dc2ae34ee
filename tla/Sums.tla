-------------------------------- MODULE Sums --------------------------------
(***************************************************************************)
(* Facts about SumFunction, the sum of a function over its finite domain,  *)
(* for the modules that reconcile balances, quantities and totals.         *)
(*                                                                         *)
(* SumFunction is a fold over the subsets of the domain that takes out one *)
(* chosen element after the other.  That the fold is defined at all, and   *)
(* what it yields, is shown by taking a least set for which it would fail. *)
(***************************************************************************)
EXTENDS Integers, Functions, FiniteSets, FiniteSetTheorems, WellFoundedInduction, TLAPS

Some(s) == CHOOSE x \in s : TRUE

\* g is the sum of f over each subset of S of at most n elements.
SumsUpTo(f, S, n, g) ==
    /\ g \in [SUBSET S -> Int]
    /\ \A s \in SUBSET S : Cardinality(s) <= n =>
          g[s] = IF s = {} THEN 0 ELSE f[Some(s)] + g[s \ {Some(s)}]

\* g is the sum of f over each subset of S.
PartialSums(f, S, g) ==
    /\ g \in [SUBSET S -> Int]
    /\ \A s \in SUBSET S : g[s] = IF s = {} THEN 0 ELSE f[Some(s)] + g[s \ {Some(s)}]

-----------------------------------------------------------------------------
(* Least counterexamples.                                                  *)

LEMMA LeastNatural ==
    ASSUME NEW T, T \subseteq Nat, T # {}
    PROVE  \E n \in T : \A m \in T : n <= m
  <1>1. PICK n \in T : \A m \in T : ~ (<<m, n>> \in OpToRel(<, Nat))
    BY NatLessThanWellFounded, WFMin
  <1>2. ASSUME NEW m \in T
        PROVE  n <= m
    <2>1. <<m, n>> \in Nat \X Nat /\ <<m, n>>[1] = m /\ <<m, n>>[2] = n
      OBVIOUS
    <2>2. ~ (m < n)
      BY <1>1, <2>1 DEF OpToRel
    <2> QED
      BY <2>2
  <1> QED
    BY <1>2

LEMMA OneLess ==
    ASSUME NEW S, IsFiniteSet(S), NEW s \in SUBSET S, NEW x \in s
    PROVE  /\ x \in S /\ s \ {x} \in SUBSET S
           /\ Cardinality(s) \in Nat /\ Cardinality(s \ {x}) = Cardinality(s) - 1
  <1>1. IsFiniteSet(s)
    BY FS_Subset
  <1> QED
    BY <1>1, FS_RemoveElement, FS_CardinalityType

LEMMA SomeOfSet ==
    ASSUME NEW s, s # {}
    PROVE  Some(s) \in s
  BY DEF Some

\* A set of subsets of S has a member that no longer belongs to it when it loses
\* an element.
LEMMA LeastSubset ==
    ASSUME NEW S, IsFiniteSet(S), NEW T, T \subseteq SUBSET S, T # {}
    PROVE  \E t \in T : \A x \in t : x \in S /\ t \ {x} \in (SUBSET S) \ T
  <1> DEFINE Sizes == {Cardinality(t) : t \in T}
  <1>1. Sizes \subseteq Nat /\ Sizes # {}
    BY FS_Subset, FS_CardinalityType
  <1>2. PICK n \in Sizes : \A m \in Sizes : n <= m
    <2> HIDE DEF Sizes
    <2> QED
      BY <1>1, LeastNatural
  <1>3. PICK t \in T : Cardinality(t) = n
    BY <1>2
  <1>4. ASSUME NEW x \in t
        PROVE  x \in S /\ t \ {x} \in (SUBSET S) \ T
    <2>1. /\ x \in S /\ t \ {x} \in SUBSET S
          /\ Cardinality(t) \in Nat /\ Cardinality(t \ {x}) = Cardinality(t) - 1
      BY OneLess
    <2> QED
      BY <1>2, <1>3, <2>1
  <1> QED
    BY <1>4

\* G has each subset of S from which every element can be taken and leave a set of G.
Grows(S, G) == \A s \in SUBSET S : (\A x \in s : s \ {x} \in G) => s \in G

\* Induction over the subsets of a finite set.
LEMMA SubsetInduction ==
    ASSUME NEW S, IsFiniteSet(S), NEW G, Grows(S, G), NEW u \in SUBSET S
    PROVE  u \in G
  <1> DEFINE T == (SUBSET S) \ G
  <1>1. T \subseteq SUBSET S
    OBVIOUS
  <1>2. ASSUME NEW t \in T
        PROVE  ~ \A x \in t : x \in S /\ t \ {x} \in (SUBSET S) \ T
    BY DEF Grows
  <1>3. T = {}
    <2> HIDE DEF T
    <2>1. SUFFICES ASSUME T # {}
                   PROVE  FALSE
      OBVIOUS
    <2>2. \E t \in T : \A x \in t : x \in S /\ t \ {x} \in (SUBSET S) \ T
      BY <1>1, <2>1, LeastSubset
    <2> QED
      BY <1>2, <2>2
  <1> QED
    BY <1>3

-----------------------------------------------------------------------------
(* The fold is defined.                                                    *)

LEMMA SumsUpToZero ==
    ASSUME NEW S, IsFiniteSet(S), NEW f \in [S -> Int]
    PROVE  \E g : SumsUpTo(f, S, 0, g)
  <1> DEFINE g == [s \in SUBSET S |-> 0]
  <1>1. ASSUME NEW s \in SUBSET S, Cardinality(s) <= 0
        PROVE  s = {}
    <2>1. IsFiniteSet(s) /\ Cardinality(s) \in Nat
      BY FS_Subset, FS_CardinalityType
    <2> QED
      BY <1>1, <2>1, FS_EmptySet
  <1>2. SumsUpTo(f, S, 0, g)
    BY <1>1 DEF SumsUpTo
  <1> QED
    BY <1>2

LEMMA SumsUpToNext ==
    ASSUME NEW S, IsFiniteSet(S), NEW f \in [S -> Int], NEW n \in Nat, NEW g,
           SumsUpTo(f, S, n, g)
    PROVE  \E h : SumsUpTo(f, S, n + 1, h)
  <1> DEFINE h == [s \in SUBSET S |->
                     IF s = {} THEN 0 ELSE f[Some(s)] + g[s \ {Some(s)}]]
  <1>1. ASSUME NEW s \in SUBSET S, s # {}
        PROVE  /\ f[Some(s)] \in Int /\ s \ {Some(s)} \in SUBSET S
               /\ g[s \ {Some(s)}] \in Int
               /\ Cardinality(s) \in Nat /\ Cardinality(s \ {Some(s)}) = Cardinality(s) - 1
    <2>1. /\ Some(s) \in S /\ s \ {Some(s)} \in SUBSET S
          /\ Cardinality(s) \in Nat /\ Cardinality(s \ {Some(s)}) = Cardinality(s) - 1
      BY <1>1, OneLess, SomeOfSet
    <2>2. g \in [SUBSET S -> Int]
      BY DEF SumsUpTo
    <2> QED
      BY <2>1, <2>2
  <1>2. h \in [SUBSET S -> Int]
    <2>1. ASSUME NEW s \in SUBSET S
          PROVE  (IF s = {} THEN 0 ELSE f[Some(s)] + g[s \ {Some(s)}]) \in Int
      <3>1. CASE s = {}
        BY <3>1
      <3>2. CASE s # {}
        <4>1. f[Some(s)] \in Int /\ g[s \ {Some(s)}] \in Int
          BY <1>1, <3>2
        <4> QED
          BY <3>2, <4>1
      <3> QED
        BY <3>1, <3>2
    <2> QED
      BY <2>1
  <1>3. ASSUME NEW s \in SUBSET S, Cardinality(s) <= n + 1
        PROVE  h[s] = IF s = {} THEN 0 ELSE f[Some(s)] + h[s \ {Some(s)}]
    <2>1. CASE s = {}
      BY <2>1
    <2>2. CASE s # {}
      <3> DEFINE t == s \ {Some(s)}
      <3>1. t \in SUBSET S /\ Cardinality(t) <= n
        BY <1>1, <1>3, <2>2
      <3>2. h[s] = f[Some(s)] + g[t]
        BY <2>2
      <3>3. g[t] = IF t = {} THEN 0 ELSE f[Some(t)] + g[t \ {Some(t)}]
        BY <3>1 DEF SumsUpTo
      <3>4. h[t] = g[t]
        BY <3>1, <3>3
      <3> QED
        BY <2>2, <3>2, <3>4
    <2> QED
      BY <2>1, <2>2
  <1>4. SumsUpTo(f, S, n + 1, h)
    BY <1>2, <1>3 DEF SumsUpTo
  <1> QED
    BY <1>4

LEMMA SumsExist ==
    ASSUME NEW S, IsFiniteSet(S), NEW f \in [S -> Int]
    PROVE  \E g : PartialSums(f, S, g)
  <1> DEFINE Missing == {n \in Nat : ~ \E g : SumsUpTo(f, S, n, g)}
  <1>1. Missing = {}
    <2>1. SUFFICES ASSUME Missing # {}
                   PROVE  FALSE
      OBVIOUS
    <2>2. PICK n \in Missing : \A m \in Missing : n <= m
      <3>1. Missing \subseteq Nat /\ Missing # {}
        BY <2>1
      <3> HIDE DEF Missing
      <3> QED
        BY <3>1, LeastNatural
    <2>3. n # 0
      BY SumsUpToZero
    <2>4. n - 1 \in Nat /\ n - 1 \notin Missing
      BY <2>2, <2>3
    <2>5. PICK g : SumsUpTo(f, S, n - 1, g)
      BY <2>4
    <2>6. \E h : SumsUpTo(f, S, (n - 1) + 1, h)
      BY <2>4, <2>5, SumsUpToNext
    <2> QED
      BY <2>2, <2>6
  <1>2. /\ Cardinality(S) \in Nat
        /\ \A s \in SUBSET S : Cardinality(s) <= Cardinality(S)
    BY FS_CardinalityType, FS_Subset
  <1>3. \E g : SumsUpTo(f, S, Cardinality(S), g)
    BY <1>1, <1>2
  <1> QED
    BY <1>2, <1>3 DEF PartialSums, SumsUpTo

\* SumFunction is the last of the partial sums.
LEMMA SumIsPartialSum ==
    ASSUME NEW S, IsFiniteSet(S), NEW f \in [S -> Int]
    PROVE  \E g : PartialSums(f, S, g) /\ SumFunction(f) = g[S]
  <1> DEFINE Iter(h) == h = [s \in SUBSET S |->
                                IF s = {} THEN 0
                                ELSE LET x == CHOOSE x \in s : TRUE
                                     IN  f[x] + h[s \ {x}]]
             it == CHOOSE h : Iter(h)
  <1>1. PICK g : PartialSums(f, S, g)
    BY SumsExist
  <1>2. Iter(g)
    BY <1>1 DEF PartialSums, Some
  <1>3. Iter(it)
    BY <1>2
  <1>4. SumFunction(f) = it[S]
    BY DEF SumFunction, SumFunctionOnSet, FoldFunctionOnSet, MapThenFoldSet
  <1>5. \A s \in SUBSET S : it[s] = IF s = {} THEN 0 ELSE f[Some(s)] + it[s \ {Some(s)}]
    BY <1>3 DEF Some
  <1> HIDE DEF it, Iter
  <1> DEFINE G == {s \in SUBSET S : it[s] = g[s]}
  <1>6. ASSUME NEW s \in SUBSET S, \A x \in s : s \ {x} \in G
        PROVE  s \in G
    BY <1>1, <1>5, <1>6, SomeOfSet DEF PartialSums
  <1>7. S \in G
    <2>1. Grows(S, G)
      BY <1>6 DEF Grows
    <2> HIDE DEF G
    <2> QED
      BY <2>1, SubsetInduction
  <1> QED
    BY <1>1, <1>4, <1>7

-----------------------------------------------------------------------------
(* What sums do.                                                           *)

\* Any element can be taken out first.
LEMMA TakeOut ==
    ASSUME NEW S, IsFiniteSet(S), NEW f \in [S -> Int], NEW p, PartialSums(f, S, p),
           NEW t \in SUBSET S, NEW y \in t
    PROVE  p[t] = f[y] + p[t \ {y}]
  <1> DEFINE G == {s \in SUBSET S : \A x \in s : p[s] = f[x] + p[s \ {x}]}
  <1>1. ASSUME NEW s \in SUBSET S, \A x \in s : s \ {x} \in G
        PROVE  s \in G
    <2>1. SUFFICES ASSUME NEW x \in s
                   PROVE  p[s] = f[x] + p[s \ {x}]
      OBVIOUS
    <2> DEFINE c == Some(s)
    <2>2. c \in s /\ p[s] = f[c] + p[s \ {c}]
      BY SomeOfSet DEF PartialSums
    <2>3. CASE c = x
      BY <2>2, <2>3
    <2>4. CASE c # x
      <3>1. p[s \ {c}] = f[x] + p[(s \ {c}) \ {x}]
        BY <1>1, <2>2, <2>4
      <3>2. p[s \ {x}] = f[c] + p[(s \ {x}) \ {c}]
        BY <1>1, <2>2, <2>4
      <3>3. (s \ {x}) \ {c} = (s \ {c}) \ {x}
        OBVIOUS
      <3>4. f[x] \in Int /\ f[c] \in Int /\ p[(s \ {c}) \ {x}] \in Int
        BY <2>2 DEF PartialSums
      <3> HIDE DEF c
      <3>5. p[s] = f[c] + (f[x] + p[(s \ {c}) \ {x}])
        BY <2>2, <3>1
      <3>6. p[s \ {x}] = f[c] + p[(s \ {c}) \ {x}]
        BY <3>2, <3>3
      <3> QED
        BY <3>4, <3>5, <3>6
    <2> QED
      BY <2>3, <2>4
  <1>2. t \in G
    <2>1. Grows(S, G)
      BY <1>1 DEF Grows
    <2> HIDE DEF G
    <2> QED
      BY <2>1, SubsetInduction
  <1> QED
    BY <1>2

\* p gives the sum of f over each subset of S.
Sums(f, S, p) ==
    /\ p[{}] = 0
    /\ \A s \in SUBSET S : \A x \in s : p[s] = f[x] + p[s \ {x}]

LEMMA SumIsLastOfSums ==
    ASSUME NEW S, IsFiniteSet(S), NEW f \in [S -> Int]
    PROVE  \E p \in [SUBSET S -> Int] : Sums(f, S, p) /\ SumFunction(f) = p[S]
  <1>1. PICK p : PartialSums(f, S, p) /\ SumFunction(f) = p[S]
    BY SumIsPartialSum
  <1>2. ASSUME NEW s \in SUBSET S, NEW x \in s
        PROVE  p[s] = f[x] + p[s \ {x}]
    BY <1>1, TakeOut
  <1>3. p \in [SUBSET S -> Int] /\ p[{}] = 0
    BY <1>1 DEF PartialSums
  <1> QED
    BY <1>1, <1>2, <1>3 DEF Sums

LEMMA SumType ==
    ASSUME NEW S, IsFiniteSet(S), NEW f \in [S -> Int]
    PROVE  SumFunction(f) \in Int
  <1>1. PICK p \in [SUBSET S -> Int] : Sums(f, S, p) /\ SumFunction(f) = p[S]
    BY SumIsLastOfSums
  <1> QED
    BY <1>1

\* Over a part of the domain where f and g agree their sums agree.
LEMMA SumsAgree ==
    ASSUME NEW S, IsFiniteSet(S), NEW f, NEW g, \A x \in S : f[x] = g[x],
           NEW T, S \subseteq T, NEW U, S \subseteq U,
           NEW p, Sums(f, T, p), NEW q, Sums(g, U, q)
    PROVE  p[S] = q[S]
  <1> DEFINE G == {s \in SUBSET S : p[s] = q[s]}
  <1>1. ASSUME NEW s \in SUBSET S, \A x \in s : s \ {x} \in G
        PROVE  s \in G
    <2>1. CASE s = {}
      BY <2>1 DEF Sums
    <2>2. CASE s # {}
      <3>1. PICK x \in s : x \in S
        BY <2>2
      <3>2. q[s \ {x}] = p[s \ {x}] /\ g[x] = f[x]
        BY <1>1, <3>1
      <3>3. s \in SUBSET T /\ s \in SUBSET U
        OBVIOUS
      <3>4. p[s] = f[x] + p[s \ {x}] /\ q[s] = g[x] + q[s \ {x}]
        BY <3>1, <3>3 DEF Sums
      <3> QED
        BY <3>2, <3>4
    <2> QED
      BY <2>1, <2>2
  <1>2. S \in G
    <2>1. Grows(S, G)
      BY <1>1 DEF Grows
    <2> HIDE DEF G
    <2> QED
      BY <2>1, SubsetInduction
  <1> QED
    BY <1>2

\* The sum of no terms.
LEMMA SumEmpty ==
    ASSUME NEW f \in [{} -> Int]
    PROVE  SumFunction(f) = 0
  <1> DEFINE S == {}
  <1>1. IsFiniteSet(S) /\ f \in [S -> Int]
    BY FS_EmptySet
  <1> HIDE DEF S
  <1>2. PICK p \in [SUBSET S -> Int] : Sums(f, S, p) /\ SumFunction(f) = p[S]
    BY <1>1, SumIsLastOfSums
  <1> QED
    BY <1>2 DEF S, Sums

\* A term that changes changes the sum by as much.
LEMMA SumUpdate ==
    ASSUME NEW S, IsFiniteSet(S), NEW f \in [S -> Int], NEW g \in [S -> Int],
           NEW a \in S, \A x \in S \ {a} : f[x] = g[x]
    PROVE  SumFunction(g) = SumFunction(f) + (g[a] - f[a])
  <1>1. PICK p \in [SUBSET S -> Int] : Sums(f, S, p) /\ SumFunction(f) = p[S]
    BY SumIsLastOfSums
  <1>2. PICK q \in [SUBSET S -> Int] : Sums(g, S, q) /\ SumFunction(g) = q[S]
    BY SumIsLastOfSums
  <1>3. p[S \ {a}] = q[S \ {a}]
    <2>1. IsFiniteSet(S \ {a}) /\ S \ {a} \subseteq S
      BY FS_Subset
    <2> QED
      BY <1>1, <1>2, <2>1, SumsAgree
  <1>4. p[S] = f[a] + p[S \ {a}] /\ q[S] = g[a] + q[S \ {a}]
    BY <1>1, <1>2 DEF Sums
  <1>5. f[a] \in Int /\ g[a] \in Int /\ p[S \ {a}] \in Int
    BY <1>1
  <1> QED
    BY <1>1, <1>2, <1>3, <1>4, <1>5

\* One more term.
LEMMA SumExtend ==
    ASSUME NEW S, IsFiniteSet(S), NEW f \in [S -> Int], NEW a, a \notin S,
           NEW T, S = T \ {a}, a \in T, NEW g \in [T -> Int], \A x \in S : f[x] = g[x]
    PROVE  SumFunction(g) = SumFunction(f) + g[a]
  <1>1. PICK p \in [SUBSET S -> Int] : Sums(f, S, p) /\ SumFunction(f) = p[S]
    BY SumIsLastOfSums
  <1>2. IsFiniteSet(T)
    <2>1. T = S \cup {a}
      OBVIOUS
    <2> QED
      BY <2>1, FS_AddElement
  <1>3. PICK q \in [SUBSET T -> Int] : Sums(g, T, q) /\ SumFunction(g) = q[T]
    BY <1>2, SumIsLastOfSums
  <1>4. p[S] = q[S]
    BY <1>1, <1>3, SumsAgree
  <1>5. q[T] = g[a] + q[T \ {a}] /\ T \ {a} = S
    BY <1>3 DEF Sums
  <1>6. g[a] \in Int /\ p[S] \in Int
    BY <1>1
  <1>7. SumFunction(f) = p[S] /\ SumFunction(g) = g[a] + p[S]
    BY <1>1, <1>3, <1>4, <1>5
  <1> QED
    BY <1>6, <1>7

\* The sum of one sequence of terms more.
LEMMA SumAppend ==
    ASSUME NEW n \in Nat, NEW f \in [1 .. n -> Int], NEW g \in [1 .. n + 1 -> Int],
           \A i \in 1 .. n : f[i] = g[i]
    PROVE  SumFunction(g) = SumFunction(f) + g[n + 1]
  <1> DEFINE S == 1 .. n
             T == 1 .. n + 1
  <1>1. IsFiniteSet(S)
    BY FS_Interval
  <1>2. S = T \ {n + 1} /\ n + 1 \in T /\ n + 1 \notin S
    OBVIOUS
  <1>3. f \in [S -> Int] /\ g \in [T -> Int] /\ \A i \in S : f[i] = g[i]
    OBVIOUS
  <1> HIDE DEF S, T
  <1> QED
    BY <1>1, <1>2, <1>3, SumExtend

\* Smaller terms, and no positive ones added, no larger sum.
LEMMA SumShrinks ==
    ASSUME NEW T, IsFiniteSet(T), NEW S, S \subseteq T,
           NEW f \in [S -> Int], NEW g \in [T -> Int],
           \A x \in S : g[x] <= f[x], \A x \in T \ S : g[x] <= 0
    PROVE  SumFunction(g) <= SumFunction(f)
  <1>1. IsFiniteSet(S)
    BY FS_Subset
  <1>2. PICK p \in [SUBSET S -> Int] : Sums(f, S, p) /\ SumFunction(f) = p[S]
    BY <1>1, SumIsLastOfSums
  <1>3. PICK q \in [SUBSET T -> Int] : Sums(g, T, q) /\ SumFunction(g) = q[T]
    BY SumIsLastOfSums
  <1> DEFINE G == {s \in SUBSET T : q[s] <= p[s \cap S]}
  <1>4. ASSUME NEW s \in SUBSET T, \A x \in s : s \ {x} \in G
        PROVE  s \in G
    <2>1. CASE s = {}
      <3>1. s \cap S = {}
        BY <2>1
      <3>2. p[{}] = 0 /\ q[{}] = 0
        BY <1>2, <1>3 DEF Sums
      <3> QED
        BY <2>1, <3>1, <3>2
    <2>2. CASE s # {}
      <3>1. PICK x \in s : x \in T
        BY <2>2
      <3> DEFINE u == s \cap S
                 v == (s \ {x}) \cap S
      <3>2. /\ q[s \ {x}] <= p[v] /\ q[s \ {x}] \in Int /\ u \in SUBSET S /\ v \in SUBSET S
            /\ g[x] \in Int
        BY <1>3, <1>4, <3>1
      <3>3. q[s] = g[x] + q[s \ {x}] /\ p[u] \in Int /\ p[v] \in Int
        BY <1>2, <1>3, <3>1, <3>2 DEF Sums
      <3>4. CASE x \in S
        <4>1. x \in u /\ u \ {x} = v
          BY <3>1, <3>4
        <4>2. f[x] \in Int /\ g[x] <= f[x]
          BY <3>4
        <4> HIDE DEF u, v
        <4>3. p[u] = f[x] + p[v]
          BY <1>2, <3>2, <4>1 DEF Sums
        <4>4. q[s] <= p[u]
          BY <3>2, <3>3, <4>2, <4>3
        <4> QED
          BY <4>4 DEF u
      <3>5. CASE x \notin S
        <4>1. u = v
          BY <3>5
        <4>2. g[x] <= 0
          BY <3>1, <3>5
        <4> HIDE DEF u, v
        <4>3. q[s] <= p[u]
          BY <3>2, <3>3, <4>1, <4>2
        <4> QED
          BY <4>3 DEF u
      <3> QED
        BY <3>4, <3>5
    <2> QED
      BY <2>1, <2>2
  <1>5. T \in G
    <2>1. Grows(T, G)
      BY <1>4 DEF Grows
    <2> HIDE DEF G
    <2> QED
      BY <2>1, SubsetInduction
  <1>6. T \cap S = S
    OBVIOUS
  <1> QED
    BY <1>2, <1>3, <1>5, <1>6

\* The sum of one sequence of terms after the other.
LEMMA SumConcat ==
    ASSUME NEW m \in Nat, NEW n \in Nat, NEW f \in [1 .. m + n -> Int],
           NEW g \in [1 .. m -> Int], NEW h \in [1 .. n -> Int],
           \A i \in 1 .. m : g[i] = f[i], \A i \in 1 .. n : h[i] = f[m + i]
    PROVE  SumFunction(f) = SumFunction(g) + SumFunction(h)
  <1> DEFINE F(k) == [i \in 1 .. m + k |-> f[i]]
             H(k) == [i \in 1 .. k |-> h[i]]
             Wrong == {k \in 0 .. n : SumFunction(F(k)) # SumFunction(g) + SumFunction(H(k))}
  <1>1. ASSUME NEW k \in 0 .. n
        PROVE  /\ F(k) \in [1 .. m + k -> Int] /\ H(k) \in [1 .. k -> Int]
               /\ SumFunction(F(k)) \in Int /\ SumFunction(H(k)) \in Int
    <2>1. F(k) \in [1 .. m + k -> Int] /\ H(k) \in [1 .. k -> Int]
      OBVIOUS
    <2>2. IsFiniteSet(1 .. m + k) /\ IsFiniteSet(1 .. k)
      <3>1. 1 \in Int /\ m + k \in Int /\ k \in Int
        OBVIOUS
      <3> QED
        BY <3>1, FS_Interval
    <2> HIDE DEF F, H
    <2> QED
      BY <2>1, <2>2, SumType
  <1>2. SumFunction(g) \in Int
    BY FS_Interval, SumType
  <1>3. 0 \notin Wrong
    <2>1. F(0) = g
      <3>1. m + 0 = m
        OBVIOUS
      <3>2. \A i \in 1 .. m : F(0)[i] = g[i]
        BY <3>1
      <3> QED
        BY <3>1, <3>2
    <2>2. H(0) \in [{} -> Int]
      OBVIOUS
    <2> HIDE DEF F, H
    <2>3. SumFunction(H(0)) = 0
      BY <2>2, SumEmpty
    <2> QED
      BY <1>2, <2>1, <2>3
  <1>4. Wrong = {}
    <2>1. SUFFICES ASSUME Wrong # {}
                   PROVE  FALSE
      OBVIOUS
    <2>2. Wrong \subseteq Nat
      OBVIOUS
    <2>3. PICK k \in Wrong : \A j \in Wrong : k <= j
      <3> HIDE DEF Wrong
      <3> QED
        BY <2>1, <2>2, LeastNatural
    <2>4. k \in 0 .. n /\ k # 0
      BY <1>3
    <2>5. PICK j \in 0 .. n : k = j + 1 /\ j \in Nat /\ j \notin Wrong /\ m + j \in Nat
      <3> HIDE DEF Wrong
      <3>1. k - 1 \in 0 .. n /\ k = (k - 1) + 1 /\ ~ (k <= k - 1)
        BY <2>4
      <3>2. k - 1 \notin Wrong
        BY <2>3, <3>1
      <3> QED
        BY <2>4, <3>1, <3>2
    <2>6. SumFunction(F(j)) = SumFunction(g) + SumFunction(H(j))
      BY <2>5
    <2>7. /\ F(j) \in [1 .. m + j -> Int] /\ F(k) \in [1 .. (m + j) + 1 -> Int]
          /\ \A i \in 1 .. m + j : F(j)[i] = F(k)[i]
          /\ H(j) \in [1 .. j -> Int] /\ H(k) \in [1 .. j + 1 -> Int]
          /\ \A i \in 1 .. j : H(j)[i] = H(k)[i]
          /\ F(k)[(m + j) + 1] = f[m + k] /\ H(k)[j + 1] = f[m + k] /\ f[m + k] \in Int
      BY <2>4, <2>5
    <2>8. SumFunction(F(k)) # SumFunction(g) + SumFunction(H(k))
      OBVIOUS
    <2> HIDE DEF F, H, Wrong
    <2>9. SumFunction(F(k)) = SumFunction(F(j)) + f[m + k]
      BY <2>5, <2>7, SumAppend
    <2>10. SumFunction(H(k)) = SumFunction(H(j)) + f[m + k]
      BY <2>5, <2>7, SumAppend
    <2> QED
      BY <1>1, <1>2, <2>4, <2>5, <2>6, <2>7, <2>8, <2>9, <2>10
  <1>5. F(n) = f /\ H(n) = h
    OBVIOUS
  <1>6. n \notin Wrong
    BY <1>4
  <1> HIDE DEF F, H
  <1> QED
    BY <1>5, <1>6

\* The sum of zeroes.
LEMMA SumZero ==
    ASSUME NEW T, IsFiniteSet(T), NEW f \in [T -> Int], \A x \in T : f[x] = 0
    PROVE  SumFunction(f) = 0
  <1>1. PICK p \in [SUBSET T -> Int] : Sums(f, T, p) /\ SumFunction(f) = p[T]
    BY SumIsLastOfSums
  <1> DEFINE G == {s \in SUBSET T : p[s] = 0}
  <1>2. ASSUME NEW s \in SUBSET T, \A x \in s : s \ {x} \in G
        PROVE  s \in G
    <2>1. CASE s = {}
      BY <1>1, <2>1 DEF Sums
    <2>2. CASE s # {}
      <3>1. PICK x \in s : x \in T
        BY <2>2
      <3>2. p[s] = f[x] + p[s \ {x}] /\ p[s \ {x}] = 0 /\ f[x] = 0
        BY <1>1, <1>2, <3>1 DEF Sums
      <3> QED
        BY <3>2
    <2> QED
      BY <2>1, <2>2
  <1>3. T \in G
    <2>1. Grows(T, G)
      BY <1>2 DEF Grows
    <2> HIDE DEF G
    <2> QED
      BY <2>1, SubsetInduction
  <1> QED
    BY <1>1, <1>3

\* The sum of terms that are not negative.
LEMMA SumPositive ==
    ASSUME NEW T, IsFiniteSet(T), NEW f \in [T -> Int], \A x \in T : f[x] >= 0
    PROVE  SumFunction(f) \in Nat
  <1>1. PICK p \in [SUBSET T -> Int] : Sums(f, T, p) /\ SumFunction(f) = p[T]
    BY SumIsLastOfSums
  <1> DEFINE G == {s \in SUBSET T : p[s] \in Nat}
  <1>2. ASSUME NEW s \in SUBSET T, \A x \in s : s \ {x} \in G
        PROVE  s \in G
    <2>1. CASE s = {}
      BY <1>1, <2>1 DEF Sums
    <2>2. CASE s # {}
      <3>1. PICK x \in s : x \in T
        BY <2>2
      <3>2. p[s] = f[x] + p[s \ {x}] /\ p[s \ {x}] \in Nat /\ f[x] \in Nat
        BY <1>1, <1>2, <3>1 DEF Sums
      <3> QED
        BY <3>2
    <2> QED
      BY <2>1, <2>2
  <1>3. T \in G
    <2>1. Grows(T, G)
      BY <1>2 DEF Grows
    <2> HIDE DEF G
    <2> QED
      BY <2>1, SubsetInduction
  <1> QED
    BY <1>1, <1>3

\* The sum over a part of a set.
LEMMA SumOfPart ==
    ASSUME NEW S, IsFiniteSet(S), NEW f \in [S -> Int], NEW p, Sums(f, S, p),
           NEW T \in SUBSET S
    PROVE  SumFunction([x \in T |-> f[x]]) = p[T]
  <1> DEFINE g == [x \in T |-> f[x]]
  <1>1. IsFiniteSet(T) /\ g \in [T -> Int] /\ \A x \in T : g[x] = f[x]
    BY FS_Subset
  <1> HIDE DEF g
  <1>2. PICK q \in [SUBSET T -> Int] : Sums(g, T, q) /\ SumFunction(g) = q[T]
    BY <1>1, SumIsLastOfSums
  <1>3. q[T] = p[T]
    BY <1>1, <1>2, SumsAgree
  <1> QED
    BY <1>2, <1>3 DEF g

\* Larger terms, and no negative ones added, no smaller sum.
LEMMA SumGrows ==
    ASSUME NEW T, IsFiniteSet(T), NEW S, S \subseteq T,
           NEW f \in [S -> Int], NEW g \in [T -> Int],
           \A x \in S : f[x] <= g[x], \A x \in T \ S : 0 <= g[x]
    PROVE  SumFunction(f) <= SumFunction(g)
  <1>1. IsFiniteSet(S)
    BY FS_Subset
  <1>2. PICK p \in [SUBSET S -> Int] : Sums(f, S, p) /\ SumFunction(f) = p[S]
    BY <1>1, SumIsLastOfSums
  <1>3. PICK q \in [SUBSET T -> Int] : Sums(g, T, q) /\ SumFunction(g) = q[T]
    BY SumIsLastOfSums
  <1> DEFINE G == {s \in SUBSET T : p[s \cap S] <= q[s]}
  <1>4. ASSUME NEW s \in SUBSET T, \A x \in s : s \ {x} \in G
        PROVE  s \in G
    <2>1. CASE s = {}
      <3>1. s \cap S = {}
        BY <2>1
      <3>2. p[{}] = 0 /\ q[{}] = 0
        BY <1>2, <1>3 DEF Sums
      <3> QED
        BY <2>1, <3>1, <3>2
    <2>2. CASE s # {}
      <3>1. PICK x \in s : x \in T
        BY <2>2
      <3> DEFINE u == s \cap S
                 v == (s \ {x}) \cap S
      <3>2. /\ p[v] <= q[s \ {x}] /\ q[s \ {x}] \in Int /\ u \in SUBSET S /\ v \in SUBSET S
            /\ g[x] \in Int
        BY <1>3, <1>4, <3>1
      <3>3. q[s] = g[x] + q[s \ {x}] /\ p[u] \in Int /\ p[v] \in Int
        BY <1>2, <1>3, <3>1, <3>2 DEF Sums
      <3>4. CASE x \in S
        <4>1. x \in u /\ u \ {x} = v
          BY <3>1, <3>4
        <4>2. f[x] \in Int /\ f[x] <= g[x]
          BY <3>4
        <4> HIDE DEF u, v
        <4>3. p[u] = f[x] + p[v]
          BY <1>2, <3>2, <4>1 DEF Sums
        <4>4. p[u] <= q[s]
          BY <3>2, <3>3, <4>2, <4>3
        <4> QED
          BY <4>4 DEF u
      <3>5. CASE x \notin S
        <4>1. u = v
          BY <3>5
        <4>2. 0 <= g[x]
          BY <3>1, <3>5
        <4> HIDE DEF u, v
        <4>3. p[u] <= q[s]
          BY <3>2, <3>3, <4>1, <4>2
        <4> QED
          BY <4>3 DEF u
      <3> QED
        BY <3>4, <3>5
    <2> QED
      BY <2>1, <2>2
  <1>5. T \in G
    <2>1. Grows(T, G)
      BY <1>4 DEF Grows
    <2> HIDE DEF G
    <2> QED
      BY <2>1, SubsetInduction
  <1>6. T \cap S = S
    OBVIOUS
  <1> QED
    BY <1>2, <1>3, <1>5, <1>6

\* Terms that are zero may be added.
LEMMA SumWithin ==
    ASSUME NEW T, IsFiniteSet(T), NEW S, S \subseteq T,
           NEW f \in [S -> Int], NEW g \in [T -> Int],
           \A x \in S : f[x] = g[x], \A x \in T \ S : g[x] = 0
    PROVE  SumFunction(g) = SumFunction(f)
  <1>1. \A x \in S : f[x] <= g[x] /\ g[x] <= f[x]
    OBVIOUS
  <1>2. \A x \in T \ S : 0 <= g[x] /\ g[x] <= 0
    OBVIOUS
  <1>3. SumFunction(f) <= SumFunction(g)
    BY <1>1, <1>2, SumGrows
  <1>4. SumFunction(g) <= SumFunction(f)
    BY <1>1, <1>2, SumShrinks
  <1>5. SumFunction(f) \in Int /\ SumFunction(g) \in Int
    BY FS_Subset, SumType
  <1> QED
    BY <1>3, <1>4, <1>5

\* The sum of sums.
LEMMA SumAdd ==
    ASSUME NEW T, IsFiniteSet(T), NEW f \in [T -> Int], NEW g \in [T -> Int],
           NEW h \in [T -> Int], \A x \in T : h[x] = f[x] + g[x]
    PROVE  SumFunction(h) = SumFunction(f) + SumFunction(g)
  <1>1. PICK p \in [SUBSET T -> Int] : Sums(f, T, p) /\ SumFunction(f) = p[T]
    BY SumIsLastOfSums
  <1>2. PICK q \in [SUBSET T -> Int] : Sums(g, T, q) /\ SumFunction(g) = q[T]
    BY SumIsLastOfSums
  <1>3. PICK t \in [SUBSET T -> Int] : Sums(h, T, t) /\ SumFunction(h) = t[T]
    BY SumIsLastOfSums
  <1> DEFINE G == {s \in SUBSET T : t[s] = p[s] + q[s]}
  <1>4. ASSUME NEW s \in SUBSET T, \A x \in s : s \ {x} \in G
        PROVE  s \in G
    <2>1. CASE s = {}
      BY <1>1, <1>2, <1>3, <2>1 DEF Sums
    <2>2. CASE s # {}
      <3>1. PICK x \in s : x \in T
        BY <2>2
      <3>2. t[s \ {x}] = p[s \ {x}] + q[s \ {x}]
        BY <1>4, <3>1
      <3>3. /\ p[s] = f[x] + p[s \ {x}] /\ q[s] = g[x] + q[s \ {x}] /\ t[s] = h[x] + t[s \ {x}]
            /\ p[s \ {x}] \in Int /\ q[s \ {x}] \in Int /\ f[x] \in Int /\ g[x] \in Int
            /\ h[x] = f[x] + g[x]
        BY <1>1, <1>2, <1>3, <3>1 DEF Sums
      <3>4. t[s] = p[s] + q[s]
        BY <3>2, <3>3
      <3> QED
        BY <3>4
    <2> QED
      BY <2>1, <2>2
  <1>5. T \in G
    <2>1. Grows(T, G)
      BY <1>4 DEF Grows
    <2> HIDE DEF G
    <2> QED
      BY <2>1, SubsetInduction
  <1> QED
    BY <1>1, <1>2, <1>3, <1>5

\* The sum of f over a part of its domain.
SumOver(f, S) == SumFunction([x \in S |-> f[x]])

\* Terms that are counted twice, or that C does not have, make the sums over two
\* parts come to more than the sum over C.
LEMMA SumOfParts ==
    ASSUME NEW T, IsFiniteSet(T), NEW A \in SUBSET T, NEW B \in SUBSET T,
           NEW C \in SUBSET T, C \subseteq A \cup B,
           NEW f \in [T -> Int], \A x \in T : f[x] >= 0
    PROVE  SumOver(f, C) <= SumOver(f, A) + SumOver(f, B)
  <1> DEFINE Of(S) == [x \in S |-> f[x]]
             On(S) == [x \in T |-> IF x \in S THEN f[x] ELSE 0]
             both == [x \in T |-> On(A)[x] + On(B)[x]]
  <1>1. ASSUME NEW S \in SUBSET T
        PROVE  /\ IsFiniteSet(S) /\ Of(S) \in [S -> Int] /\ On(S) \in [T -> Int]
               /\ SumFunction(On(S)) = SumFunction(Of(S))
               /\ SumFunction(On(S)) \in Int
    <2>1. /\ IsFiniteSet(S) /\ Of(S) \in [S -> Int] /\ On(S) \in [T -> Int]
          /\ \A x \in S : Of(S)[x] = On(S)[x]
          /\ \A x \in T \ S : On(S)[x] = 0
      BY FS_Subset
    <2> HIDE DEF Of, On
    <2> QED
      BY <2>1, SumWithin, SumType
  <1>2. /\ both \in [T -> Int]
        /\ \A x \in T : both[x] = On(A)[x] + On(B)[x]
        /\ \A x \in T : On(C)[x] <= both[x]
    OBVIOUS
  <1>3. SumFunction(both) = SumFunction(On(A)) + SumFunction(On(B))
    <2> HIDE DEF Of, On, both
    <2> QED
      BY <1>1, <1>2, SumAdd
  <1>4. SumFunction(On(C)) <= SumFunction(both)
    <2>1. \A x \in T \ T : 0 <= both[x]
      OBVIOUS
    <2> HIDE DEF Of, On, both
    <2> QED
      BY <1>1, <1>2, <2>1, SumGrows
  <1> QED
    BY <1>1, <1>3, <1>4 DEF SumOver

\* The sums over the two halves of a set.
LEMMA SumOfHalves ==
    ASSUME NEW T, IsFiniteSet(T), NEW A \in SUBSET T, NEW f \in [T -> Int]
    PROVE  SumOver(f, T) = SumOver(f, A) + SumOver(f, T \ A)
  <1> DEFINE Of(S) == [x \in S |-> f[x]]
             On(S) == [x \in T |-> IF x \in S THEN f[x] ELSE 0]
             B == T \ A
  <1>1. ASSUME NEW S \in SUBSET T
        PROVE  /\ IsFiniteSet(S) /\ Of(S) \in [S -> Int] /\ On(S) \in [T -> Int]
               /\ SumFunction(On(S)) = SumFunction(Of(S))
    <2>1. /\ IsFiniteSet(S) /\ Of(S) \in [S -> Int] /\ On(S) \in [T -> Int]
          /\ \A x \in S : Of(S)[x] = On(S)[x]
          /\ \A x \in T \ S : On(S)[x] = 0
      BY FS_Subset
    <2> HIDE DEF Of, On
    <2> QED
      BY <2>1, SumWithin
  <1>2. \A x \in T : Of(T)[x] = On(A)[x] + On(B)[x]
    OBVIOUS
  <1>3. B \in SUBSET T /\ T \in SUBSET T
    OBVIOUS
  <1>4. SumFunction(Of(T)) = SumFunction(On(A)) + SumFunction(On(B))
    <2> HIDE DEF Of, On, B
    <2>1. Of(T) \in [T -> Int] /\ On(A) \in [T -> Int] /\ On(B) \in [T -> Int]
      BY <1>1, <1>3
    <2> QED
      BY <1>2, <2>1, SumAdd
  <1> QED
    BY <1>1, <1>3, <1>4 DEF SumOver
=============================================================================

--------------------------------- MODULE Sums ---------------------------------
(***************************************************************************)
(* What the proofs need of data: the models add up bytes, events and drain *)
(* times with the folds of the community modules, which choose the order   *)
(* of the elements, and the calendar of the event list is its buckets laid *)
(* end to end.  Induction is by the least counterexample, so that no       *)
(* theorem with an operator parameter is needed.                           *)
(***************************************************************************)
EXTENDS Integers, SequencesExt, SequenceTheorems, FiniteSetTheorems, WellFoundedInduction, TLAPS

\* The sum of f over S, as the models have it.
Total(f, S) == FoldFunctionOnSet(+, 0, f, S)

\* What a function from the subsets of S to their sums satisfies.
Adds(g, f, S) ==
  /\ g \in [SUBSET S -> Int]
  /\ g[{}] = 0
  /\ \A s \in SUBSET S : \A x \in s : g[s] = f[x] + g[s \ {x}]

\* The equation by which the fold is defined.
AnyOf(s) == CHOOSE x \in s : TRUE
Folds(h, f, S) ==
  h = [s \in SUBSET S |-> IF s = {} THEN 0 ELSE f[AnyOf(s)] + h[s \ {AnyOf(s)}]]

------------------------------------------------------------------------------
\* A family of subsets with every set whose proper subsets it holds has all.
LEMMA SubsetInduction ==
  ASSUME NEW S, IsFiniteSet(S), NEW F \in SUBSET (SUBSET S),
         \A s \in SUBSET S : (\A u \in SUBSET S : u \subseteq s /\ u # s => u \in F) => s \in F
  PROVE  F = SUBSET S
  <1>1. SUFFICES ASSUME (SUBSET S) \ F # {}
                 PROVE  FALSE
    OBVIOUS
  <1>2. IsWellFoundedOn(StrictSubsetOrdering(S), SUBSET S)
    BY FS_StrictSubsetOrderingWellFounded, FS_FiniteSubsetsOfFinite
  <1> DEFINE Rest == (SUBSET S) \ F
  <1>3. \E s \in Rest : \A u \in Rest : ~ (<<u, s>> \in StrictSubsetOrdering(S))
    <2>1. Rest \subseteq SUBSET S /\ Rest # {}
      BY <1>1
    <2> HIDE DEF Rest
    <2>2. QED BY <1>2, <2>1, WFMin
  <1>4. PICK s \in Rest : \A u \in Rest : ~ (<<u, s>> \in StrictSubsetOrdering(S))
    BY <1>3
  <1>5. ASSUME NEW u \in SUBSET S, u \subseteq s, u # s
        PROVE  u \in F
    BY <1>4, <1>5 DEF StrictSubsetOrdering
  <1>6. QED BY <1>4, <1>5

\* The same with one element more at a time.
LEMMA ElementInduction ==
  ASSUME NEW S, IsFiniteSet(S), NEW F \in SUBSET (SUBSET S), {} \in F,
         \A s \in F : \A x \in S \ s : s \cup {x} \in F
  PROVE  F = SUBSET S
  <1>1. ASSUME NEW s \in SUBSET S, \A u \in SUBSET S : u \subseteq s /\ u # s => u \in F
        PROVE  s \in F
    <2>1. CASE s = {}
      BY <2>1
    <2>2. CASE s # {}
      <3>1. PICK x \in s : TRUE
        BY <2>2
      <3>2. s \ {x} \in F /\ x \in S \ (s \ {x}) /\ (s \ {x}) \cup {x} = s
        BY <1>1, <3>1
      <3>3. QED BY <3>2
    <2>3. QED BY <2>1, <2>2
  <1>2. QED BY <1>1, SubsetInduction

\* Induction over the naturals.
LEMMA NumberInduction ==
  ASSUME NEW M \in SUBSET Nat, 0 \in M, \A n \in M : n + 1 \in M
  PROVE  M = Nat
  <1>1. SUFFICES ASSUME Nat \ M # {}
                 PROVE  FALSE
    OBVIOUS
  <1> DEFINE Rest == Nat \ M
  <1>2. \E n \in Rest : \A k \in Rest : ~ (<<k, n>> \in OpToRel(<, Nat))
    <2>1. Rest \subseteq Nat /\ Rest # {}
      BY <1>1
    <2> HIDE DEF Rest
    <2>2. QED BY <2>1, NatLessThanWellFounded, WFMin
  <1>3. PICK n \in Rest : \A k \in Rest : ~ (<<k, n>> \in OpToRel(<, Nat))
    BY <1>2
  <1>4. n \in Nat /\ n \notin M
    OBVIOUS
  <1>5. n # 0
    BY <1>4
  <1>6. n - 1 \in Nat /\ (n - 1) + 1 = n /\ n - 1 < n
    BY <1>4, <1>5
  <1>7. n - 1 \in M
    BY <1>3, <1>4, <1>6 DEF OpToRel
  <1>8. QED BY <1>4, <1>6, <1>7

\* The same up to a number.
LEMMA BoundedInduction ==
  ASSUME NEW n \in Nat, NEW M \in SUBSET (0 .. n), 0 \in M,
         \A j \in M : j < n => j + 1 \in M
  PROVE  M = 0 .. n
  <1> DEFINE U == {j \in Nat : j =< n => j \in M}
  <1>1. ASSUME NEW j \in U
        PROVE  j + 1 \in U
    <2>1. j \in Nat /\ j + 1 \in Nat
      OBVIOUS
    <2>2. CASE j + 1 =< n
      <3>1. j \in M /\ j < n
        BY <2>1, <2>2
      <3>2. QED BY <2>1, <3>1
    <2>3. CASE ~ (j + 1 =< n)
      BY <2>1, <2>3
    <2>4. QED BY <2>2, <2>3
  <1>2. U \in SUBSET Nat /\ 0 \in U
    OBVIOUS
  <1>3. U = Nat
    <2> HIDE DEF U
    <2>1. QED BY <1>1, <1>2, NumberInduction
  <1>4. ASSUME NEW j \in 0 .. n
        PROVE  j \in M
    <2>1. j \in U /\ j =< n
      BY <1>3
    <2>2. QED BY <2>1
  <1>5. QED BY <1>4

------------------------------------------------------------------------------
\* The sums of all subsets exist, whatever order they are taken in.
LEMMA SumsExist ==
  ASSUME NEW S, IsFiniteSet(S), NEW f, \A x \in S : f[x] \in Int
  PROVE  \E g : Adds(g, f, S)
  <1> DEFINE F == {s \in SUBSET S : \E g : Adds(g, f, s)}
  <1>1. {} \in F
    <2>1. Adds([s \in SUBSET {} |-> 0], f, {})
      BY DEF Adds
    <2>2. QED BY <2>1
  <1>2. ASSUME NEW T \in F, NEW x \in S \ T
        PROVE  T \cup {x} \in F
    <2> DEFINE U == T \cup {x}
    <2>1. PICK g : Adds(g, f, T)
      OBVIOUS
    <2> DEFINE h == [s \in SUBSET U |-> IF x \in s THEN f[x] + g[s \ {x}] ELSE g[s]]
    <2>2. ASSUME NEW s \in SUBSET U
          PROVE  /\ s \ {x} \in SUBSET T
                 /\ x \notin s => s \in SUBSET T
      OBVIOUS
    <2>3. ASSUME NEW s \in SUBSET U
          PROVE  h[s] \in Int
      <3>1. g[s \ {x}] \in Int /\ (x \notin s => g[s] \in Int) /\ f[x] \in Int
        BY <2>1, <2>2 DEF Adds
      <3>2. QED BY <3>1
    <2>4. h[{}] = 0
      BY <2>1 DEF Adds
    <2>5. ASSUME NEW s \in SUBSET U, NEW y \in s
          PROVE  h[s] = f[y] + h[s \ {y}]
      <3>1. s \ {y} \in SUBSET U /\ f[x] \in Int /\ f[y] \in Int
        OBVIOUS
      <3>2. CASE x \notin s
        <4>1. g[s] = f[y] + g[s \ {y}]
          BY <2>1, <2>2, <3>2 DEF Adds
        <4>2. QED BY <3>1, <3>2, <4>1
      <3>3. CASE y = x
        BY <3>1, <3>3
      <3>4. CASE x \in s /\ y # x
        <4>1. s \ {x} \in SUBSET T /\ y \in s \ {x}
          BY <2>2, <3>4
        <4>2. g[s \ {x}] = f[y] + g[(s \ {x}) \ {y}] /\ g[(s \ {x}) \ {y}] \in Int
          BY <2>1, <4>1 DEF Adds
        <4>3. (s \ {x}) \ {y} = (s \ {y}) \ {x} /\ x \in s \ {y}
          BY <3>4
        <4>4. h[s] = f[x] + g[s \ {x}]
          BY <3>4
        <4>5. h[s \ {y}] = f[x] + g[(s \ {y}) \ {x}]
          BY <3>1, <4>3
        <4> HIDE DEF h
        <4>6. g[(s \ {x}) \ {y}] = g[(s \ {y}) \ {x}]
          BY <4>3
        <4>7. QED BY <3>1, <4>2, <4>4, <4>5, <4>6
      <3>5. QED BY <3>2, <3>3, <3>4
    <2>6. h \in [SUBSET U -> Int]
      BY <2>3
    <2>7. Adds(h, f, U)
      BY <2>4, <2>5, <2>6 DEF Adds
    <2>8. QED BY <2>7
  <1>3. F = SUBSET S
    <2> HIDE DEF F
    <2>1. F \in SUBSET (SUBSET S)
      BY DEF F
    <2>2. QED BY <1>1, <1>2, <2>1, ElementInduction
  <1>4. QED BY <1>3

\* The fold is one of them, for every subset.
LEMMA FoldIsSum ==
  ASSUME NEW S, IsFiniteSet(S), NEW f, NEW g, Adds(g, f, S), NEW T \in SUBSET S
  PROVE  Total(f, T) = g[T]
  <1> DEFINE h == CHOOSE h : h = [s \in SUBSET T |-> IF s = {} THEN 0 ELSE f[AnyOf(s)] + h[s \ {AnyOf(s)}]]
  <1>1. ASSUME NEW s, s # {}
        PROVE  AnyOf(s) \in s
    BY <1>1 DEF AnyOf
  <1>2. h = [s \in SUBSET T |-> IF s = {} THEN 0 ELSE f[AnyOf(s)] + h[s \ {AnyOf(s)}]]
    <2> DEFINE k == [s \in SUBSET T |-> g[s]]
    <2>1. ASSUME NEW s \in SUBSET T
          PROVE  k[s] = IF s = {} THEN 0 ELSE f[AnyOf(s)] + k[s \ {AnyOf(s)}]
      BY <1>1 DEF Adds
    <2>2. k = [s \in SUBSET T |-> IF s = {} THEN 0 ELSE f[AnyOf(s)] + k[s \ {AnyOf(s)}]]
      BY <2>1
    <2>3. QED BY <2>2
  <1>3. Total(f, T) = h[T]
    BY DEF Total, FoldFunctionOnSet, MapThenFoldSet, AnyOf
  <1> HIDE DEF h
  <1> DEFINE F == {s \in SUBSET T : h[s] = g[s]}
  <1>4. ASSUME NEW s \in SUBSET T, \A u \in SUBSET T : u \subseteq s /\ u # s => u \in F
        PROVE  s \in F
    <2>1. CASE s = {}
      BY <2>1, <1>2 DEF Adds
    <2>2. CASE s # {}
      <3>1. s \ {AnyOf(s)} \in F /\ AnyOf(s) \in s
        BY <1>1, <1>4, <2>2
      <3>2. h[s] = f[AnyOf(s)] + h[s \ {AnyOf(s)}]
        BY <1>2, <2>2
      <3>3. QED BY <3>1, <3>2 DEF Adds
    <2>3. QED BY <2>1, <2>2
  <1>5. F = SUBSET T
    <2> HIDE DEF F
    <2>1. F \in SUBSET (SUBSET T)
      BY DEF F
    <2>2. IsFiniteSet(T)
      BY FS_Subset
    <2>3. QED BY <1>4, <2>1, <2>2, SubsetInduction
  <1>6. QED BY <1>3, <1>5
------------------------------------------------------------------------------
\* A sum of integers is one, and every element of it may be taken out first.
LEMMA TotalWithout ==
  ASSUME NEW S, IsFiniteSet(S), NEW f, \A x \in S : f[x] \in Int
  PROVE  /\ Total(f, S) \in Int
         /\ \A x \in S : /\ Total(f, S) = f[x] + Total(f, S \ {x})
                         /\ Total(f, S \ {x}) \in Int
  <1>1. PICK g : Adds(g, f, S)
    BY SumsExist
  <1>2. ASSUME NEW T \in SUBSET S
        PROVE  Total(f, T) = g[T] /\ g[T] \in Int
    <2>1. Total(f, T) = g[T]
      BY <1>1, FoldIsSum
    <2>2. QED BY <1>1, <2>1 DEF Adds
  <1>3. Total(f, S) = g[S] /\ g[S] \in Int
    BY <1>2
  <1>4. ASSUME NEW x \in S
        PROVE  Total(f, S \ {x}) = g[S \ {x}] /\ g[S \ {x}] \in Int
    BY <1>2
  <1>5. ASSUME NEW x \in S
        PROVE  g[S] = f[x] + g[S \ {x}]
    BY <1>1 DEF Adds
  <1>6. QED BY <1>3, <1>4, <1>5

LEMMA TotalOfNone ==
  ASSUME NEW f
  PROVE  Total(f, {}) = 0
  <1>1. IsFiniteSet({}) /\ \A x \in {} : f[x] \in Int
    BY FS_EmptySet
  <1>2. PICK g : Adds(g, f, {})
    BY <1>1, SumsExist
  <1>3. Total(f, {}) = g[{}]
    BY <1>1, <1>2, FoldIsSum
  <1>4. QED BY <1>2, <1>3 DEF Adds

LEMMA TotalWith ==
  ASSUME NEW S, IsFiniteSet(S), NEW x, x \notin S, NEW f, f[x] \in Int,
         \A y \in S : f[y] \in Int
  PROVE  /\ Total(f, S \cup {x}) = Total(f, S) + f[x]
         /\ Total(f, S) \in Int /\ Total(f, S \cup {x}) \in Int
  <1>1. IsFiniteSet(S \cup {x}) /\ \A y \in S \cup {x} : f[y] \in Int
    BY FS_AddElement
  <1>2. x \in S \cup {x} /\ (S \cup {x}) \ {x} = S
    OBVIOUS
  <1>3. /\ Total(f, S \cup {x}) \in Int
        /\ Total(f, S \cup {x}) = f[x] + Total(f, (S \cup {x}) \ {x})
        /\ Total(f, (S \cup {x}) \ {x}) \in Int
    BY <1>1, <1>2, TotalWithout
  <1>4. Total(f, (S \cup {x}) \ {x}) = Total(f, S)
    BY <1>2
  <1>5. QED BY <1>3, <1>4

\* Two functions that agree on a set have one sum over it.
LEMMA TotalAgrees ==
  ASSUME NEW S, IsFiniteSet(S), NEW f, NEW h,
         \A x \in S : f[x] \in Int /\ f[x] = h[x]
  PROVE  Total(f, S) = Total(h, S)
  <1>1. PICK g : Adds(g, f, S)
    BY SumsExist
  <1>2. Adds(g, h, S)
    BY <1>1 DEF Adds
  <1>3. QED BY <1>1, <1>2, FoldIsSum

\* Two sums over a set differ by no more than the summands do, if only one does.
LEMMA TotalChanged ==
  ASSUME NEW S, IsFiniteSet(S), NEW f, NEW h, NEW x \in S, f[x] \in Int, h[x] \in Int,
         \A y \in S \ {x} : f[y] \in Int /\ f[y] = h[y]
  PROVE  Total(h, S) = (Total(f, S) - f[x]) + h[x] /\ Total(f, S) \in Int
  <1>1. IsFiniteSet(S \ {x})
    BY FS_RemoveElement
  <1>2. Total(f, S \ {x}) = Total(h, S \ {x})
    BY <1>1, TotalAgrees
  <1>3. \A y \in S : f[y] \in Int
    OBVIOUS
  <1>4. \A y \in S : h[y] \in Int
    OBVIOUS
  <1>5. /\ Total(f, S) = f[x] + Total(f, S \ {x})
        /\ Total(f, S \ {x}) \in Int /\ Total(f, S) \in Int
    BY <1>3, TotalWithout
  <1>6. Total(h, S) = h[x] + Total(h, S \ {x})
    BY <1>4, TotalWithout
  <1>7. QED BY <1>2, <1>5, <1>6

\* A sum of naturals is one, and no less than any of them.
LEMMA TotalIsNatural ==
  ASSUME NEW S, IsFiniteSet(S), NEW f, \A x \in S : f[x] \in Nat
  PROVE  Total(f, S) \in Nat /\ \A x \in S : f[x] =< Total(f, S)
  <1>1. PICK g : Adds(g, f, S)
    BY SumsExist
  <1> DEFINE F == {s \in SUBSET S : g[s] \in Nat}
  <1>2. {} \in F
    BY <1>1 DEF Adds
  <1>3. ASSUME NEW s \in F, NEW x \in S \ s
        PROVE  s \cup {x} \in F
    <2>1. g[s \cup {x}] = f[x] + g[(s \cup {x}) \ {x}]
      BY <1>1 DEF Adds
    <2>2. (s \cup {x}) \ {x} = s
      OBVIOUS
    <2>3. QED BY <2>1, <2>2
  <1>4. F = SUBSET S
    <2> HIDE DEF F
    <2>1. F \in SUBSET (SUBSET S)
      BY DEF F
    <2>2. QED BY <1>2, <1>3, <2>1, ElementInduction
  <1>5. Total(f, S) = g[S] /\ g[S] \in Nat
    BY <1>1, <1>4, FoldIsSum
  <1>6. ASSUME NEW x \in S
        PROVE  f[x] =< g[S]
    <2>1. g[S] = f[x] + g[S \ {x}]
      BY <1>1 DEF Adds
    <2>2. g[S \ {x}] \in Nat
      BY <1>4
    <2>3. QED BY <2>1, <2>2
  <1>7. QED BY <1>5, <1>6

\* A sum of zeros.
LEMMA TotalOfZeros ==
  ASSUME NEW S, IsFiniteSet(S), NEW f, \A x \in S : f[x] = 0
  PROVE  Total(f, S) = 0
  <1>1. PICK g : Adds(g, f, S)
    BY SumsExist
  <1> DEFINE F == {s \in SUBSET S : g[s] = 0}
  <1>2. {} \in F
    BY <1>1 DEF Adds
  <1>3. ASSUME NEW s \in F, NEW x \in S \ s
        PROVE  s \cup {x} \in F
    <2>1. g[s \cup {x}] = f[x] + g[(s \cup {x}) \ {x}]
      BY <1>1 DEF Adds
    <2>2. (s \cup {x}) \ {x} = s
      OBVIOUS
    <2>3. QED BY <2>1, <2>2
  <1>4. F = SUBSET S
    <2> HIDE DEF F
    <2>1. F \in SUBSET (SUBSET S)
      BY DEF F
    <2>2. QED BY <1>2, <1>3, <2>1, ElementInduction
  <1>5. QED BY <1>1, <1>4, FoldIsSum
\* The sum over two sets that have nothing in common.
LEMMA TotalOfBoth ==
  ASSUME NEW S, IsFiniteSet(S), NEW T, IsFiniteSet(T), S \cap T = {},
         NEW f, \A x \in S \cup T : f[x] \in Int
  PROVE  /\ Total(f, S \cup T) = Total(f, S) + Total(f, T)
         /\ Total(f, S) \in Int /\ Total(f, T) \in Int
  <1>1. IsFiniteSet(S \cup T)
    BY FS_Union
  <1>2. PICK g : Adds(g, f, S \cup T)
    BY <1>1, SumsExist
  <1> DEFINE F == {s \in SUBSET S : g[s \cup T] = g[s] + g[T]}
  <1>3. \A s \in SUBSET (S \cup T) : g[s] \in Int
    BY <1>2 DEF Adds
  <1>4. {} \in F
    <2>1. g[{}] = 0 /\ {} \cup T = T
      BY <1>2 DEF Adds
    <2>2. QED BY <1>3, <2>1
  <1>5. ASSUME NEW s \in F, NEW x \in S \ s
        PROVE  s \cup {x} \in F
    <2>1. g[s \cup {x}] = f[x] + g[(s \cup {x}) \ {x}] /\ (s \cup {x}) \ {x} = s
      BY <1>2 DEF Adds
    <2>2. /\ g[(s \cup {x}) \cup T] = f[x] + g[((s \cup {x}) \cup T) \ {x}]
          /\ ((s \cup {x}) \cup T) \ {x} = s \cup T
      BY <1>2 DEF Adds
    <2>3. g[s] \in Int /\ g[T] \in Int /\ g[s \cup T] \in Int /\ f[x] \in Int
      BY <1>3
    <2>4. g[s \cup {x}] = f[x] + g[s] /\ g[(s \cup {x}) \cup T] = f[x] + g[s \cup T]
      BY <2>1, <2>2
    <2>5. g[(s \cup {x}) \cup T] = g[s \cup {x}] + g[T]
      BY <2>3, <2>4
    <2>6. QED BY <2>5
  <1>6. F = SUBSET S
    <2> HIDE DEF F
    <2>1. F \in SUBSET (SUBSET S)
      BY DEF F
    <2>2. QED BY <1>4, <1>5, <2>1, ElementInduction
  <1>7. g[S \cup T] = g[S] + g[T]
    BY <1>6
  <1>8. Total(f, S \cup T) = g[S \cup T] /\ Total(f, S) = g[S] /\ Total(f, T) = g[T]
    BY <1>1, <1>2, FoldIsSum
  <1>9. QED BY <1>3, <1>7, <1>8
------------------------------------------------------------------------------
\* An interval grows at its end.
LEMMA IntervalGrows ==
  ASSUME NEW a \in Int, NEW k \in Nat
  PROVE  /\ a + 1 .. a + (k + 1) = (a + 1 .. a + k) \cup {a + (k + 1)}
         /\ a + (k + 1) \notin a + 1 .. a + k
         /\ IsFiniteSet(a + 1 .. a + k)
  <1>1. a + 1 \in Int /\ a + k \in Int
    OBVIOUS
  <1>2. IsFiniteSet(a + 1 .. a + k)
    BY <1>1, FS_Interval
  <1>3. QED BY <1>2

\* A sum over an interval, and the same from where it has been moved to.
Moved(h, a, f, b, n) == \A i \in 1 .. n : h[a + i] \in Int /\ h[a + i] = f[b + i]

LEMMA TotalMoved ==
  ASSUME NEW a \in Int, NEW b \in Int, NEW f, NEW h, NEW n \in Nat, Moved(h, a, f, b, n)
  PROVE  /\ Total(h, a + 1 .. a + n) = Total(f, b + 1 .. b + n)
         /\ Total(h, a + 1 .. a + n) \in Int
  <1> DEFINE Here(k) == a + 1 .. a + k
             There(k) == b + 1 .. b + k
             M == {k \in Nat : k =< n => /\ Total(h, Here(k)) = Total(f, There(k))
                                         /\ Total(h, Here(k)) \in Int}
  <1>1. 0 \in M
    <2>1. Here(0) = {} /\ There(0) = {}
      OBVIOUS
    <2>2. Total(h, Here(0)) = 0 /\ Total(f, There(0)) = 0
      BY <2>1, TotalOfNone
    <2>3. QED BY <2>2
  <1>2. ASSUME NEW k \in M
        PROVE  k + 1 \in M
    <2>1. CASE k + 1 > n
      BY <2>1
    <2>2. CASE k + 1 =< n
      <3>1. k \in Nat /\ k + 1 \in 1 .. n /\ k =< n
        BY <2>2
      <3>2. Total(h, Here(k)) = Total(f, There(k)) /\ Total(h, Here(k)) \in Int
        BY <3>1
      <3>3. /\ Here(k + 1) = Here(k) \cup {a + (k + 1)} /\ a + (k + 1) \notin Here(k)
            /\ IsFiniteSet(Here(k))
        BY <3>1, IntervalGrows
      <3>4. /\ There(k + 1) = There(k) \cup {b + (k + 1)} /\ b + (k + 1) \notin There(k)
            /\ IsFiniteSet(There(k))
        BY <3>1, IntervalGrows
      <3>5. ASSUME NEW j \in Here(k)
            PROVE  h[j] \in Int
        <4>1. j - a \in 1 .. n /\ a + (j - a) = j
          BY <3>1
        <4>2. QED BY <4>1 DEF Moved
      <3>6. ASSUME NEW j \in There(k)
            PROVE  f[j] \in Int
        <4>1. j - b \in 1 .. n /\ b + (j - b) = j
          BY <3>1
        <4>2. h[a + (j - b)] \in Int /\ h[a + (j - b)] = f[b + (j - b)]
          BY <4>1 DEF Moved
        <4>3. QED BY <4>1, <4>2
      <3>7. h[a + (k + 1)] = f[b + (k + 1)] /\ h[a + (k + 1)] \in Int
        BY <3>1 DEF Moved
      <3>8. k + 1 \in Nat
        BY <3>1
      <3> DEFINE p == a + (k + 1)
                 q == b + (k + 1)
      <3>9. /\ IsFiniteSet(Here(k)) /\ p \notin Here(k) /\ Here(k + 1) = Here(k) \cup {p}
            /\ IsFiniteSet(There(k)) /\ q \notin There(k) /\ There(k + 1) = There(k) \cup {q}
            /\ h[p] = f[q] /\ h[p] \in Int /\ f[q] \in Int
        BY <3>3, <3>4, <3>7
      <3> DEFINE A == Here(k)
                 B == There(k)
      <3>10. /\ IsFiniteSet(A) /\ p \notin A /\ h[p] \in Int /\ \A j \in A : h[j] \in Int
             /\ IsFiniteSet(B) /\ q \notin B /\ f[q] \in Int /\ \A j \in B : f[j] \in Int
             /\ Total(h, A) = Total(f, B) /\ Total(h, A) \in Int
             /\ h[p] = f[q]
        BY <3>2, <3>5, <3>6, <3>9
      <3> HIDE DEF A, B, p, q, M, Here, There
      <3>11. Total(h, A \cup {p}) = Total(h, A) + h[p]
        BY <3>10, TotalWith
      <3>12. Total(f, B \cup {q}) = Total(f, B) + f[q]
        BY <3>10, TotalWith
      <3>13. Total(h, A \cup {p}) = Total(f, B \cup {q}) /\ Total(h, A \cup {p}) \in Int
        BY <3>10, <3>11, <3>12
      <3>14. Total(h, Here(k + 1)) = Total(f, There(k + 1)) /\ Total(h, Here(k + 1)) \in Int
        BY <3>9, <3>13 DEF A, B
      <3>15. QED BY <3>8, <3>14 DEF M
    <2>3. QED BY <2>1, <2>2
  <1>3. M = Nat
    <2> HIDE DEF M
    <2>1. M \in SUBSET Nat
      BY DEF M
    <2>2. QED BY <1>1, <1>2, <2>1, NumberInduction
  <1>4. n \in M
    BY <1>3
  <1>5. QED BY <1>4

LEMMA TotalFromOne ==
  ASSUME NEW b \in Int, NEW f, NEW h, NEW n \in Nat,
         \A i \in 1 .. n : h[i] \in Int /\ h[i] = f[b + i]
  PROVE  Total(h, 1 .. n) = Total(f, b + 1 .. b + n) /\ Total(h, 1 .. n) \in Int
  <1> DEFINE a == 0
  <1>1. a \in Int /\ a + 1 = 1 /\ a + n = n /\ \A i \in 1 .. n : a + i = i
    OBVIOUS
  <1> HIDE DEF a
  <1>2. Moved(h, a, f, b, n)
    BY <1>1 DEF Moved
  <1>3. /\ Total(h, a + 1 .. a + n) = Total(f, b + 1 .. b + n)
        /\ Total(h, a + 1 .. a + n) \in Int
    BY <1>1, <1>2, TotalMoved
  <1>4. a + 1 .. a + n = 1 .. n
    BY <1>1
  <1>5. QED BY <1>3, <1>4

\* h is f with one more element at the end, or with one more before its first.
JoinedLast(h, m, f, n) ==
  /\ m = n + 1 /\ h[m] \in Int
  /\ \A i \in 1 .. n : f[i] \in Int /\ h[i] = f[i]
JoinedFirst(h, m, f, n) ==
  /\ m = n + 1 /\ h[1] \in Int
  /\ \A i \in 1 .. n : f[i] \in Int /\ h[i + 1] = f[i]

LEMMA TotalJoinedLast ==
  ASSUME NEW n \in Nat, NEW m \in Nat, NEW f, NEW h, JoinedLast(h, m, f, n)
  PROVE  Total(h, 1 .. m) = Total(f, 1 .. n) + h[m] /\ Total(f, 1 .. n) \in Int
  <1>1. IsFiniteSet(1 .. n)
    BY FS_Interval
  <1>2. 1 .. m = (1 .. n) \cup {m} /\ m \notin 1 .. n
    BY DEF JoinedLast
  <1>3. h[m] \in Int /\ \A i \in 1 .. n : f[i] \in Int /\ h[i] \in Int /\ h[i] = f[i]
    BY DEF JoinedLast
  <1>4. /\ Total(h, (1 .. n) \cup {m}) = Total(h, 1 .. n) + h[m]
        /\ Total(h, 1 .. n) \in Int
    BY <1>1, <1>2, <1>3, TotalWith
  <1>5. Total(f, 1 .. n) = Total(h, 1 .. n)
    BY <1>1, <1>3, TotalAgrees
  <1>6. QED BY <1>2, <1>4, <1>5

LEMMA TotalJoinedFirst ==
  ASSUME NEW n \in Nat, NEW m \in Nat, NEW f, NEW h, JoinedFirst(h, m, f, n)
  PROVE  Total(h, 1 .. m) = h[1] + Total(f, 1 .. n) /\ Total(f, 1 .. n) \in Int
  <1> DEFINE b == 1
  <1>1. IsFiniteSet(1 .. m)
    BY FS_Interval
  <1>2. b \in Int /\ b + 1 .. b + n = (1 .. m) \ {1} /\ 1 \in 1 .. m
    BY DEF JoinedFirst
  <1>3. \A i \in 1 .. n : f[i] \in Int /\ f[i] = h[b + i]
    BY DEF JoinedFirst
  <1>4. \A i \in 1 .. m : h[i] \in Int
    <2>1. ASSUME NEW i \in 1 .. m, i # 1
          PROVE  h[i] \in Int
      <3>1. i - 1 \in 1 .. n /\ (i - 1) + 1 = i
        BY <2>1 DEF JoinedFirst
      <3>2. f[i - 1] \in Int /\ h[(i - 1) + 1] = f[i - 1]
        BY <3>1 DEF JoinedFirst
      <3>3. QED BY <3>1, <3>2
    <2>2. QED BY <2>1 DEF JoinedFirst
  <1>5. Total(f, 1 .. n) = Total(h, b + 1 .. b + n) /\ Total(f, 1 .. n) \in Int
    <2> HIDE DEF b
    <2>1. QED BY <1>2, <1>3, TotalFromOne
  <1>6. Total(h, 1 .. m) = h[b] + Total(h, (1 .. m) \ {b})
    <2> DEFINE S == 1 .. m
    <2>1. b \in S /\ IsFiniteSet(S) /\ \A i \in S : h[i] \in Int
      BY <1>1, <1>2, <1>4
    <2> HIDE DEF b, S
    <2>2. Total(h, S) = h[b] + Total(h, S \ {b})
      BY <2>1, TotalWithout
    <2>3. QED BY <2>2 DEF S
  <1>7. QED BY <1>2, <1>5, <1>6
------------------------------------------------------------------------------
\* The least of some naturals is one of them.
LEMMA MinIsMember ==
  ASSUME NEW T \in SUBSET Nat, T # {}
  PROVE  Min(T) \in T
  <1>1. PICK x \in T : \A y \in T : ~ (<<y, x>> \in OpToRel(<, Nat))
    BY NatLessThanWellFounded, WFMin
  <1>2. ASSUME NEW y \in T
        PROVE  x =< y
    <2>1. x \in Nat /\ y \in Nat
      OBVIOUS
    <2>2. ~ (y < x)
      BY <1>1, <2>1 DEF OpToRel
    <2>3. QED BY <2>1, <2>2
  <1>3. QED BY <1>2 DEF Min

LEMMA MinIsLeast ==
  ASSUME NEW T \in SUBSET Nat, T # {}, NEW c \in T
  PROVE  ~ (c < Min(T))
  <1>1. PICK x \in T : \A y \in T : ~ (<<y, x>> \in OpToRel(<, Nat))
    BY NatLessThanWellFounded, WFMin
  <1>2. ASSUME NEW y \in T
        PROVE  x =< y
    <2>1. x \in Nat /\ y \in Nat
      OBVIOUS
    <2>2. ~ (y < x)
      BY <1>1, <2>1 DEF OpToRel
    <2>3. QED BY <2>1, <2>2
  <1>3. Min(T) \in T /\ \A y \in T : Min(T) =< y
    BY <1>2 DEF Min
  <1>4. Min(T) \in Nat /\ c \in Nat /\ Min(T) =< c
    BY <1>3
  <1>5. QED BY <1>4

\* The greatest of finitely many.
LEMMA MaxIsMember ==
  ASSUME NEW S \in SUBSET Nat, IsFiniteSet(S), S # {}
  PROVE  /\ Max(S) \in S
         /\ \A y \in S : y =< Max(S)
  <1> DEFINE F == {s \in SUBSET S : s = {} \/ \E x \in s : \A y \in s : x >= y}
  <1>1. ASSUME NEW s \in F, NEW z \in S \ s
        PROVE  s \cup {z} \in F
    <2>1. CASE s = {}
      BY <2>1
    <2>2. CASE s # {}
      <3>1. PICK x \in s : \A y \in s : x >= y
        BY <2>2
      <3>2. x \in Nat /\ z \in Nat /\ \A y \in s : y \in Nat
        OBVIOUS
      <3>3. CASE x >= z
        BY <3>1, <3>3
      <3>4. CASE ~ (x >= z)
        <4>1. \A y \in s : z >= y
          BY <3>1, <3>2, <3>4
        <4>2. \A y \in s \cup {z} : z >= y
          BY <3>2, <4>1
        <4>3. QED BY <4>2
      <3>5. QED BY <3>3, <3>4
    <2>3. QED BY <2>1, <2>2
  <1>2. F = SUBSET S
    <2>1. F \in SUBSET (SUBSET S) /\ {} \in F
      OBVIOUS
    <2> HIDE DEF F
    <2>2. QED BY <1>1, <2>1, ElementInduction
  <1>3. \E x \in S : \A y \in S : x >= y
    BY <1>2
  <1>4. Max(S) \in S /\ \A y \in S : Max(S) >= y
    BY <1>3 DEF Max
  <1>5. \A y \in S : y \in Nat /\ Max(S) \in Nat
    BY <1>4
  <1>6. QED BY <1>4, <1>5

\* The greatest number of a set that holds the last one.
LEMMA MaxIsLast ==
  ASSUME NEW n \in Nat, NEW s \in SUBSET (1 .. n), n \in s
  PROVE  Max(s) = n
  <1>1. IsFiniteSet(1 .. n)
    BY FS_Interval
  <1>2. IsFiniteSet(s) /\ s \in SUBSET Nat /\ s # {}
    <2>1. IsFiniteSet(s)
      BY <1>1, FS_Subset
    <2>2. QED BY <2>1
  <1>3. Max(s) \in s /\ n =< Max(s)
    BY <1>2, MaxIsMember
  <1>4. Max(s) \in 1 .. n
    BY <1>3
  <1>5. QED BY <1>3, <1>4

\* A fold from the left over n places, of steps that stay within S.  The fold is
\* over the subsets of the places and takes the last one of each.
Steps(k, st, b, S, n) ==
  /\ k \in [SUBSET (1 .. n) -> S]
  /\ k[{}] = b
  /\ \A s \in SUBSET (1 .. n) : s # {} => k[s] = st[<<k[s \ {Max(s)}], Max(s)>>]

LEMMA FoldExists ==
  ASSUME NEW S, NEW b \in S, NEW N \in Nat, NEW st \in [S \X (1 .. N) -> S]
  PROVE  \E k : Steps(k, st, b, S, N)
  <1> DEFINE M == {n \in Nat : n =< N => \E k : Steps(k, st, b, S, n)}
  <1>1. 0 \in M
    <2>1. 1 .. 0 = {}
      OBVIOUS
    <2>2. Steps([s \in SUBSET {} |-> b], st, b, S, 0)
      BY <2>1 DEF Steps
    <2>3. QED BY <2>2
  <1>2. ASSUME NEW n \in M
        PROVE  n + 1 \in M
    <2>1. CASE n + 1 > N
      BY <2>1
    <2>2. CASE n + 1 =< N
      <3>1. n \in Nat /\ n =< N
        BY <2>2
      <3>2. PICK k : Steps(k, st, b, S, n)
        BY <3>1
      <3> DEFINE m == n + 1
                 Places == 1 .. n
                 More == 1 .. m
      <3>3. /\ m \in Nat /\ m \in 1 .. N /\ m \notin Places /\ m \in More
            /\ \A s \in SUBSET More : s \ {m} \in SUBSET Places
            /\ \A s \in SUBSET More : m \notin s => s \in SUBSET Places
            /\ Places \subseteq More
        BY <3>1, <2>2
      <3>4. \A s \in SUBSET More : m \in s => Max(s) = m
        BY <3>3, MaxIsLast
      <3>5. /\ k \in [SUBSET Places -> S] /\ k[{}] = b
            /\ \A s \in SUBSET Places : s # {} => k[s] = st[<<k[s \ {Max(s)}], Max(s)>>]
        BY <3>2 DEF Steps
      <3> HIDE DEF m, Places, More
      <3> DEFINE h == [s \in SUBSET More |-> IF m \in s THEN st[<<k[s \ {m}], m>>] ELSE k[s]]
      <3>6. ASSUME NEW s \in SUBSET More
            PROVE  h[s] \in S
        <4>1. CASE m \in s
          <5>1. k[s \ {m}] \in S
            BY <3>3, <3>5
          <5>2. QED BY <3>3, <4>1, <5>1
        <4>2. CASE m \notin s
          BY <3>3, <3>5, <4>2
        <4>3. QED BY <4>1, <4>2
      <3>7. h[{}] = b
        BY <3>5
      <3>8. ASSUME NEW s \in SUBSET More, s # {}
            PROVE  h[s] = st[<<h[s \ {Max(s)}], Max(s)>>]
        <4>1. CASE m \in s
          <5>1. Max(s) = m /\ s \ {m} \in SUBSET More
            BY <3>4, <4>1
          <5>2. h[s \ {m}] = k[s \ {m}]
            BY <5>1
          <5>3. h[s] = st[<<k[s \ {m}], m>>]
            BY <4>1
          <5> HIDE DEF h
          <5>4. QED BY <5>1, <5>2, <5>3
        <4>2. CASE m \notin s
          <5>1. h[s] = k[s] /\ h[s \ {Max(s)}] = k[s \ {Max(s)}] /\ s \in SUBSET Places
            BY <3>3, <4>2
          <5> HIDE DEF h
          <5>2. QED BY <3>5, <3>8, <5>1
        <4>3. QED BY <4>1, <4>2
      <3>9. Steps(h, st, b, S, m)
        <4>1. h \in [SUBSET More -> S]
          BY <3>6
        <4> HIDE DEF h
        <4>2. QED BY <3>7, <3>8, <4>1 DEF Steps, More
      <3>10. QED BY <3>9, <3>3 DEF m
    <2>3. QED BY <2>1, <2>2
  <1>3. M = Nat
    <2> HIDE DEF M
    <2>1. M \in SUBSET Nat
      BY DEF M
    <2>2. QED BY <1>1, <1>2, <2>1, NumberInduction
  <1>4. QED BY <1>3

------------------------------------------------------------------------------
\* What the prefixes of a sequence of sequences are put together to.
Flattens(F, q, X) ==
  /\ F \in [0 .. Len(q) -> Seq(X)]
  /\ F[0] = << >>
  /\ \A i \in 1 .. Len(q) : \A j : j = i - 1 => F[i] = F[j] \o q[i]

LEMMA FlattenExists ==
  ASSUME NEW X, NEW q \in Seq(Seq(X))
  PROVE  \E F : Flattens(F, q, X)
  <1> DEFINE n == Len(q)
             Part(G, j) == /\ G \in [0 .. j -> Seq(X)]
                           /\ G[0] = << >>
                           /\ \A i \in 1 .. j : G[i] = G[i - 1] \o q[i]
             M == {j \in 0 .. n : \E G : Part(G, j)}
  <1>1. n \in Nat /\ \A i \in 1 .. n : q[i] \in Seq(X)
    OBVIOUS
  <1>2. 0 \in M
    <2> DEFINE G == [i \in 0 .. 0 |-> << >>]
    <2>1. G \in [0 .. 0 -> Seq(X)] /\ G[0] = << >> /\ 1 .. 0 = {}
      OBVIOUS
    <2> HIDE DEF G
    <2>2. Part(G, 0)
      BY <2>1
    <2> HIDE DEF Part
    <2>3. QED BY <1>1, <2>2
  <1>3. ASSUME NEW j \in M, j < n
        PROVE  j + 1 \in M
    <2>1. PICK G : Part(G, j)
      OBVIOUS
    <2>2. j \in Nat /\ j + 1 \in 1 .. n /\ j + 1 \in 0 .. n
      BY <1>1, <1>3
    <2> HIDE DEF n
    <2>a. PICK m : m = j + 1
      OBVIOUS
    <2> DEFINE last == G[j] \o q[m]
               H == [i \in 0 .. m |-> IF i = m THEN last ELSE G[i]]
    <2>3. G[j] \in Seq(X) /\ q[m] \in Seq(X) /\ m \in 1 .. n
      BY <1>1, <2>1, <2>2, <2>a
    <2>4. last \in Seq(X)
      BY <2>3, ConcatProperties
    <2> HIDE DEF last
    <2>5. H \in [0 .. m -> Seq(X)]
      BY <2>1, <2>2, <2>a, <2>4
    <2>6. H[0] = << >>
      BY <2>1, <2>2, <2>a
    <2>7. /\ H[m] = last /\ \A i \in 0 .. j : H[i] = G[i]
      BY <2>2, <2>a
    <2> HIDE DEF H
    <2>8. ASSUME NEW i \in 1 .. m
          PROVE  H[i] = H[i - 1] \o q[i]
      <3>1. PICK k : k = i - 1
        OBVIOUS
      <3>2. k \in 0 .. j
        BY <2>2, <2>a, <3>1
      <3>3. CASE i = m
        <4>1. k = j
          BY <2>2, <2>a, <3>1, <3>3
        <4>2. H[k] = G[j]
          BY <2>7, <3>2, <4>1
        <4>3. QED BY <2>7, <3>1, <3>3, <4>2 DEF last
      <3>4. CASE i \in 1 .. j
        <4>1. G[i] = G[i - 1] \o q[i]
          BY <2>1, <3>4
        <4>2. H[i] = G[i] /\ H[k] = G[k]
          BY <2>2, <2>7, <3>2, <3>4
        <4>3. QED BY <3>1, <4>1, <4>2
      <3>5. i = m \/ i \in 1 .. j
        BY <2>2, <2>a
      <3>6. QED BY <3>3, <3>4, <3>5
    <2>9. Part(H, m)
      BY <2>5, <2>6, <2>8
    <2> HIDE DEF Part
    <2>10. QED BY <2>2, <2>9, <2>a
  <1>4. M = 0 .. n
    <2> HIDE DEF Part, n
    <2>1. M \in SUBSET (0 .. n)
      OBVIOUS
    <2> HIDE DEF M
    <2>2. QED BY <1>1, <1>2, <1>3, <2>1, BoundedInduction
  <1>5. n \in M
    <2> HIDE DEF M, n
    <2>1. QED BY <1>1, <1>4
  <1>6. PICK G : Part(G, n)
    BY <1>5
  <1>7. QED BY <1>6 DEF Flattens

LEMMA FlattenIs ==
  ASSUME NEW X, NEW q \in Seq(Seq(X)), NEW F, Flattens(F, q, X)
  PROVE  FlattenSeq(q) = F[Len(q)] /\ FlattenSeq(q) \in Seq(X)
  <1> DEFINE n == Len(q)
             Eq(f) == f = [i \in 1 .. n |-> IF i = 1 THEN q[i] ELSE f[i - 1] \o q[i]]
             h == CHOOSE f : Eq(f)
  <1>1. /\ n \in Nat /\ \A i \in 1 .. n : q[i] \in Seq(X)
        /\ F \in [0 .. n -> Seq(X)] /\ F[0] = << >>
        /\ \A i \in 1 .. n : F[i] = F[i - 1] \o q[i]
    <2>1. n \in Nat /\ \A i \in 1 .. n : q[i] \in Seq(X)
      OBVIOUS
    <2>2. F \in [0 .. n -> Seq(X)] /\ F[0] = << >>
      BY DEF Flattens
    <2>3. ASSUME NEW i \in 1 .. n
          PROVE  F[i] = F[i - 1] \o q[i]
      BY DEF Flattens
    <2> HIDE DEF n
    <2>4. QED BY <2>1, <2>2, <2>3
  <1>2. F[n] \in Seq(X)
    BY <1>1
  <1>3. CASE n = 0
    <2>1. q = << >>
      BY <1>3
    <2>2. FlattenSeq(q) = << >>
      BY <1>3, <2>1 DEF FlattenSeq
    <2>3. QED BY <1>1, <1>2, <1>3, <2>2
  <1>4. CASE n # 0
    <2>1. FlattenSeq(q) = h[n]
      BY <1>1, <1>4 DEF FlattenSeq
    <2> DEFINE f0 == [i \in 1 .. n |-> F[i]]
    <2>2. Eq(f0)
      <3>1. ASSUME NEW i \in 1 .. n
            PROVE  F[i] = IF i = 1 THEN q[i] ELSE f0[i - 1] \o q[i]
        <4>1. CASE i = 1
          <5>1. F[1] = << >> \o q[1] /\ q[1] \in Seq(X)
            <6>1. 0 = 1 - 1
              OBVIOUS
            <6>2. F[1] = F[0] \o q[1]
              BY <4>1, <6>1 DEF Flattens
            <6>3. QED BY <1>1, <4>1, <6>2
          <5>2. << >> \o q[1] = q[1]
            BY <5>1, ConcatEmptySeq
          <5>3. QED BY <4>1, <5>1, <5>2
        <4>2. CASE i # 1
          <5>1. i - 1 \in 1 .. n /\ f0[i - 1] = F[i - 1]
            BY <1>1, <4>2
          <5>2. QED BY <1>1, <4>2, <5>1
        <4>3. QED BY <4>1, <4>2
      <3> DEFINE g0 == [i \in 1 .. n |-> IF i = 1 THEN q[i] ELSE f0[i - 1] \o q[i]]
      <3>2. f0 = g0
        <4>1. \A i \in 1 .. n : f0[i] = g0[i]
          BY <3>1
        <4> HIDE DEF n
        <4>2. QED BY <4>1
      <3>3. QED BY <3>2
    <2> HIDE DEF f0
    <2>3. Eq(h)
      BY <2>2
    <2> DEFINE M == {j \in 0 .. n : j # 0 => h[j] = F[j]}
    <2> HIDE DEF h
    <2>4. 0 \in M
      BY <1>1
    <2>5. ASSUME NEW j \in M, j < n
          PROVE  j + 1 \in M
      <3>1. j \in Nat /\ j + 1 \in 1 .. n /\ j + 1 \in 0 .. n
        BY <1>1, <2>5
      <3>2. h[j + 1] = IF j + 1 = 1 THEN q[j + 1] ELSE h[(j + 1) - 1] \o q[j + 1]
        BY <2>3, <3>1
      <3>3. F[j + 1] = F[j] \o q[j + 1] /\ q[j + 1] \in Seq(X)
        <4>1. j = (j + 1) - 1
          BY <3>1
        <4>2. F[j + 1] = F[j] \o q[j + 1]
          BY <3>1, <4>1 DEF Flattens
        <4>3. QED BY <1>1, <3>1, <4>2
      <3>4. CASE j = 0
        <4>1. F[j + 1] = << >> \o q[j + 1]
          BY <1>1, <3>3, <3>4
        <4>2. << >> \o q[j + 1] = q[j + 1]
          BY <3>3, ConcatEmptySeq
        <4>3. h[j + 1] = F[j + 1]
          BY <3>2, <3>4, <4>1, <4>2
        <4>4. QED BY <3>1, <4>3
      <3>5. CASE j # 0
        <4>1. h[j] = F[j] /\ (j + 1) - 1 = j /\ j + 1 # 1
          BY <3>1, <3>5
        <4>2. h[j + 1] = F[j + 1]
          BY <3>2, <3>3, <4>1
        <4>3. QED BY <3>1, <4>2
      <3>6. QED BY <3>4, <3>5
    <2>6. M = 0 .. n
      <3>1. M \in SUBSET (0 .. n)
        OBVIOUS
      <3> HIDE DEF M, n
      <3>2. QED BY <1>1, <2>4, <2>5, <3>1, BoundedInduction
    <2>7. h[n] = F[n]
      BY <1>1, <1>4, <2>6
    <2>8. QED BY <1>2, <2>1, <2>7
  <1>5. QED BY <1>3, <1>4

LEMMA FlattenType ==
  ASSUME NEW X, NEW q \in Seq(Seq(X))
  PROVE  FlattenSeq(q) \in Seq(X)
  BY FlattenExists, FlattenIs

LEMMA FlattenNone == FlattenSeq(<< >>) = << >>
  BY DEF FlattenSeq

LEMMA FlattenOne ==
  ASSUME NEW X, NEW b \in Seq(X)
  PROVE  FlattenSeq(<<b>>) = b
  <1> DEFINE q == <<b>>
  <1>1. q \in Seq(Seq(X)) /\ Len(q) = 1 /\ q[1] = b
    OBVIOUS
  <1> HIDE DEF q
  <1>2. PICK F : Flattens(F, q, X)
    BY <1>1, FlattenExists
  <1>3. F[1] = F[0] \o b /\ F[0] = << >>
    <2>1. 0 = 1 - 1 /\ 1 \in 1 .. Len(q)
      BY <1>1
    <2>2. F[1] = F[0] \o q[1]
      BY <1>2, <2>1 DEF Flattens
    <2>3. QED BY <1>1, <1>2, <2>2 DEF Flattens
  <1>4. << >> \o b = b
    BY ConcatEmptySeq
  <1>5. FlattenSeq(q) = F[1]
    BY <1>1, <1>2, FlattenIs
  <1>6. QED BY <1>3, <1>4, <1>5 DEF q

LEMMA FlattenBoth ==
  ASSUME NEW X, NEW q \in Seq(Seq(X)), NEW r \in Seq(Seq(X))
  PROVE  FlattenSeq(q \o r) = FlattenSeq(q) \o FlattenSeq(r)
  <1> DEFINE n == Len(q)
             m == Len(r)
             w == q \o r
  <1>1. /\ n \in Nat /\ m \in Nat /\ w \in Seq(Seq(X)) /\ Len(w) = n + m
        /\ \A i \in 1 .. n : w[i] = q[i]
        /\ \A i \in 1 .. m : w[n + i] = r[i]
        /\ \A i \in 1 .. m : r[i] \in Seq(X)
    <2>1. /\ w \in Seq(Seq(X)) /\ Len(w) = n + m
          /\ \A i \in 1 .. n + m : w[i] = IF i <= n THEN q[i] ELSE r[i - n]
      BY ConcatProperties
    <2>2. n \in Nat /\ m \in Nat /\ \A i \in 1 .. m : r[i] \in Seq(X)
      OBVIOUS
    <2> HIDE DEF w, n, m
    <2>3. ASSUME NEW i \in 1 .. n
          PROVE  w[i] = q[i]
      BY <2>1, <2>2
    <2>4. ASSUME NEW i \in 1 .. m
          PROVE  w[n + i] = r[i]
      <3>1. n + i \in 1 .. n + m /\ ~ (n + i <= n) /\ (n + i) - n = i
        BY <2>2
      <3>2. QED BY <2>1, <3>1
    <2>5. QED BY <2>1, <2>2, <2>3, <2>4
  <1> HIDE DEF w
  <1>2. PICK F : Flattens(F, w, X)
    BY <1>1, FlattenExists
  <1>3. PICK G : Flattens(G, q, X)
    BY FlattenExists
  <1>4. PICK H : Flattens(H, r, X)
    BY FlattenExists
  <1>5. /\ F \in [0 .. n + m -> Seq(X)] /\ F[0] = << >>
        /\ \A i \in 1 .. n + m : F[i] = F[i - 1] \o w[i]
    BY <1>1, <1>2 DEF Flattens
  <1>6. /\ G \in [0 .. n -> Seq(X)] /\ G[0] = << >>
        /\ \A i \in 1 .. n : G[i] = G[i - 1] \o q[i]
    BY <1>3 DEF Flattens
  <1>7. /\ H \in [0 .. m -> Seq(X)] /\ H[0] = << >>
        /\ \A i \in 1 .. m : H[i] = H[i - 1] \o r[i]
    BY <1>4 DEF Flattens
  <1> HIDE DEF n, m
  <1>8. F[n] = G[n]
    <2> DEFINE M == {j \in 0 .. n : F[j] = G[j]}
    <2>1. 0 \in M
      BY <1>1, <1>5, <1>6
    <2>2. ASSUME NEW j \in M, j < n
          PROVE  j + 1 \in M
      <3>1. j \in Nat /\ j + 1 \in 1 .. n /\ j + 1 \in 1 .. n + m /\ (j + 1) - 1 = j
            /\ j + 1 \in 0 .. n
        BY <1>1, <2>2
      <3>2. F[j + 1] = F[j] \o w[j + 1] /\ G[j + 1] = G[j] \o q[j + 1]
        BY <1>5, <1>6, <3>1
      <3>3. QED BY <1>1, <3>1, <3>2
    <2>3. M = 0 .. n
      <3>1. M \in SUBSET (0 .. n)
        OBVIOUS
      <3> HIDE DEF M
      <3>2. QED BY <1>1, <2>1, <2>2, <3>1, BoundedInduction
    <2>4. n \in M
      <3> HIDE DEF M
      <3>1. QED BY <1>1, <2>3
    <2>5. QED BY <2>4
  <1>9. G[n] \in Seq(X)
    BY <1>1, <1>6
  <1>10. F[n + m] = G[n] \o H[m]
    <2> DEFINE M == {j \in 0 .. m : F[n + j] = G[n] \o H[j]}
    <2>1. 0 \in M
      <3>1. n + 0 = n /\ 0 \in 0 .. m
        BY <1>1
      <3>2. G[n] \o << >> = G[n]
        BY <1>9, ConcatEmptySeq
      <3>3. QED BY <1>7, <1>8, <3>1, <3>2
    <2>2. ASSUME NEW j \in M, j < m
          PROVE  j + 1 \in M
      <3>1. /\ j \in Nat /\ j + 1 \in 1 .. m /\ n + (j + 1) \in 1 .. n + m
            /\ (n + (j + 1)) - 1 = n + j /\ (j + 1) - 1 = j /\ j + 1 \in 0 .. m /\ j \in 0 .. m
        BY <1>1, <2>2
      <3>2. F[n + (j + 1)] = F[n + j] \o w[n + (j + 1)]
        BY <1>5, <3>1
      <3>3. w[n + (j + 1)] = r[j + 1] /\ r[j + 1] \in Seq(X)
        BY <1>1, <3>1
      <3>4. H[j + 1] = H[j] \o r[j + 1] /\ H[j] \in Seq(X)
        BY <1>7, <3>1
      <3>5. F[n + j] = G[n] \o H[j]
        OBVIOUS
      <3>6. (G[n] \o H[j]) \o r[j + 1] = G[n] \o (H[j] \o r[j + 1])
        <4>1. PICK t : t = H[j]
          OBVIOUS
        <4>2. PICK u : u = r[j + 1]
          OBVIOUS
        <4>3. PICK a : a = G[n]
          OBVIOUS
        <4>4. a \in Seq(X) /\ t \in Seq(X) /\ u \in Seq(X)
          BY <1>9, <3>3, <3>4, <4>1, <4>2, <4>3
        <4>5. (a \o t) \o u = a \o (t \o u)
          BY <4>4, ConcatAssociative
        <4>6. QED BY <4>1, <4>2, <4>3, <4>5
      <3>7. F[n + (j + 1)] = G[n] \o H[j + 1]
        BY <3>2, <3>3, <3>4, <3>5, <3>6
      <3>8. QED BY <3>1, <3>7
    <2>3. M = 0 .. m
      <3>1. M \in SUBSET (0 .. m)
        OBVIOUS
      <3> HIDE DEF M
      <3>2. QED BY <1>1, <2>1, <2>2, <3>1, BoundedInduction
    <2>4. m \in M
      <3> HIDE DEF M
      <3>1. QED BY <1>1, <2>3
    <2>5. QED BY <2>4
  <1>11. FlattenSeq(w) = F[n + m]
    BY <1>1, <1>2, FlattenIs
  <1>12. FlattenSeq(q) = G[n] /\ FlattenSeq(r) = H[m]
    BY <1>3, <1>4, FlattenIs DEF n, m
  <1>13. QED BY <1>10, <1>11, <1>12 DEF w

LEMMA FlattenThree ==
  ASSUME NEW X, NEW l \in Seq(Seq(X)), NEW b \in Seq(X), NEW r \in Seq(Seq(X))
  PROVE  FlattenSeq((l \o <<b>>) \o r) = (FlattenSeq(l) \o b) \o FlattenSeq(r)
  <1>1. <<b>> \in Seq(Seq(X))
    OBVIOUS
  <1> DEFINE m == <<b>>
  <1>2. FlattenSeq(m) = b
    BY FlattenOne
  <1> HIDE DEF m
  <1>3. l \o m \in Seq(Seq(X))
    BY <1>1, ConcatProperties DEF m
  <1>4. FlattenSeq(l \o m) = FlattenSeq(l) \o FlattenSeq(m)
    BY <1>1, FlattenBoth DEF m
  <1>5. FlattenSeq((l \o m) \o r) = FlattenSeq(l \o m) \o FlattenSeq(r)
    BY <1>3, FlattenBoth
  <1>6. QED BY <1>2, <1>4, <1>5 DEF m

------------------------------------------------------------------------------
\* The entries of the first k of several lists, and of the others.

Early(q, k) == FlattenSeq(SubSeq(q, 1, k))
Late(q, k) == FlattenSeq(SubSeq(q, k + 1, Len(q)))

LEMMA RunType ==
  ASSUME NEW X, NEW s \in Seq(X), NEW a \in 1 .. Len(s) + 1, NEW b \in 0 .. Len(s), NEW Y,
         \A i \in a .. b : s[i] \in Y
  PROVE  /\ SubSeq(s, a, b) \in Seq(Y)
         /\ Len(SubSeq(s, a, b)) = IF a <= b THEN b - a + 1 ELSE 0
         /\ \A i \in 1 .. b - a + 1 : SubSeq(s, a, b)[i] = s[a + i - 1]
  <1>1. Len(s) \in Nat /\ a \in Int /\ b \in Int
    OBVIOUS
  <1>2. QED BY <1>1, SubSeqProperties

LEMMA RunOf ==
  ASSUME NEW X, NEW s \in Seq(X), NEW a \in 1 .. Len(s) + 1, NEW b \in 0 .. Len(s)
  PROVE  /\ SubSeq(s, a, b) \in Seq(X)
         /\ Len(SubSeq(s, a, b)) = IF a <= b THEN b - a + 1 ELSE 0
         /\ \A i \in 1 .. b - a + 1 : SubSeq(s, a, b)[i] = s[a + i - 1]
  <1>1. \A i \in a .. b : s[i] \in X
    OBVIOUS
  <1>2. QED BY <1>1, RunType

\* Two runs of as many entries, the same ones.
Matching(s, a, b, w, c, d) ==
  /\ b - a = d - c
  /\ \A i \in 1 .. b - a + 1 : s[a + i - 1] = w[c + i - 1]

LEMMA SameRun ==
  ASSUME NEW X, NEW s \in Seq(X), NEW w \in Seq(X),
         NEW a \in 1 .. Len(s) + 1, NEW b \in 0 .. Len(s),
         NEW c \in 1 .. Len(w) + 1, NEW d \in 0 .. Len(w),
         Matching(s, a, b, w, c, d)
  PROVE  SubSeq(s, a, b) = SubSeq(w, c, d)
  <1>0. b - a = d - c /\ \A i \in 1 .. b - a + 1 : s[a + i - 1] = w[c + i - 1]
    BY DEF Matching
  <1>1. Len(s) \in Nat /\ Len(w) \in Nat
    OBVIOUS
  <1>2. /\ SubSeq(s, a, b) \in Seq(X)
        /\ Len(SubSeq(s, a, b)) = IF a <= b THEN b - a + 1 ELSE 0
        /\ \A i \in 1 .. b - a + 1 : SubSeq(s, a, b)[i] = s[a + i - 1]
    BY RunOf
  <1>3. /\ SubSeq(w, c, d) \in Seq(X)
        /\ Len(SubSeq(w, c, d)) = IF c <= d THEN d - c + 1 ELSE 0
        /\ \A i \in 1 .. d - c + 1 : SubSeq(w, c, d)[i] = w[c + i - 1]
    BY RunOf
  <1> DEFINE u == SubSeq(s, a, b)
             v == SubSeq(w, c, d)
  <1> HIDE DEF u, v
  <1>4. Len(u) = Len(v)
    BY <1>0, <1>1, <1>2, <1>3 DEF u, v
  <1>5. ASSUME NEW i \in 1 .. Len(u)
        PROVE  u[i] = v[i]
    <2>1. i \in 1 .. b - a + 1 /\ i \in 1 .. d - c + 1
      BY <1>0, <1>1, <1>2 DEF u
    <2>2. QED BY <1>0, <1>2, <1>3, <2>1 DEF u, v
  <1>6. QED BY <1>2, <1>3, <1>4, <1>5, SeqEqual DEF u, v

LEMMA EarlyType ==
  ASSUME NEW X, NEW q \in Seq(Seq(X)), NEW k \in 0 .. Len(q), NEW Y,
         \A i \in 1 .. k : q[i] \in Seq(Y)
  PROVE  Early(q, k) \in Seq(Y)
  <1>1. 1 \in 1 .. Len(q) + 1
    OBVIOUS
  <1>2. SubSeq(q, 1, k) \in Seq(Seq(Y))
    BY <1>1, RunType
  <1>3. QED BY <1>2, FlattenType DEF Early

LEMMA LateType ==
  ASSUME NEW X, NEW q \in Seq(Seq(X)), NEW k \in 0 .. Len(q), NEW Y,
         \A i \in k + 1 .. Len(q) : q[i] \in Seq(Y)
  PROVE  Late(q, k) \in Seq(Y)
  <1>1. k + 1 \in 1 .. Len(q) + 1 /\ Len(q) \in 0 .. Len(q)
    OBVIOUS
  <1>2. SubSeq(q, k + 1, Len(q)) \in Seq(Seq(Y))
    BY <1>1, RunType
  <1>3. QED BY <1>2, FlattenType DEF Late

LEMMA EarlySame ==
  ASSUME NEW X, NEW q \in Seq(Seq(X)), NEW r \in Seq(Seq(X)), NEW k \in Nat,
         k <= Len(q), k <= Len(r), \A i \in 1 .. k : q[i] = r[i]
  PROVE  Early(q, k) = Early(r, k)
  <1>1. /\ 1 \in 1 .. Len(q) + 1 /\ k \in 0 .. Len(q)
        /\ 1 \in 1 .. Len(r) + 1 /\ k \in 0 .. Len(r)
    OBVIOUS
  <1>2. \A i \in 1 .. k - 1 + 1 : q[1 + i - 1] = r[1 + i - 1]
    OBVIOUS
  <1>3. SubSeq(q, 1, k) = SubSeq(r, 1, k)
    BY <1>1, <1>2, SameRun DEF Matching
  <1>4. QED BY <1>3 DEF Early

\* Two lists that end alike.
Aligned(q, k, r, j) ==
  /\ Len(q) - k = Len(r) - j
  /\ \A i \in 1 .. Len(q) - k : q[k + i] = r[j + i]

LEMMA LateSame ==
  ASSUME NEW X, NEW q \in Seq(Seq(X)), NEW r \in Seq(Seq(X)),
         NEW k \in 0 .. Len(q), NEW j \in 0 .. Len(r), Aligned(q, k, r, j)
  PROVE  Late(q, k) = Late(r, j)
  <1>0. Len(q) - k = Len(r) - j /\ \A i \in 1 .. Len(q) - k : q[k + i] = r[j + i]
    BY DEF Aligned
  <1>1. PICK a, b, c, d : a = k + 1 /\ b = Len(q) /\ c = j + 1 /\ d = Len(r)
    OBVIOUS
  <1>2. /\ a \in 1 .. Len(q) + 1 /\ b \in 0 .. Len(q)
        /\ c \in 1 .. Len(r) + 1 /\ d \in 0 .. Len(r) /\ b - a = d - c
    BY <1>0, <1>1
  <1>3. ASSUME NEW i \in 1 .. b - a + 1
        PROVE  q[a + i - 1] = r[c + i - 1]
    <2>1. /\ i \in 1 .. Len(q) - k
          /\ a + i - 1 = k + i /\ c + i - 1 = j + i
      BY <1>1
    <2>2. QED BY <1>0, <2>1
  <1>4. PICK Y : Y = Seq(X)
    OBVIOUS
  <1>5. q \in Seq(Y) /\ r \in Seq(Y)
    BY <1>4
  <1>6. SubSeq(q, a, b) = SubSeq(r, c, d)
    <2>1. Matching(q, a, b, r, c, d)
      BY <1>2, <1>3 DEF Matching
    <2>2. a \in 1 .. Len(q) + 1 /\ b \in 0 .. Len(q) /\ c \in 1 .. Len(r) + 1 /\ d \in 0 .. Len(r)
      BY <1>2
    <2>3. QED BY ONLY <2>1, <2>2, <1>5, SameRun
  <1>7. QED BY <1>1, <1>6 DEF Late

LEMMA SplitAt ==
  ASSUME NEW X, NEW q \in Seq(Seq(X)), NEW k \in 0 .. Len(q)
  PROVE  FlattenSeq(q) = Early(q, k) \o Late(q, k)
  <1>1. 1 \in 1 .. Len(q) + 1 /\ k \in 1 - 1 .. Len(q) /\ Len(q) \in k .. Len(q)
        /\ k + 1 \in 1 .. Len(q) + 1 /\ Len(q) \in 0 .. Len(q)
    OBVIOUS
  <1>2. SubSeq(q, 1, k) \o SubSeq(q, k + 1, Len(q)) = SubSeq(q, 1, Len(q))
    BY <1>1, ConcatAdjacentSubSeq
  <1>3. SubSeq(q, 1, Len(q)) = q
    BY SubSeqFull
  <1>4. SubSeq(q, 1, k) \in Seq(Seq(X)) /\ SubSeq(q, k + 1, Len(q)) \in Seq(Seq(X))
    BY <1>1, RunOf
  <1>5. FlattenSeq(SubSeq(q, 1, k) \o SubSeq(q, k + 1, Len(q))) =
          FlattenSeq(SubSeq(q, 1, k)) \o FlattenSeq(SubSeq(q, k + 1, Len(q)))
    BY <1>4, FlattenBoth
  <1>6. QED BY <1>2, <1>3, <1>5 DEF Early, Late

LEMMA EarlyNext ==
  ASSUME NEW X, NEW q \in Seq(Seq(X)), NEW k \in 1 .. Len(q), NEW j, j = k - 1
  PROVE  Early(q, k) = Early(q, j) \o q[k]
  <1>1. 1 \in 1 .. Len(q) /\ k \in 1 .. Len(q) /\ 1 \in 1 .. Len(q) + 1 /\ j \in 0 .. Len(q)
        /\ q[k] \in Seq(X)
    OBVIOUS
  <1>2. SubSeq(q, 1, k) = SubSeq(q, 1, k - 1) \o <<q[k]>>
    BY <1>1, SubSeqRecursiveSecond
  <1> DEFINE b == <<q[k]>>
  <1>3. b \in Seq(Seq(X))
    BY <1>1
  <1>4. FlattenSeq(b) = q[k]
    BY <1>1, FlattenOne
  <1> HIDE DEF b
  <1>5. SubSeq(q, 1, j) \in Seq(Seq(X))
    BY <1>1, RunOf
  <1>6. FlattenSeq(SubSeq(q, 1, j) \o b) = FlattenSeq(SubSeq(q, 1, j)) \o FlattenSeq(b)
    BY <1>3, <1>5, FlattenBoth
  <1>7. SubSeq(q, 1, k) = SubSeq(q, 1, j) \o b
    BY <1>2 DEF b
  <1>8. QED BY <1>4, <1>6, <1>7 DEF Early
------------------------------------------------------------------------------
\* Where an entry is put in, and taken out.

LEMMA InsertBetween ==
  ASSUME NEW X, NEW a \in Seq(X), NEW b \in Seq(X), NEW e \in X, NEW k, k = Len(a) + 1
  PROVE  InsertAt(a \o b, k, e) = (a \o <<e>>) \o b
  <1> DEFINE s == a \o b
  <1>1. /\ s \in Seq(X) /\ Len(s) = Len(a) + Len(b)
        /\ \A i \in 1 .. Len(a) + Len(b) : s[i] = IF i <= Len(a) THEN a[i] ELSE b[i - Len(a)]
    BY ConcatProperties
  <1>2. Len(a) \in Nat /\ Len(b) \in Nat
    OBVIOUS
  <1> HIDE DEF s
  <1>3. SubSeq(s, 1, k - 1) = a
    <2>1. /\ 1 \in 1 .. Len(s) + 1 /\ k - 1 \in 0 .. Len(s)
          /\ 1 \in 1 .. Len(a) + 1 /\ Len(a) \in 0 .. Len(a) /\ (k - 1) - 1 = Len(a) - 1
      BY <1>1, <1>2
    <2>2. ASSUME NEW i \in 1 .. (k - 1) - 1 + 1
          PROVE  s[1 + i - 1] = a[1 + i - 1]
      <3>1. 1 + i - 1 = i /\ i \in 1 .. Len(a) + Len(b) /\ i <= Len(a)
        BY <1>2
      <3>2. QED BY <1>1, <3>1
    <2>3. SubSeq(s, 1, k - 1) = SubSeq(a, 1, Len(a))
      BY <1>1, <2>1, <2>2, SameRun DEF Matching
    <2>4. QED BY <2>3, SubSeqFull
  <1>4. SubSeq(s, k, Len(s)) = b
    <2>1. /\ k \in 1 .. Len(s) + 1 /\ Len(s) \in 0 .. Len(s)
          /\ 1 \in 1 .. Len(b) + 1 /\ Len(b) \in 0 .. Len(b) /\ Len(s) - k = Len(b) - 1
      BY <1>1, <1>2
    <2>2. ASSUME NEW i \in 1 .. Len(s) - k + 1
          PROVE  s[k + i - 1] = b[1 + i - 1]
      <3>1. /\ 1 + i - 1 = i /\ k + i - 1 = Len(a) + i /\ Len(a) + i \in 1 .. Len(a) + Len(b)
            /\ ~ (Len(a) + i <= Len(a)) /\ (Len(a) + i) - Len(a) = i
        BY <1>1, <1>2
      <3>2. s[Len(a) + i] = b[(Len(a) + i) - Len(a)]
        BY <1>1, <3>1
      <3>3. QED BY <3>1, <3>2
    <2>3. SubSeq(s, k, Len(s)) = SubSeq(b, 1, Len(b))
      BY <1>1, <2>1, <2>2, SameRun DEF Matching
    <2>4. QED BY <2>3, SubSeqFull
  <1>5. QED BY <1>3, <1>4 DEF InsertAt, s

\* What is at a position of three lists put together.
Beside(w, a, s, b) ==
  /\ Len(w) = Len(a) + Len(s) + Len(b)
  /\ \A i \in 1 .. Len(a) : w[i] = a[i]
  /\ \A i \in 1 .. Len(s) : w[Len(a) + i] = s[i]
  /\ \A i \in 1 .. Len(b) : w[Len(a) + Len(s) + i] = b[i]

LEMMA ThreeLists ==
  ASSUME NEW X, NEW a \in Seq(X), NEW s \in Seq(X), NEW b \in Seq(X)
  PROVE  (a \o s) \o b \in Seq(X) /\ Beside((a \o s) \o b, a, s, b)
  <1> DEFINE u == a \o s
             w == u \o b
  <1>0. Len(a) \in Nat /\ Len(s) \in Nat /\ Len(b) \in Nat
    OBVIOUS
  <1>1. /\ u \in Seq(X) /\ Len(u) = Len(a) + Len(s)
        /\ \A i \in 1 .. Len(a) + Len(s) : u[i] = IF i <= Len(a) THEN a[i] ELSE s[i - Len(a)]
    BY ConcatProperties
  <1>9. (a \o s) \o b = w
    OBVIOUS
  <1> HIDE DEF u
  <1>2. /\ w \in Seq(X) /\ Len(w) = Len(u) + Len(b)
        /\ \A i \in 1 .. Len(u) + Len(b) : w[i] = IF i <= Len(u) THEN u[i] ELSE b[i - Len(u)]
    <2>1. PICK v : v = u
      OBVIOUS
    <2>2. v \in Seq(X)
      BY <1>1, <2>1
    <2>3. /\ v \o b \in Seq(X) /\ Len(v \o b) = Len(v) + Len(b)
          /\ \A i \in 1 .. Len(v) + Len(b) :
               (v \o b)[i] = IF i <= Len(v) THEN v[i] ELSE b[i - Len(v)]
      BY <2>2, ConcatProperties
    <2>4. QED BY <2>1, <2>3
  <1>3. ASSUME NEW i \in 1 .. Len(a)
        PROVE  w[i] = a[i]
    BY <1>0, <1>1, <1>2
  <1>4. ASSUME NEW i \in 1 .. Len(s)
        PROVE  w[Len(a) + i] = s[i]
    <2>1. /\ Len(a) + i \in 1 .. Len(u) + Len(b) /\ Len(a) + i <= Len(u)
          /\ Len(a) + i \in 1 .. Len(a) + Len(s)
          /\ ~ (Len(a) + i <= Len(a)) /\ (Len(a) + i) - Len(a) = i
      BY <1>0, <1>1
    <2>2. w[Len(a) + i] = u[Len(a) + i]
      BY <1>2, <2>1
    <2>3. u[Len(a) + i] = s[(Len(a) + i) - Len(a)]
      BY <1>1, <2>1
    <2>4. QED BY <2>1, <2>2, <2>3
  <1>5. ASSUME NEW i \in 1 .. Len(b)
        PROVE  w[Len(a) + Len(s) + i] = b[i]
    <2>1. /\ Len(a) + Len(s) + i \in 1 .. Len(u) + Len(b) /\ ~ (Len(a) + Len(s) + i <= Len(u))
          /\ (Len(a) + Len(s) + i) - Len(u) = i
      BY <1>0, <1>1
    <2>2. w[Len(a) + Len(s) + i] = b[(Len(a) + Len(s) + i) - Len(u)]
      BY <1>2, <2>1
    <2>3. QED BY <2>1, <2>2
  <1>6. Len(w) = Len(a) + Len(s) + Len(b)
    BY <1>0, <1>1, <1>2
  <1>7. Beside(w, a, s, b)
    BY <1>3, <1>4, <1>5, <1>6 DEF Beside
  <1>8. QED BY <1>2, <1>7, <1>9
------------------------------------------------------------------------------
\* What holds of no list and of one list more holds of the lists laid end to end.
LEMMA FlattenInduction ==
  ASSUME NEW X, NEW q \in Seq(Seq(X)), NEW G \in [0 .. Len(q) -> SUBSET Seq(X)], << >> \in G[0],
         \A j \in 0 .. Len(q) - 1 : \A s \in G[j] : s \o q[j + 1] \in G[j + 1]
  PROVE  FlattenSeq(q) \in G[Len(q)]
  <1> DEFINE n == Len(q)
  <1>1. PICK F : Flattens(F, q, X)
    BY FlattenExists
  <1> DEFINE M == {j \in 0 .. n : F[j] \in G[j]}
  <1>2. n \in Nat /\ F \in [0 .. n -> Seq(X)] /\ F[0] = << >>
    BY <1>1 DEF Flattens
  <1>3. ASSUME NEW j \in M, j < n
        PROVE  j + 1 \in M
    <2>0. j \in 0 .. n
      OBVIOUS
    <2>1. j \in 0 .. n - 1 /\ j + 1 \in 1 .. n /\ j = (j + 1) - 1 /\ F[j] \in Seq(X)
      <3> HIDE DEF M, n
      <3>1. QED BY <1>2, <1>3, <2>0
    <2>2. F[j + 1] = F[j] \o q[j + 1]
      BY <1>1, <2>1 DEF Flattens
    <2>3. F[j] \o q[j + 1] \in G[j + 1]
      <3> HIDE DEF n
      <3>1. F[j] \in G[j]
        OBVIOUS
      <3>2. QED BY <2>1, <3>1 DEF n
    <2>4. j + 1 \in 0 .. n
      <3> HIDE DEF M, n
      <3>1. QED BY <1>2, <2>1
    <2> HIDE DEF n
    <2>5. QED BY <2>2, <2>3, <2>4
  <1>4. 0 \in M /\ M \in SUBSET (0 .. n)
    <2>1. F[0] \in G[0]
      BY <1>2
    <2> HIDE DEF n
    <2>2. QED BY <1>2, <2>1
  <1>5. M = 0 .. n
    <2> HIDE DEF M, n
    <2>1. QED BY <1>2, <1>3, <1>4, BoundedInduction
  <1>6. F[n] \in G[n]
    BY <1>2, <1>5
  <1>7. FlattenSeq(q) = F[n]
    BY <1>1, FlattenIs
  <1>8. QED BY <1>6, <1>7

\* What is laid behind one another, and what of it repeats.
LEMMA ConcatHolds ==
  ASSUME NEW X, NEW s \in Seq(X), NEW t \in Seq(X)
  PROVE  ToSet(s \o t) = ToSet(s) \cup ToSet(t)
  <1> DEFINE n == Len(s)
             m == Len(t)
             u == s \o t
  <1>1. /\ n \in Nat /\ m \in Nat /\ DOMAIN s = 1 .. n /\ DOMAIN t = 1 .. m /\ DOMAIN u = 1 .. n + m
        /\ \A i \in 1 .. n + m : u[i] = IF i =< n THEN s[i] ELSE t[i - n]
    OBVIOUS
  <1> HIDE DEF n, m, u
  <1>2. ASSUME NEW i \in DOMAIN u
        PROVE  u[i] \in ToSet(s) \cup ToSet(t)
    <2>1. CASE i =< n
      <3>1. i \in DOMAIN s /\ u[i] = s[i]
        BY <1>1, <2>1
      <3>2. QED BY <3>1 DEF ToSet
    <2>2. CASE ~ (i =< n)
      <3>1. i - n \in DOMAIN t /\ u[i] = t[i - n]
        BY <1>1, <2>2
      <3>2. QED BY <3>1 DEF ToSet
    <2>3. QED BY <2>1, <2>2
  <1>3. ASSUME NEW i \in DOMAIN s
        PROVE  s[i] \in ToSet(u)
    <2>1. i \in DOMAIN u /\ u[i] = s[i]
      BY <1>1
    <2>2. QED BY <2>1 DEF ToSet
  <1>4. ASSUME NEW i \in DOMAIN t
        PROVE  t[i] \in ToSet(u)
    <2>1. i + n \in DOMAIN u /\ u[i + n] = t[i]
      BY <1>1
    <2>2. QED BY <2>1 DEF ToSet
  <1>5. ToSet(u) = ToSet(s) \cup ToSet(t)
    BY <1>2, <1>3, <1>4 DEF ToSet
  <1>6. QED BY <1>5 DEF u

LEMMA ConcatOnce ==
  ASSUME NEW X, NEW s \in Seq(X), NEW t \in Seq(X), IsInjective(s), IsInjective(t),
         ToSet(s) \cap ToSet(t) = {}
  PROVE  IsInjective(s \o t)
  <1> DEFINE n == Len(s)
             m == Len(t)
             u == s \o t
  <1>1. /\ n \in Nat /\ m \in Nat /\ DOMAIN s = 1 .. n /\ DOMAIN t = 1 .. m /\ DOMAIN u = 1 .. n + m
        /\ \A i \in 1 .. n + m : u[i] = IF i =< n THEN s[i] ELSE t[i - n]
    OBVIOUS
  <1>2. /\ \A i, j \in DOMAIN s : s[i] = s[j] => i = j
        /\ \A i, j \in DOMAIN t : t[i] = t[j] => i = j
        /\ \A i \in DOMAIN s : \A j \in DOMAIN t : s[i] # t[j]
    BY DEF IsInjective, ToSet
  <1> HIDE DEF n, m, u
  <1>3. ASSUME NEW i \in DOMAIN u, NEW j \in DOMAIN u, u[i] = u[j]
        PROVE  i = j
    <2>1. CASE i =< n /\ j =< n
      BY <1>1, <1>2, <1>3, <2>1
    <2>2. CASE i =< n /\ ~ (j =< n)
      <3>1. i \in DOMAIN s /\ j - n \in DOMAIN t
        BY <1>1, <2>2
      <3>2. QED BY <1>1, <1>2, <1>3, <2>2, <3>1
    <2>3. CASE ~ (i =< n) /\ j =< n
      <3>1. j \in DOMAIN s /\ i - n \in DOMAIN t
        BY <1>1, <2>3
      <3>2. QED BY <1>1, <1>2, <1>3, <2>3, <3>1
    <2>4. CASE ~ (i =< n) /\ ~ (j =< n)
      <3>1. i - n \in DOMAIN t /\ j - n \in DOMAIN t
        BY <1>1, <2>4
      <3>2. i - n = j - n
        BY <1>1, <1>2, <1>3, <2>4, <3>1
      <3>3. QED BY <1>1, <3>2
    <2>5. QED BY <2>1, <2>2, <2>3, <2>4
  <1>4. IsInjective(u)
    BY <1>3 DEF IsInjective
  <1>5. QED BY <1>4 DEF u

\* Lists laid end to end hold what the lists hold.
LEMMA FlattenHolds ==
  ASSUME NEW X, NEW q \in Seq(Seq(X))
  PROVE  \A x : x \in ToSet(FlattenSeq(q)) <=> \E i \in 1 .. Len(q) : x \in ToSet(q[i])
  <1> DEFINE n == Len(q)
             Held(j) == {x \in X : \E i \in 1 .. j : x \in ToSet(q[i])}
             G == [j \in 0 .. n |-> {s \in Seq(X) : ToSet(s) = Held(j)}]
  <1>1. n \in Nat /\ \A i \in 1 .. n : q[i] \in Seq(X)
    OBVIOUS
  <1>2. \A s \in Seq(X) : ToSet(s) \subseteq X
    BY DEF ToSet
  <1>3. << >> \in G[0]
    <2> DEFINE e == << >>
    <2>1. ToSet(e) = {} /\ 1 .. 0 = {} /\ e \in Seq(X)
      BY DEF ToSet
    <2>2. Held(0) = {}
      BY <2>1
    <2>3. e \in G[0]
      <3> HIDE DEF Held, n, e
      <3>1. 0 \in 0 .. n
        BY <1>1
      <3>2. G[0] = {s \in Seq(X) : ToSet(s) = Held(0)}
        BY <3>1
      <3> HIDE DEF G
      <3>3. QED BY <2>1, <2>2, <3>2
    <2>4. QED BY <2>3 DEF e
  <1>4. ASSUME NEW j \in 0 .. n - 1, NEW s \in G[j]
        PROVE  s \o q[j + 1] \in G[j + 1]
    <2>1. j + 1 \in 1 .. n /\ 1 .. j + 1 = (1 .. j) \cup {j + 1} /\ q[j + 1] \in Seq(X)
      BY <1>1
    <2>2. s \in Seq(X) /\ ToSet(s) = Held(j)
      OBVIOUS
    <2>3. Held(j + 1) = Held(j) \cup ToSet(q[j + 1])
      BY <1>2, <2>1
    <2>4. ToSet(s \o q[j + 1]) = ToSet(s) \cup ToSet(q[j + 1]) /\ s \o q[j + 1] \in Seq(X)
      BY <2>1, <2>2, ConcatHolds
    <2> DEFINE t == s \o q[j + 1]
               i == j + 1
    <2>5. t \in Seq(X) /\ ToSet(t) = Held(i) /\ i \in 0 .. n
      BY <1>1, <2>1, <2>2, <2>3, <2>4
    <2> HIDE DEF Held, n, t, i
    <2>6. t \in G[i]
      BY <2>5
    <2>7. QED BY <2>6 DEF t, i
  <1>5. FlattenSeq(q) \in G[n]
    <2>0. G \in [0 .. n -> SUBSET Seq(X)]
      OBVIOUS
    <2> HIDE DEF G
    <2>1. QED BY <2>0, <1>3, <1>4, FlattenInduction DEF n
  <1>6. ToSet(FlattenSeq(q)) = Held(n)
    BY <1>5
  <1>7. QED BY <1>1, <1>2, <1>6

\* Lists without repetitions and with nothing in common have none end to end.
LEMMA FlattenOnce ==
  ASSUME NEW X, NEW q \in Seq(Seq(X)),
         \A i \in 1 .. Len(q) : IsInjective(q[i]),
         \A i, j \in 1 .. Len(q) : i # j => ToSet(q[i]) \cap ToSet(q[j]) = {}
  PROVE  IsInjective(FlattenSeq(q))
  <1> DEFINE n == Len(q)
             Inside(s, j) == \A x \in ToSet(s) : \E i \in 1 .. j : x \in ToSet(q[i])
             G == [j \in 0 .. n |-> {s \in Seq(X) : IsInjective(s) /\ Inside(s, j)}]
  <1>1. n \in Nat /\ \A i \in 1 .. n : q[i] \in Seq(X)
    OBVIOUS
  <1>2. << >> \in G[0]
    <2>1. ToSet(<< >>) = {} /\ << >> \in Seq(X) /\ IsInjective(<< >>)
      BY DEF ToSet, IsInjective
    <2>2. Inside(<< >>, 0)
      BY <2>1
    <2> HIDE DEF Inside, n
    <2>3. QED BY <1>1, <2>1, <2>2
  <1>3. ASSUME NEW j \in 0 .. n - 1, NEW s \in G[j]
        PROVE  s \o q[j + 1] \in G[j + 1]
    <2>1. /\ j + 1 \in 1 .. n /\ 1 .. j + 1 = (1 .. j) \cup {j + 1} /\ q[j + 1] \in Seq(X)
          /\ \A i \in 1 .. j : i \in 1 .. n /\ i # j + 1
      BY <1>1
    <2>2. s \in Seq(X) /\ IsInjective(s) /\ Inside(s, j)
      OBVIOUS
    <2>3. ToSet(s \o q[j + 1]) = ToSet(s) \cup ToSet(q[j + 1]) /\ s \o q[j + 1] \in Seq(X)
      BY <2>1, <2>2, ConcatHolds
    <2>4. ToSet(s) \cap ToSet(q[j + 1]) = {}
      BY <2>1, <2>2
    <2>5. IsInjective(s \o q[j + 1])
      BY <2>1, <2>2, <2>4, ConcatOnce
    <2>6. Inside(s \o q[j + 1], j + 1)
      BY <2>1, <2>2, <2>3
    <2> DEFINE t == s \o q[j + 1]
               i == j + 1
    <2>7. t \in Seq(X) /\ IsInjective(t) /\ Inside(t, i) /\ i \in 0 .. n
      <3> HIDE DEF Inside
      <3>1. QED BY <1>1, <2>1, <2>3, <2>5, <2>6
    <2> HIDE DEF Inside, n, t, i
    <2>8. t \in G[i]
      BY <2>7
    <2>9. QED BY <2>8 DEF t, i
  <1>4. FlattenSeq(q) \in G[n]
    <2>0. G \in [0 .. n -> SUBSET Seq(X)]
      OBVIOUS
    <2> HIDE DEF G
    <2>1. QED BY <2>0, <1>2, <1>3, FlattenInduction DEF n
  <1>5. QED BY <1>4

\* Lists of one length.
LEMMA FlattenLength ==
  ASSUME NEW X, NEW q \in Seq(Seq(X)), NEW m \in Nat, \A i \in 1 .. Len(q) : Len(q[i]) = m
  PROVE  Len(FlattenSeq(q)) = Len(q) * m
  <1> DEFINE n == Len(q)
             G == [j \in 0 .. n |-> {s \in Seq(X) : Len(s) = j * m}]
  <1>1. n \in Nat /\ \A i \in 1 .. n : q[i] \in Seq(X)
    OBVIOUS
  <1>2. << >> \in G[0]
    <2>1. Len(<< >>) = 0 * m /\ << >> \in Seq(X)
      OBVIOUS
    <2> HIDE DEF n
    <2>2. QED BY <1>1, <2>1
  <1>3. ASSUME NEW j \in 0 .. n - 1, NEW s \in G[j]
        PROVE  s \o q[j + 1] \in G[j + 1]
    <2>1. j + 1 \in 1 .. n /\ q[j + 1] \in Seq(X) /\ Len(q[j + 1]) = m
      BY <1>1
    <2>2. s \in Seq(X) /\ Len(s) = j * m
      OBVIOUS
    <2>3. Len(s \o q[j + 1]) = Len(s) + m /\ s \o q[j + 1] \in Seq(X)
      <3> DEFINE r == q[j + 1]
      <3>1. r \in Seq(X) /\ Len(r) = m
        BY <2>1
      <3> HIDE DEF G, n, r
      <3>2. Len(s \o r) = Len(s) + m /\ s \o r \in Seq(X)
        <4>1. s \in Seq(X)
          BY <2>2
        <4>2. Len(s \o r) = Len(s) + Len(r) /\ s \o r \in Seq(X)
          BY ONLY <3>1, <4>1, ConcatProperties
        <4>3. QED BY ONLY <3>1, <4>2
      <3>3. QED BY <3>2 DEF r
    <2>4. (j + 1) * m = j * m + m
      BY <1>1
    <2> DEFINE t == s \o q[j + 1]
               i == j + 1
    <2>5. t \in Seq(X) /\ Len(t) = i * m /\ i \in 0 .. n
      BY <1>1, <2>1, <2>2, <2>3, <2>4
    <2> HIDE DEF n, t, i
    <2>6. t \in G[i]
      BY <2>5
    <2>7. QED BY <2>6 DEF t, i
  <1>4. FlattenSeq(q) \in G[n]
    <2>0. G \in [0 .. n -> SUBSET Seq(X)]
      OBVIOUS
    <2> HIDE DEF G
    <2>1. QED BY <2>0, <1>2, <1>3, FlattenInduction DEF n
  <1>5. QED BY <1>4

\* A list without repetitions is as long as it holds elements.
LEMMA OnceCounted ==
  ASSUME NEW X, NEW s \in Seq(X), IsInjective(s)
  PROVE  Len(s) = Cardinality(ToSet(s)) /\ IsFiniteSet(ToSet(s))
  <1>1. Len(s) \in Nat /\ DOMAIN s = 1 .. Len(s) /\ s \in [1 .. Len(s) -> X]
    OBVIOUS
  <1>2. s \in Surjection(1 .. Len(s), ToSet(s))
    BY <1>1 DEF Surjection, ToSet
  <1>3. s \in Injection(1 .. Len(s), ToSet(s))
    BY <1>1, <1>2 DEF Injection, Surjection
  <1>4. IsFiniteSet(1 .. Len(s)) /\ Cardinality(1 .. Len(s)) = Len(s)
    BY <1>1, FS_Interval
  <1>5. QED BY <1>2, <1>3, <1>4, FS_Surjection
==============================================================================

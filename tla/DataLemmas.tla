------------------------------ MODULE DataLemmas ------------------------------
(***************************************************************************)
(* Induction over numbers and finite sets, in the form of sets that are    *)
(* closed under a step, and what follows by it about definitions the       *)
(* models compute with: sums over finite sets, remainders, recursive       *)
(* functions on the numbers, and the ranks of Ranks.                       *)
(***************************************************************************)
EXTENDS Ranks, Integers, Sequences, TLAPS, FiniteSetTheorems, SequenceTheorems

-----------------------------------------------------------------------------
(* Induction. *)

\* A family of subsets of a finite set that has the empty one, and with each
\* subset those that have one element more, has the set itself.
LEMMA SubsetInduction ==
    ASSUME NEW S, IsFiniteSet(S), NEW C,
           {} \in C,
           \A T \in C : \A x \in S \ T : T \cup {x} \in C
    PROVE  S \in C
<1> DEFINE Bad == (SUBSET S) \ C
<1> SUFFICES ASSUME S \notin C PROVE FALSE
  OBVIOUS
<1>1. Bad \subseteq FiniteSubsetsOf(S) /\ Bad # {}
  BY FS_Subset DEF FiniteSubsetsOf
<1>2. \E T \in Bad : \A U \in Bad : ~ (<<U, T>> \in StrictSubsetOrdering(S))
  <2> HIDE DEF Bad
  <2>1. QED
    BY <1>1, FS_StrictSubsetOrderingWellFounded, WFMin
<1>3. PICK T \in Bad : \A U \in Bad : ~ (<<U, T>> \in StrictSubsetOrdering(S))
  BY <1>2
<1>4. PICK x : x \in T
  OBVIOUS
<1>5. T \ {x} \in C
  <2>1. T \ {x} \in SUBSET S /\ T \in SUBSET S /\ T \ {x} \subseteq T /\ T \ {x} # T
    BY <1>4
  <2>2. T \ {x} \notin Bad
    BY <1>3, <2>1 DEF StrictSubsetOrdering
  <2>3. QED
    BY <2>1, <2>2
<1>6. T = (T \ {x}) \cup {x} /\ x \in S \ (T \ {x})
  BY <1>4
<1>7. QED
  BY <1>3, <1>5, <1>6

\* A set of numbers that is not empty has a least element.
LEMMA LeastNat ==
    ASSUME NEW T, T \subseteq Nat, T # {}
    PROVE  \E x \in T : \A y \in T : x <= y
<1> DEFINE U == {0 .. x : x \in T}
<1>1. U \subseteq FiniteSubsetsOf(Nat) /\ U # {}
  <2>1. ASSUME NEW x \in T PROVE 0 .. x \in SUBSET Nat /\ IsFiniteSet(0 .. x)
    BY FS_Interval
  <2>2. QED
    BY <2>1 DEF FiniteSubsetsOf
<1>2. \E s \in U : \A r \in U : ~ (<<r, s>> \in StrictSubsetOrdering(Nat))
  <2> HIDE DEF U
  <2>1. QED
    BY <1>1, FS_StrictSubsetOrderingWellFounded, WFMin
<1>3. PICK x \in T : \A y \in T : ~ (<<0 .. y, 0 .. x>> \in StrictSubsetOrdering(Nat))
  BY <1>2
<1>4. ASSUME NEW y \in T, y < x PROVE FALSE
  <2>1. /\ 0 .. y \subseteq 0 .. x /\ x \in 0 .. x /\ x \notin 0 .. y
        /\ 0 .. y \in SUBSET Nat /\ 0 .. x \in SUBSET Nat
    BY <1>4
  <2>2. QED
    BY <1>3, <2>1 DEF StrictSubsetOrdering
<1>5. \A y \in T : x <= y
  BY <1>4
<1>6. QED
  BY <1>5

\* Induction over the numbers: up to n when the step holds below n.
LEMMA UpTo ==
    ASSUME NEW n \in Nat, NEW C, 0 \in C,
           \A k \in 0 .. n - 1 : k \in C => k + 1 \in C
    PROVE  0 .. n \subseteq C
<1> SUFFICES ASSUME (0 .. n) \ C # {} PROVE FALSE
  OBVIOUS
<1>1. PICK x \in (0 .. n) \ C : \A y \in (0 .. n) \ C : x <= y
  <2>1. (0 .. n) \ C \subseteq Nat
    OBVIOUS
  <2>2. QED
    BY <2>1, LeastNat
<1>2. x - 1 \in 0 .. n - 1 /\ x - 1 \in C
  BY <1>1
<1>3. QED
  BY <1>1, <1>2

\* Induction over all numbers.
LEMMA AllNat ==
    ASSUME NEW C, 0 \in C, \A n \in Nat : n \in C => n + 1 \in C
    PROVE  Nat \subseteq C
<1> SUFFICES ASSUME NEW n \in Nat PROVE n \in C
  OBVIOUS
<1>1. 0 .. n \subseteq C
  BY UpTo
<1>2. QED
  BY <1>1

-----------------------------------------------------------------------------
(* Sums.  The definition takes the elements in the order of CHOOSE. *)

FirstOf(T) == CHOOSE x \in T : TRUE

LEMMA FirstIsIn == ASSUME NEW T, T # {} PROVE FirstOf(T) \in T
BY DEF FirstOf

\* What SumFunctionOnSet looks up at S: a function on the subsets of S.
IsSum(it, f, S) ==
    it = [T \in SUBSET S |->
             IF T = {} THEN 0 ELSE f[FirstOf(T)] + it[T \ {FirstOf(T)}]]

LEMMA SumIsChosen ==
    ASSUME NEW f, NEW S
    PROVE  SumFunctionOnSet(f, S) = (CHOOSE it : IsSum(it, f, S))[S]
BY DEF SumFunctionOnSet, FoldFunctionOnSet, MapThenFoldSet, IsSum, FirstOf

\* There is such a function: the subsets of n elements follow from those of
\* fewer.
LEMMA SumExists ==
    ASSUME NEW f, NEW S, IsFiniteSet(S)
    PROVE  \E it : IsSum(it, f, S)
<1> DEFINE Below(n) == {T \in SUBSET S : Cardinality(T) <= n}
<1> DEFINE Value(it, T) == IF T = {} THEN 0 ELSE f[FirstOf(T)] + it[T \ {FirstOf(T)}]
<1> DEFINE C == {n \in Nat : \E it : it = [T \in Below(n) |-> Value(it, T)]}
<1>1. \A T \in SUBSET S : IsFiniteSet(T) /\ Cardinality(T) \in Nat
  BY FS_Subset, FS_CardinalityType
<1>2. ASSUME NEW T \in SUBSET S, T # {}
      PROVE  /\ T \ {FirstOf(T)} \in SUBSET S
             /\ Cardinality(T \ {FirstOf(T)}) = Cardinality(T) - 1
  BY <1>1, <1>2, FirstIsIn, FS_RemoveElement
<1>3. 0 \in C
  <2> DEFINE it == [T \in Below(0) |-> 0]
  <2>1. \A T \in Below(0) : T = {}
    BY <1>1, FS_EmptySet
  <2>2. it = [T \in Below(0) |-> Value(it, T)]
    BY <2>1
  <2>3. QED
    BY <2>2
<1>4. ASSUME NEW n \in Nat, n \in C PROVE n + 1 \in C
  <2>1. PICK it : it = [T \in Below(n) |-> Value(it, T)]
    BY <1>4
  <2> DEFINE next == [T \in Below(n + 1) |-> Value(it, T)]
  <2>2. \A T \in Below(n) : T \in Below(n + 1)
    BY <1>1
  <2>3. ASSUME NEW T \in Below(n) PROVE next[T] = it[T]
    <3>1. T \in Below(n + 1)
      BY <2>2
    <3>2. next[T] = Value(it, T)
      BY <3>1
    <3>3. it[T] = Value(it, T)
      BY <2>1
    <3>4. QED
      BY <3>2, <3>3
  <2>4. ASSUME NEW T \in Below(n + 1), T # {}
        PROVE  it[T \ {FirstOf(T)}] = next[T \ {FirstOf(T)}]
    <3>1. T \ {FirstOf(T)} \in Below(n)
      BY <1>1, <1>2, <2>4
    <3>2. QED
      BY <2>3, <3>1
  <2>5. \A T \in Below(n + 1) : Value(it, T) = Value(next, T)
    <3> HIDE DEF next, Below
    <3>1. QED
      BY <2>4
  <2>6. next = [T \in Below(n + 1) |-> Value(next, T)]
    BY <2>5
  <2> HIDE DEF next, Below, Value
  <2>7. QED
    BY <2>6
<1>5. Cardinality(S) \in C
  <2> HIDE DEF C
  <2>1. QED
    BY <1>1, <1>3, <1>4, AllNat
<1>6. Below(Cardinality(S)) = SUBSET S
  BY <1>1, FS_Subset
<1>7. QED
  BY <1>5, <1>6 DEF IsSum

LEMMA SumIsOne ==
    ASSUME NEW f, NEW S, IsFiniteSet(S)
    PROVE  \E it : IsSum(it, f, S) /\ SumFunctionOnSet(f, S) = it[S]
<1>1. \E it : IsSum(it, f, S)
  BY SumExists
<1>2. IsSum(CHOOSE it : IsSum(it, f, S), f, S)
  BY <1>1
<1>3. QED
  BY <1>2, SumIsChosen

\* Two of them agree wherever the summands do, whatever sets they are about.
LEMMA SumAgrees ==
    ASSUME NEW a, NEW f, NEW S, IsSum(a, f, S),
           NEW b, NEW g, NEW R, IsSum(b, g, R)
    PROVE  \A T : /\ IsFiniteSet(T) /\ T \subseteq S /\ T \subseteq R
                 /\ (\A x \in T : f[x] = g[x])
                 => a[T] = b[T]
<1> SUFFICES ASSUME NEW T, IsFiniteSet(T), T \subseteq S, T \subseteq R,
                    \A x \in T : f[x] = g[x]
             PROVE  a[T] = b[T]
  OBVIOUS
<1> DEFINE Bad == {U \in SUBSET T : a[U] # b[U]}
<1> SUFFICES ASSUME Bad # {} PROVE FALSE
  OBVIOUS
<1>1. Bad \subseteq FiniteSubsetsOf(T)
  BY FS_Subset DEF FiniteSubsetsOf
<1>2. PICK U \in Bad : \A V \in Bad : ~ (<<V, U>> \in StrictSubsetOrdering(T))
  <2> HIDE DEF Bad
  <2>1. \E U \in Bad : \A V \in Bad : ~ (<<V, U>> \in StrictSubsetOrdering(T))
    BY <1>1, FS_StrictSubsetOrderingWellFounded, WFMin
  <2>2. QED
    BY <2>1
<1>3. U \in SUBSET S /\ U \in SUBSET R
  OBVIOUS
<1>4. CASE U = {}
  BY <1>3, <1>4 DEF IsSum
<1>5. CASE U # {}
  <2> DEFINE x == FirstOf(U)
  <2>1. x \in U
    BY <1>5, FirstIsIn
  <2>2. a[U \ {x}] = b[U \ {x}]
    <3>1. /\ U \ {x} \in SUBSET T /\ U \in SUBSET T
          /\ U \ {x} \subseteq U /\ U \ {x} # U
      BY <2>1
    <3>2. U \ {x} \notin Bad
      BY <1>2, <3>1 DEF StrictSubsetOrdering
    <3>3. QED
      BY <3>1, <3>2
  <2>3. a[U] = f[x] + a[U \ {x}] /\ b[U] = g[x] + b[U \ {x}]
    BY <1>3, <1>5 DEF IsSum
  <2>4. f[x] = g[x]
    BY <2>1
  <2>5. QED
    BY <2>2, <2>3, <2>4
<1>6. QED
  BY <1>4, <1>5

\* Sums of the same numbers are the same.
LEMMA SumEqual ==
    ASSUME NEW S, IsFiniteSet(S), NEW f, NEW g, \A x \in S : f[x] = g[x]
    PROVE  SumFunctionOnSet(f, S) = SumFunctionOnSet(g, S)
<1>1. PICK a : IsSum(a, f, S) /\ SumFunctionOnSet(f, S) = a[S]
  BY SumIsOne
<1>2. PICK b : IsSum(b, g, S) /\ SumFunctionOnSet(g, S) = b[S]
  BY SumIsOne
<1>3. S \subseteq S
  OBVIOUS
<1>4. \A T : /\ IsFiniteSet(T) /\ T \subseteq S /\ T \subseteq S
            /\ (\A x \in T : f[x] = g[x])
            => a[T] = b[T]
  BY <1>1, <1>2, SumAgrees
<1>5. QED
  BY <1>1, <1>2, <1>3, <1>4

LEMMA SumEmpty == ASSUME NEW f PROVE SumFunctionOnSet(f, {}) = 0
<1>1. PICK a : IsSum(a, f, {}) /\ SumFunctionOnSet(f, {}) = a[{}]
  BY SumIsOne, FS_EmptySet
<1>2. QED
  BY <1>1 DEF IsSum

\* A sum with its first element taken off.
LEMMA SumStep ==
    ASSUME NEW f, NEW S, IsFiniteSet(S), S # {}
    PROVE  SumFunctionOnSet(f, S) = f[FirstOf(S)] + SumFunctionOnSet(f, S \ {FirstOf(S)})
<1> DEFINE R == S \ {FirstOf(S)}
<1>1. PICK a : IsSum(a, f, S) /\ SumFunctionOnSet(f, S) = a[S]
  BY SumIsOne
<1>2. IsFiniteSet(R)
  BY FS_RemoveElement
<1>3. PICK b : IsSum(b, f, R) /\ SumFunctionOnSet(f, R) = b[R]
  BY <1>2, SumIsOne
<1>4. R \subseteq S /\ R \subseteq R /\ \A x \in R : f[x] = f[x]
  OBVIOUS
<1>5. a[R] = b[R]
  <2> HIDE DEF R
  <2>1. QED
    <3>1. \A T : /\ IsFiniteSet(T) /\ T \subseteq S /\ T \subseteq R
                /\ (\A x \in T : f[x] = f[x])
                => a[T] = b[T]
      BY <1>1, <1>3, SumAgrees
    <3>2. QED
      BY <1>2, <1>4, <3>1
<1>6. a[S] = f[FirstOf(S)] + a[R]
  BY <1>1 DEF IsSum
<1>7. QED
  BY <1>1, <1>3, <1>5, <1>6

\* The sum does not depend on the order: any element may be taken off first.
LEMMA SumRemove ==
    ASSUME NEW S, IsFiniteSet(S), NEW f, \A x \in S : f[x] \in Int
    PROVE  /\ SumFunctionOnSet(f, S) \in Int
           /\ \A y \in S : SumFunctionOnSet(f, S) = f[y] + SumFunctionOnSet(f, S \ {y})
<1> DEFINE Sum(T) == SumFunctionOnSet(f, T)
<1> DEFINE Good(T) == Sum(T) \in Int /\ \A y \in T : Sum(T) = f[y] + Sum(T \ {y})
<1> DEFINE Bad == {T \in SUBSET S : ~Good(T)}
<1> SUFFICES ASSUME Bad # {} PROVE FALSE
  OBVIOUS
<1>1. Bad \subseteq FiniteSubsetsOf(S)
  BY FS_Subset DEF FiniteSubsetsOf
<1>2. PICK T \in Bad : \A U \in Bad : ~ (<<U, T>> \in StrictSubsetOrdering(S))
  <2> HIDE DEF Bad
  <2>1. \E T \in Bad : \A U \in Bad : ~ (<<U, T>> \in StrictSubsetOrdering(S))
    BY <1>1, FS_StrictSubsetOrderingWellFounded, WFMin
  <2>2. QED
    BY <2>1
<1>3. IsFiniteSet(T) /\ T \in SUBSET S
  BY FS_Subset
<1>4. ASSUME NEW x \in T PROVE Good(T \ {x})
  <2>1. T \ {x} \in SUBSET S /\ T \ {x} \subseteq T /\ T \ {x} # T
    BY <1>3
  <2>2. T \ {x} \notin Bad
    BY <1>2, <1>3, <2>1 DEF StrictSubsetOrdering
  <2>3. QED
    BY <2>1, <2>2
<1>5. CASE T = {}
  <2>1. Sum({}) = 0
    BY SumEmpty
  <2>2. Good({})
    BY <2>1
  <2>3. QED
    BY <1>5, <2>2
<1>6. CASE T # {}
  <2> DEFINE x == FirstOf(T)
  <2>1. x \in T
    BY <1>6, FirstIsIn
  <2>2. Sum(T) = f[x] + Sum(T \ {x})
    BY <1>3, <1>6, SumStep
  <2> HIDE DEF x
  <2>3. ASSUME NEW y \in T, y # x PROVE Sum(T) = f[y] + Sum(T \ {y})
    <3>1. (T \ {x}) \ {y} = (T \ {y}) \ {x}
      OBVIOUS
    <3>2. Sum(T \ {x}) = f[y] + Sum((T \ {x}) \ {y})
      BY <1>4, <2>1, <2>3
    <3>3. Sum(T \ {y}) = f[x] + Sum((T \ {y}) \ {x})
      BY <1>4, <2>1, <2>3
    <3>4. Good((T \ {x}) \ {y})
      <4>1. (T \ {x}) \ {y} \in SUBSET S /\ (T \ {x}) \ {y} \subseteq T /\ (T \ {x}) \ {y} # T
        BY <1>3, <2>1
      <4>2. (T \ {x}) \ {y} \notin Bad
        BY <1>2, <1>3, <4>1 DEF StrictSubsetOrdering
      <4>3. QED
        BY <4>1, <4>2
    <3> DEFINE rest == Sum((T \ {x}) \ {y})
    <3>5. rest \in Int /\ f[x] \in Int /\ f[y] \in Int
      BY <1>3, <2>1, <3>4
    <3>6. Sum(T) = f[x] + (f[y] + rest) /\ Sum(T \ {y}) = f[x] + rest
      BY <2>2, <3>1, <3>2, <3>3
    <3> HIDE DEF rest
    <3>7. f[x] + (f[y] + rest) = f[y] + (f[x] + rest)
      BY <3>5
    <3>8. QED
      BY <3>6, <3>7
  <2>4. Sum(T) \in Int
    BY <1>3, <1>4, <2>1, <2>2
  <2>5. QED
    BY <2>2, <2>3, <2>4
<1>7. QED
  BY <1>5, <1>6

\* The sum with one element more.
LEMMA SumAdd ==
    ASSUME NEW S, IsFiniteSet(S), NEW x, x \notin S, NEW f,
           \A y \in S \cup {x} : f[y] \in Int
    PROVE  SumFunctionOnSet(f, S \cup {x}) = f[x] + SumFunctionOnSet(f, S)
<1>1. IsFiniteSet(S \cup {x}) /\ (S \cup {x}) \ {x} = S
  BY FS_AddElement
<1>2. SumFunctionOnSet(f, S \cup {x}) = f[x] + SumFunctionOnSet(f, (S \cup {x}) \ {x})
  BY <1>1, SumRemove
<1>3. QED
  BY <1>1, <1>2

\* The sum of multiples is the multiple of the sum.
LEMMA SumTimes ==
    ASSUME NEW S, IsFiniteSet(S), NEW f, NEW g, NEW c \in Int,
           \A x \in S : f[x] \in Int /\ g[x] = c * f[x]
    PROVE  SumFunctionOnSet(g, S) = c * SumFunctionOnSet(f, S)
<1> DEFINE C == {T \in SUBSET S : SumFunctionOnSet(g, T) = c * SumFunctionOnSet(f, T)}
<1>1. {} \in C
  <2>1. SumFunctionOnSet(f, {}) = 0 /\ SumFunctionOnSet(g, {}) = 0
    BY SumEmpty
  <2>2. c * 0 = 0
    OBVIOUS
  <2>3. QED
    BY <2>1, <2>2
<1>2. ASSUME NEW T \in C, NEW x \in S \ T PROVE T \cup {x} \in C
  <2> DEFINE F == SumFunctionOnSet(f, T)
             G == SumFunctionOnSet(g, T)
  <2>1. IsFiniteSet(T)
    BY FS_Subset
  <2>2. \A y \in T \cup {x} : f[y] \in Int /\ g[y] \in Int
    OBVIOUS
  <2>3. /\ SumFunctionOnSet(f, T \cup {x}) = f[x] + F
        /\ SumFunctionOnSet(g, T \cup {x}) = g[x] + G
    BY <2>1, <2>2, SumAdd
  <2>4. F \in Int /\ G = c * F /\ f[x] \in Int /\ g[x] = c * f[x]
    BY <2>1, <2>2, SumRemove
  <2>5. c * f[x] + c * F = c * (f[x] + F)
    BY <2>4
  <2>6. QED
    BY <2>3, <2>4, <2>5
<1>3. S \in C
  <2> HIDE DEF C
  <2>1. QED
    BY <1>1, <1>2, SubsetInduction
<1>4. QED
  BY <1>3

\* A sum of zeros.
LEMMA SumZero ==
    ASSUME NEW S, IsFiniteSet(S), NEW f, \A x \in S : f[x] = 0
    PROVE  SumFunctionOnSet(f, S) = 0
<1> DEFINE zero == [x \in S |-> 0]
<1>1. SumFunctionOnSet(f, S) = SumFunctionOnSet(zero, S)
  BY SumEqual
<1>2. SumFunctionOnSet(zero, S) = 0 * SumFunctionOnSet(zero, S)
  BY SumTimes
<1>3. SumFunctionOnSet(zero, S) \in Int
  BY SumRemove
<1>4. QED
  BY <1>1, <1>2, <1>3

\* A sum of which all but one are zeros.
LEMMA SumSingle ==
    ASSUME NEW S, IsFiniteSet(S), NEW f, NEW y \in S, f[y] \in Int,
           \A x \in S \ {y} : f[x] = 0
    PROVE  SumFunctionOnSet(f, S) = f[y]
<1>1. IsFiniteSet(S \ {y})
  BY FS_RemoveElement
<1>2. SumFunctionOnSet(f, S \ {y}) = 0
  BY <1>1, SumZero
<1>3. \A x \in S : f[x] \in Int
  OBVIOUS
<1>4. SumFunctionOnSet(f, S) = f[y] + SumFunctionOnSet(f, S \ {y})
  BY <1>3, SumRemove
<1>5. QED
  BY <1>2, <1>4

\* The sum of sums.
LEMMA SumPlus ==
    ASSUME NEW S, IsFiniteSet(S), NEW f, NEW g, NEW h,
           \A x \in S : f[x] \in Int /\ g[x] \in Int /\ h[x] = f[x] + g[x]
    PROVE  SumFunctionOnSet(h, S) = SumFunctionOnSet(f, S) + SumFunctionOnSet(g, S)
<1> DEFINE C == {T \in SUBSET S : SumFunctionOnSet(h, T) =
                                    SumFunctionOnSet(f, T) + SumFunctionOnSet(g, T)}
<1>1. {} \in C
  BY SumEmpty
<1>2. ASSUME NEW T \in C, NEW x \in S \ T PROVE T \cup {x} \in C
  <2>1. IsFiniteSet(T)
    BY FS_Subset
  <2>2. \A y \in T \cup {x} : f[y] \in Int /\ g[y] \in Int /\ h[y] \in Int
    OBVIOUS
  <2>3. /\ SumFunctionOnSet(f, T \cup {x}) = f[x] + SumFunctionOnSet(f, T)
        /\ SumFunctionOnSet(g, T \cup {x}) = g[x] + SumFunctionOnSet(g, T)
        /\ SumFunctionOnSet(h, T \cup {x}) = h[x] + SumFunctionOnSet(h, T)
    BY <2>1, <2>2, SumAdd
  <2>4. SumFunctionOnSet(f, T) \in Int /\ SumFunctionOnSet(g, T) \in Int
    BY <2>1, <2>2, SumRemove
  <2>5. QED
    BY <2>2, <2>3, <2>4
<1>3. S \in C
  <2> HIDE DEF C
  <2>1. QED
    BY <1>1, <1>2, SubsetInduction
<1>4. QED
  BY <1>3

-----------------------------------------------------------------------------
(* Remainders: what the arithmetic modulo a number computes with. *)

\* The number is a multiple of the divisor and the remainder.
LEMMA DivisionIs ==
    ASSUME NEW m \in Nat, m > 0, NEW x \in Int
    PROVE  /\ x % m \in 0 .. m - 1
           /\ \E q \in Int : x = m * q + (x % m)
<1>1. x % m \in 0 .. m - 1
  OBVIOUS
<1>2. ASSUME NEW q \in Int, q = x \div m PROVE x = m * q + (x % m)
  <2>1. x - m * q = x % m
    BY <1>2
  <2>2. m * q \in Int
    OBVIOUS
  <2>3. QED
    BY <2>1, <2>2
<1>3. x \div m \in Int
  OBVIOUS
<1>4. QED
  BY <1>1, <1>2, <1>3

LEMMA MultipleIsFar ==
    ASSUME NEW m \in Nat, m > 0, NEW d \in Int, d # 0
    PROVE  m * d >= m \/ m * d <= -m
<1>1. CASE d >= 1
  <2>1. m * d = m + m * (d - 1) /\ m * (d - 1) >= 0
    BY <1>1
  <2>2. QED
    BY <2>1
<1>2. CASE d <= -1
  <2>1. m * d = -m - m * (-d - 1) /\ m * (-d - 1) >= 0
    BY <1>2
  <2>2. QED
    BY <2>1
<1>3. QED
  BY <1>1, <1>2

\* There is only one such remainder.
LEMMA RemainderIs ==
    ASSUME NEW m \in Nat, m > 0, NEW x \in Int, NEW q \in Int, NEW r \in 0 .. m - 1,
           x = m * q + r
    PROVE  x % m = r
<1>1. PICK p \in Int : x = m * p + (x % m)
  BY DivisionIs
<1>2. x % m \in 0 .. m - 1
  BY DivisionIs
<1> DEFINE s == x % m
<1>3. m * (q - p) = s - r
  <2>1. m * q + r = m * p + s
    BY <1>1
  <2>2. s \in Int /\ r \in Int
    BY <1>2
  <2> HIDE DEF s
  <2>3. m * (q - p) = m * q - m * p
    OBVIOUS
  <2>4. m * q \in Int /\ m * p \in Int
    OBVIOUS
  <2>5. QED
    BY <2>1, <2>2, <2>3, <2>4
<1>4. q = p
  <2> SUFFICES ASSUME q - p # 0 PROVE FALSE
    OBVIOUS
  <2>1. m * (q - p) >= m \/ m * (q - p) <= -m
    BY MultipleIsFar
  <2>2. QED
    BY <1>2, <1>3, <2>1
<1>5. m * p \in Int /\ s \in Int
  BY <1>2
<1>6. QED
  BY <1>1, <1>4, <1>5

\* Remainders of remainders, as the laws of a ring need them.
LEMMA RemainderPlus ==
    ASSUME NEW m \in Nat, m > 0, NEW x \in Int, NEW y \in Int
    PROVE  ((x % m) + y) % m = (x + y) % m
<1> DEFINE r == x % m
<1>1. PICK q \in Int : x = m * q + r
  BY DivisionIs
<1>2. r \in Int
  OBVIOUS
<1> DEFINE s == (r + y) % m
<1>3. r + y \in Int
  BY <1>2
<1>4. s \in 0 .. m - 1 /\ \E p \in Int : r + y = m * p + s
  BY <1>3, DivisionIs
<1>5. PICK p \in Int : r + y = m * p + s
  BY <1>4
<1> HIDE DEF r, s
<1>6. x + y = m * (q + p) + s
  <2>1. m * (q + p) = m * q + m * p
    OBVIOUS
  <2>2. m * q \in Int /\ m * p \in Int /\ s \in Int
    BY <1>4
  <2>3. QED
    BY <1>1, <1>2, <1>5, <2>1, <2>2
<1>7. q + p \in Int /\ x + y \in Int
  OBVIOUS
<1>8. (x + y) % m = s
  BY <1>4, <1>6, <1>7, RemainderIs
<1>9. QED
  BY <1>8 DEF s, r

LEMMA RemainderTimes ==
    ASSUME NEW m \in Nat, m > 0, NEW x \in Int, NEW y \in Int
    PROVE  ((x % m) * y) % m = (x * y) % m
<1> DEFINE r == x % m
<1>1. PICK q \in Int : x = m * q + r
  BY DivisionIs
<1>2. r \in Int
  OBVIOUS
<1> DEFINE s == (r * y) % m
<1>3. r * y \in Int
  BY <1>2
<1>4. s \in 0 .. m - 1 /\ \E p \in Int : r * y = m * p + s
  BY <1>3, DivisionIs
<1>5. PICK p \in Int : r * y = m * p + s
  BY <1>4
<1> HIDE DEF r, s
<1>6. x * y = m * (q * y + p) + s
  <2>1. x * y = (m * q) * y + r * y
    BY <1>1, <1>2
  <2>2. (m * q) * y = m * (q * y)
    OBVIOUS
  <2>3. q * y \in Int /\ s \in Int
    BY <1>4
  <2>4. m * (q * y + p) = m * (q * y) + m * p
    BY <2>3
  <2>5. m * (q * y) \in Int /\ m * p \in Int
    BY <2>3
  <2>6. QED
    BY <1>5, <2>1, <2>2, <2>3, <2>4, <2>5
<1>7. q * y + p \in Int /\ x * y \in Int
  OBVIOUS
<1>8. (x * y) % m = s
  BY <1>4, <1>6, <1>7, RemainderIs
<1>9. QED
  BY <1>8 DEF s, r

LEMMA RemainderSmall ==
    ASSUME NEW m \in Nat, m > 0, NEW x \in 0 .. m - 1
    PROVE  x % m = x
OBVIOUS

LEMMA RemainderProduct ==
    ASSUME NEW m \in Nat, m > 0, NEW x \in Int, NEW y \in Int
    PROVE  (x * (y % m)) % m = (x * y) % m
<1>1. y % m \in Int
  OBVIOUS
<1>2. x * (y % m) = (y % m) * x /\ x * y = y * x
  BY <1>1
<1>3. QED
  BY <1>2, RemainderTimes

LEMMA RemainderSum ==
    ASSUME NEW m \in Nat, m > 0, NEW x \in Int, NEW y \in Int
    PROVE  /\ (x + (y % m)) % m = (x + y) % m
           /\ ((x % m) + (y % m)) % m = (x + y) % m
<1>1. x % m \in Int /\ y % m \in Int
  OBVIOUS
<1>2. ASSUME NEW z \in Int PROVE (z + (y % m)) % m = (z + y) % m
  <2>1. z + (y % m) = (y % m) + z /\ z + y = y + z
    BY <1>1
  <2>2. QED
    BY <2>1, RemainderPlus
<1>3. ((x % m) + (y % m)) % m = ((x % m) + y) % m
  BY <1>1, <1>2
<1>4. QED
  BY <1>2, <1>3, RemainderPlus

LEMMA RemainderMinus ==
    ASSUME NEW m \in Nat, m > 0, NEW x \in Int, NEW y \in Int
    PROVE  ((x % m) - (y % m)) % m = (x - y) % m
<1>1. ASSUME NEW c \in Int, c = -1, NEW z \in Int, z = -y
      PROVE  ((x % m) - (y % m)) % m = (x - y) % m
  <2> DEFINE r == x % m
             s == y % m
  <2>1. r \in Int /\ s \in Int /\ s * c \in Int
    OBVIOUS
  <2>2. (s * c) % m = (y * c) % m
    BY RemainderTimes
  <2>3. y * c = z /\ x - y = x + z
    BY <1>1
  <2>4. (x + z) % m = (r + (z % m)) % m
    BY RemainderSum
  <2> HIDE DEF r, s
  <2>5. (r + (s * c)) % m = (r + ((s * c) % m)) % m
    BY <2>1, RemainderSum
  <2>6. r + (s * c) = r - s
    BY <1>1, <2>1
  <2>7. (r - s) % m = (x - y) % m
    BY <2>2, <2>3, <2>4, <2>5, <2>6
  <2>8. QED
    BY <2>7 DEF r, s
<1>2. QED
  BY <1>1

-----------------------------------------------------------------------------
(* Functions that are defined by recursion on the numbers. *)

\* What the recursive definition says of f.
RecursionFrom(f, a, step) ==
    f = [n \in Nat |-> IF n = 0 THEN a ELSE step[f[n - 1]]]

\* There is one.
LEMMA RecursionExists ==
    ASSUME NEW S, NEW a \in S, NEW step \in [S -> S]
    PROVE  \E f : RecursionFrom(f, a, step)
<1> DEFINE Part(f, n) == /\ f \in [0 .. n -> S]
                         /\ f[0] = a
                         /\ \A k \in 1 .. n : f[k] = step[f[k - 1]]
<1> DEFINE C == {n \in Nat : \E f : Part(f, n)}
<1>1. 0 \in C
  <2>1. Part([k \in 0 .. 0 |-> a], 0)
    OBVIOUS
  <2>2. QED
    BY <2>1
<1>2. ASSUME NEW n \in Nat, n \in C PROVE n + 1 \in C
  <2>1. PICK f : Part(f, n)
    BY <1>2
  <2> DEFINE g == [k \in 0 .. n + 1 |-> IF k = n + 1 THEN step[f[n]] ELSE f[k]]
  <2>2. g \in [0 .. n + 1 -> S]
    <3>1. step[f[n]] \in S
      BY <2>1
    <3>2. QED
      BY <2>1, <3>1
  <2>3. g[0] = a
    BY <2>1
  <2>4. ASSUME NEW k \in 1 .. n + 1 PROVE g[k] = step[g[k - 1]]
    <3>1. k - 1 \in 0 .. n + 1 /\ k - 1 # n + 1 /\ g[k - 1] = f[k - 1]
      OBVIOUS
    <3>2. CASE k = n + 1
      BY <3>1, <3>2
    <3>3. CASE k # n + 1
      <4>1. k \in 1 .. n
        BY <3>3
      <4>2. QED
        BY <2>1, <3>1, <3>3, <4>1
    <3>4. QED
      BY <3>2, <3>3
  <2>5. QED
    BY <2>2, <2>3, <2>4
<1>3. Nat \subseteq C
  <2> HIDE DEF C
  <2>1. QED
    BY <1>1, <1>2, AllNat
<1>4. ASSUME NEW n \in Nat, NEW f, Part(f, n), NEW l \in Nat, NEW g, Part(g, l), n <= l
      PROVE  f[n] = g[n]
  <2> DEFINE D == {k \in 0 .. n : f[k] = g[k]}
  <2>1. 0 \in D
    BY <1>4
  <2>2. ASSUME NEW k \in 0 .. n - 1, k \in D PROVE k + 1 \in D
    <3>1. k + 1 \in 1 .. n /\ k + 1 \in 1 .. l /\ k + 1 \in 0 .. n /\ (k + 1) - 1 = k
      BY <1>4
    <3>2. f[k + 1] = step[f[(k + 1) - 1]] /\ g[k + 1] = step[g[(k + 1) - 1]]
      BY <1>4, <3>1
    <3>3. QED
      BY <2>2, <3>1, <3>2
  <2>3. 0 .. n \subseteq D
    <3> HIDE DEF D
    <3>1. QED
      BY <2>1, <2>2, UpTo
  <2>4. QED
    BY <2>3
<1> DEFINE part(n) == CHOOSE f : Part(f, n)
<1>5. \A n \in Nat : Part(part(n), n)
  <2> HIDE DEF Part
  <2>1. QED
    BY <1>3
<1> DEFINE g == [n \in Nat |-> part(n)[n]]
<1>6. ASSUME NEW n \in Nat PROVE g[n] = IF n = 0 THEN a ELSE step[g[n - 1]]
  <2> HIDE DEF part
  <2>1. CASE n = 0
    BY <1>5, <2>1
  <2>2. CASE n # 0
    <3>1. n - 1 \in Nat /\ n \in 1 .. n /\ n - 1 <= n
      BY <2>2
    <3>2. part(n)[n] = step[part(n)[n - 1]]
      BY <1>5, <3>1
    <3>3. part(n - 1)[n - 1] = part(n)[n - 1]
      <4> HIDE DEF Part
      <4>1. QED
        BY <1>4, <1>5, <3>1
    <3>4. QED
      BY <2>2, <3>1, <3>2, <3>3
  <2>3. QED
    BY <2>1, <2>2
<1>7. g = [n \in Nat |-> IF n = 0 THEN a ELSE step[g[n - 1]]]
  <2> HIDE DEF part
  <2>1. g = [n \in Nat |-> g[n]]
    OBVIOUS
  <2> HIDE DEF g
  <2>2. QED
    BY <1>6, <2>1
<1>8. QED
  <2> HIDE DEF g
  <2>1. QED
    BY <1>7 DEF RecursionFrom

\* It takes its values where its steps lead.
LEMMA RecursionStays ==
    ASSUME NEW S, NEW a \in S, NEW step \in [S -> S], NEW f, RecursionFrom(f, a, step)
    PROVE  f \in [Nat -> S]
<1> DEFINE C == {n \in Nat : f[n] \in S}
<1>1. 0 \in C
  BY DEF RecursionFrom
<1>2. ASSUME NEW n \in Nat, n \in C PROVE n + 1 \in C
  <2>1. n + 1 \in Nat /\ n + 1 # 0 /\ (n + 1) - 1 = n
    OBVIOUS
  <2>2. f[n + 1] = step[f[n]]
    BY <2>1 DEF RecursionFrom
  <2>3. QED
    BY <1>2, <2>1, <2>2
<1>3. Nat \subseteq C
  <2> HIDE DEF C
  <2>1. QED
    BY <1>1, <1>2, AllNat
<1>4. QED
  BY <1>3 DEF RecursionFrom

-----------------------------------------------------------------------------
(* Ranks: what InOrder is, each element of the set once, at the place of its rank. *)

\* A later element has a higher rank.
LEMMA RankGrows ==
    ASSUME NEW S \in SUBSET Nat, IsFiniteSet(S), NEW j \in S, NEW k \in S, j < k
    PROVE  Rank(S, j) < Rank(S, k)
<1> DEFINE upto(n) == {i \in S : i <= n}
<1>1. upto(j) \subseteq upto(k) /\ k \in upto(k) /\ k \notin upto(j)
  <2>1. j \in Nat /\ k \in Nat /\ \A i \in S : i \in Nat
    OBVIOUS
  <2>2. \A i \in S : i <= j => i <= k
    BY <2>1
  <2>3. upto(j) \subseteq upto(k)
    BY <2>2
  <2>4. j < k => ~(k <= j)
    BY <2>1
  <2>5. k \in upto(k) /\ k \notin upto(j)
    BY <2>1, <2>4
  <2>6. QED
    BY <2>3, <2>5
<1>2. IsFiniteSet(upto(k))
  BY FS_Subset
<1>3. Cardinality(upto(j)) <= Cardinality(upto(k))
      /\ Cardinality(upto(j)) # Cardinality(upto(k))
  BY <1>1, <1>2, FS_Subset
<1>4. Cardinality(upto(j)) \in Nat /\ Cardinality(upto(k)) \in Nat
  BY <1>1, <1>2, FS_Subset, FS_CardinalityType
<1>5. QED
  BY <1>3, <1>4 DEF Rank

\* Ranks are the numbers from 1 to the size of the set.
LEMMA RankRange ==
    ASSUME NEW S \in SUBSET Nat, IsFiniteSet(S)
    PROVE  /\ Cardinality(S) \in Nat
           /\ {Rank(S, k) : k \in S} = 1 .. Cardinality(S)
<1> DEFINE n == Cardinality(S)
<1> DEFINE rank == [k \in S |-> Rank(S, k)]
<1> DEFINE image == {Rank(S, k) : k \in S}
<1>1. n \in Nat
  BY FS_CardinalityType
<1>2. ASSUME NEW k \in S PROVE Rank(S, k) \in 1 .. n
  <2> DEFINE upto == {i \in S : i <= k}
  <2>1. upto \subseteq S /\ k \in upto
    OBVIOUS
  <2>2. IsFiniteSet(upto) /\ Cardinality(upto) <= n
    BY <2>1, FS_Subset
  <2>3. Cardinality(upto) \in Nat /\ Cardinality(upto) # 0
    BY <2>1, <2>2, FS_CardinalityType, FS_EmptySet
  <2>4. QED
    BY <1>1, <2>2, <2>3 DEF Rank
<1>3. \A j, k \in S : Rank(S, j) = Rank(S, k) => j = k
  <2> SUFFICES ASSUME NEW j \in S, NEW k \in S, Rank(S, j) = Rank(S, k), j # k
               PROVE  FALSE
    OBVIOUS
  <2>1. Rank(S, j) \in Nat /\ Rank(S, k) \in Nat /\ (j < k \/ k < j)
    BY <1>1, <1>2
  <2>2. QED
    BY <2>1, RankGrows
<1>4. rank \in Surjection(S, image) /\ rank \in Injection(S, image)
  BY <1>3 DEF Surjection, Injection, IsInjective
<1>5. Cardinality(image) = n
  BY <1>4, FS_Surjection
<1>6. image \subseteq 1 .. n
  BY <1>2
<1>7. IsFiniteSet(1 .. n) /\ Cardinality(1 .. n) = n
  BY <1>1, FS_Interval
<1>8. image = 1 .. n
  BY <1>5, <1>6, <1>7, FS_Subset
<1>9. QED
  BY <1>1, <1>8

LEMMA InOrderProperties ==
    ASSUME NEW S \in SUBSET Nat, IsFiniteSet(S)
    PROVE  /\ Cardinality(S) \in Nat
           /\ InOrder(S) \in [1 .. Cardinality(S) -> S]
           /\ \A k \in S : /\ Rank(S, k) \in 1 .. Cardinality(S)
                           /\ InOrder(S)[Rank(S, k)] = k
<1>1. Cardinality(S) \in Nat /\ {Rank(S, k) : k \in S} = 1 .. Cardinality(S)
  BY RankRange
<1>2. \A i \in 1 .. Cardinality(S) : \E k \in S : Rank(S, k) = i
  BY <1>1
<1>3. \A i \in 1 .. Cardinality(S) :
         InOrder(S)[i] \in S /\ Rank(S, InOrder(S)[i]) = i
  BY <1>2 DEF InOrder
<1>4. ASSUME NEW k \in S
      PROVE  /\ Rank(S, k) \in 1 .. Cardinality(S)
             /\ InOrder(S)[Rank(S, k)] = k
  <2> DEFINE l == InOrder(S)[Rank(S, k)]
  <2>1. Rank(S, k) \in 1 .. Cardinality(S)
    BY <1>1
  <2>2. l \in S /\ Rank(S, l) = Rank(S, k)
    BY <1>3, <2>1
  <2>3. Rank(S, k) \in Nat
    BY <1>1, <2>1
  <2>4. l = k
    <3> HIDE DEF l
    <3>1. l \in Nat /\ k \in Nat
      BY <2>2
    <3>2. l < k \/ k < l \/ l = k
      BY <3>1
    <3>3. QED
      BY <2>2, <2>3, <3>2, RankGrows
  <2>5. QED
    BY <2>1, <2>4
<1>5. QED
  BY <1>1, <1>3, <1>4 DEF InOrder

\* A sequence that takes the elements of S in ascending order is InOrder(S).
LEMMA InOrderIs ==
    ASSUME NEW S \in SUBSET Nat, NEW c \in Nat, NEW s \in [1 .. c -> S],
           \A x \in S : \E i \in 1 .. c : s[i] = x,
           \A i, j \in 1 .. c : i < j => s[i] < s[j]
    PROVE  s = InOrder(S)
<1>1. ASSUME NEW i \in 1 .. c, NEW j \in 1 .. c
      PROVE  s[j] <= s[i] <=> j <= i
  <2>1. s[i] \in Nat /\ s[j] \in Nat
    OBVIOUS
  <2>2. i < j \/ i = j \/ j < i
    OBVIOUS
  <2>3. QED
    BY <2>1, <2>2
<1>2. ASSUME NEW n \in 0 .. c
      PROVE  LET image == {s[i] : i \in 1 .. n}
             IN  IsFiniteSet(image) /\ Cardinality(image) = n
  <2> DEFINE image == {s[i] : i \in 1 .. n}
  <2> DEFINE t == [i \in 1 .. n |-> s[i]]
  <2>1. ASSUME NEW i \in 1 .. n, NEW j \in 1 .. n, t[i] = t[j] PROVE i = j
    <3>1. i \in 1 .. c /\ j \in 1 .. c /\ s[i] = s[j]
      BY <2>1
    <3>2. s[i] <= s[j] /\ s[j] <= s[i]
      <4>1. s[i] \in S /\ s[i] \in Nat
        BY <3>1
      <4>2. QED
        BY <3>1, <4>1
    <3>3. i <= j /\ j <= i
      BY <1>1, <3>1, <3>2
    <3>4. QED
      BY <3>3
  <2>2. t \in Surjection(1 .. n, image) /\ t \in Injection(1 .. n, image)
    BY <2>1 DEF Surjection, Injection, IsInjective
  <2>3. IsFiniteSet(1 .. n) /\ Cardinality(1 .. n) = n
    BY FS_Interval
  <2>4. QED
    BY <2>2, <2>3, FS_Surjection
<1>3. S = {s[i] : i \in 1 .. c}
  OBVIOUS
<1>4. IsFiniteSet(S) /\ Cardinality(S) = c
  <2>1. c \in 0 .. c
    OBVIOUS
  <2>2. QED
    BY <1>2, <1>3, <2>1
<1>5. ASSUME NEW i \in 1 .. c PROVE Rank(S, s[i]) = i
  <2>1. {x \in S : x <= s[i]} = {s[j] : j \in 1 .. i}
    BY <1>1, <1>3
  <2>2. i \in 0 .. c
    OBVIOUS
  <2>3. QED
    BY <1>2, <2>1, <2>2 DEF Rank
<1>6. ASSUME NEW i \in 1 .. c PROVE InOrder(S)[i] = s[i]
  <2>1. s[i] \in S /\ Rank(S, s[i]) = i
    BY <1>5
  <2>2. InOrder(S)[Rank(S, s[i])] = s[i]
    BY <1>4, <2>1, InOrderProperties
  <2>3. QED
    BY <2>1, <2>2
<1>7. InOrder(S) \in [1 .. c -> S]
  BY <1>4, InOrderProperties
<1>8. QED
  BY <1>6, <1>7

-----------------------------------------------------------------------------
(* Sequences put together. *)

LEMMA IsSequence ==
    ASSUME NEW S, NEW c \in Nat, NEW x \in [1 .. c -> S]
    PROVE  x \in Seq(S) /\ Len(x) = c
<1>1. x \in Seq(S)
  BY IsASeq
<1>2. QED
  BY <1>1, LenProperties

LEMMA ElementOf ==
    ASSUME NEW S, NEW s \in Seq(S), NEW k \in 1 .. Len(s)
    PROVE  s[k] \in S
BY LenProperties

LEMMA Concatenated ==
    ASSUME NEW S, NEW s \in Seq(S), NEW x \in Seq(S), NEW q, q = s \o x
    PROVE  /\ q \in Seq(S) /\ Len(s) \in Nat /\ Len(x) \in Nat
           /\ Len(q) = Len(s) + Len(x)
           /\ \A i \in 1 .. Len(s) : q[i] = s[i]
           /\ \A i \in 1 .. Len(x) : q[Len(s) + i] = x[i]
<1>1. Len(s) \in Nat /\ Len(x) \in Nat
  BY LenProperties
<1>2. q \in Seq(S) /\ Len(q) = Len(s) + Len(x)
  BY ConcatProperties
<1>3. \A i \in 1 .. Len(s) + Len(x) : q[i] = IF i <= Len(s) THEN s[i] ELSE x[i - Len(s)]
  BY ConcatProperties
<1>4. ASSUME NEW i \in 1 .. Len(s) PROVE q[i] = s[i]
  <2>1. i \in 1 .. Len(s) + Len(x) /\ i <= Len(s)
    BY <1>1
  <2>2. QED
    BY <1>3, <2>1
<1>5. ASSUME NEW i \in 1 .. Len(x) PROVE q[Len(s) + i] = x[i]
  <2>1. /\ Len(s) + i \in 1 .. Len(s) + Len(x) /\ ~(Len(s) + i <= Len(s))
        /\ Len(s) + i - Len(s) = i
    BY <1>1
  <2>2. QED
    BY <1>3, <2>1
<1>6. QED
  BY <1>1, <1>2, <1>4, <1>5

LEMMA Added ==
    ASSUME NEW S, NEW s \in Seq(S), NEW y \in S, NEW r, r = s \o <<y>>
    PROVE  /\ r \in Seq(S) /\ Len(r) = Len(s) + 1
           /\ \A i \in 1 .. Len(s) : r[i] = s[i]
           /\ r[Len(s) + 1] = y
<1>1. <<y>> \in Seq(S) /\ Len(<<y>>) = 1 /\ <<y>>[1] = y /\ Len(s) \in Nat
  BY LenProperties
<1>2. r \in Seq(S) /\ Len(r) = Len(s) + 1
  BY <1>1, ConcatProperties
<1>3. \A i \in 1 .. Len(s) + 1 :
         r[i] = IF i <= Len(s) THEN s[i] ELSE <<y>>[i - Len(s)]
  BY <1>1, ConcatProperties
<1>4. QED
  BY <1>1, <1>2, <1>3

\* r is s with x, c elements long, and y behind it.
Extension(r, s, c, x, y, S) ==
    /\ r \in Seq(S) /\ Len(r) = Len(s) + c + 1 /\ Len(s) \in Nat
    /\ \A i \in 1 .. Len(s) : r[i] = s[i]
    /\ \A i \in 1 .. c : r[Len(s) + i] = x[i]
    /\ r[Len(s) + c + 1] = y

LEMMA Extended ==
    ASSUME NEW S, NEW s \in Seq(S), NEW c \in Nat, NEW x \in [1 .. c -> S], NEW y \in S
    PROVE  Extension(s \o x \o <<y>>, s, c, x, y, S)
<1>1. x \in Seq(S) /\ Len(x) = c
  BY IsSequence
<1>2. x \in Seq(S)
  BY <1>1
<1> PICK q : q = s \o x
  OBVIOUS
<1>3. /\ q \in Seq(S) /\ Len(s) \in Nat /\ Len(q) = Len(s) + Len(x)
      /\ \A i \in 1 .. Len(s) : q[i] = s[i]
      /\ \A i \in 1 .. Len(x) : q[Len(s) + i] = x[i]
  BY <1>2, Concatenated
<1>4. q \in Seq(S)
  BY <1>3
<1> PICK r : r = q \o <<y>>
  OBVIOUS
<1>5. /\ r \in Seq(S) /\ Len(r) = Len(q) + 1
      /\ \A i \in 1 .. Len(q) : r[i] = q[i]
      /\ r[Len(q) + 1] = y
  BY <1>4, Added
<1>6. Len(q) = Len(s) + c
  BY <1>1, <1>3
<1>7. ASSUME NEW i \in 1 .. Len(s) PROVE r[i] = s[i]
  <2>1. i \in 1 .. Len(q)
    BY <1>3, <1>6
  <2>2. QED
    BY <1>3, <1>5, <2>1
<1>8. ASSUME NEW i \in 1 .. c PROVE r[Len(s) + i] = x[i]
  <2>1. Len(s) + i \in 1 .. Len(q) /\ i \in 1 .. Len(x)
    BY <1>1, <1>3, <1>6
  <2>2. QED
    BY <1>3, <1>5, <2>1
<1>9. Len(r) = Len(s) + c + 1 /\ r[Len(s) + c + 1] = y
  BY <1>3, <1>5, <1>6
<1>10. Extension(r, s, c, x, y, S)
  BY <1>3, <1>5, <1>7, <1>8, <1>9 DEF Extension
<1>11. QED
  BY <1>10

LEMMA Appended ==
    ASSUME NEW S, NEW s \in Seq(S), NEW c, NEW r, r = Append(s, c)
    PROVE  /\ r \in Seq(S \cup {c})
           /\ Len(s) \in Nat /\ DOMAIN s = 1 .. Len(s)
           /\ Len(r) = Len(s) + 1 /\ DOMAIN r = 1 .. Len(s) + 1
           /\ r[Len(s) + 1] = c
           /\ \A k \in 1 .. Len(s) : r[k] = s[k]
<1>1. s \in Seq(S \cup {c}) /\ Len(s) \in Nat /\ DOMAIN s = 1 .. Len(s)
  BY SeqMonotonic, LenProperties
<1>2. /\ r \in Seq(S \cup {c}) /\ Len(r) = Len(s) + 1
      /\ r[Len(s) + 1] = c
      /\ \A k \in 1 .. Len(s) : r[k] = s[k]
  BY <1>1, AppendProperties
<1>3. DOMAIN r = 1 .. Len(s) + 1
  BY <1>2, LenProperties
<1>4. QED
  BY <1>1, <1>2, <1>3
=============================================================================

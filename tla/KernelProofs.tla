---------------------------- MODULE KernelProofs ----------------------------
(***************************************************************************)
(* Theorems about the kernels for tensors of every shape: the offsets that *)
(* broadcasting reads and adds up, what elementwise, unary, softmax,       *)
(* matmul, sum and mean calls return, what they leave in the gradients.    *)
(***************************************************************************)
EXTENDS Kernels, DataLemmas


-----------------------------------------------------------------------------
(* Sums and products over a shape. *)

LEMMA SumsAre ==
    ASSUME NEW f
    PROVE  FoldSeq(+, 0, f) = SumFunctionOnSet(f, DOMAIN f)
BY DEF FoldSeq, FoldFunction, SumFunctionOnSet, FoldFunctionOnSet, MapThenFoldSet

\* What Numel looks up at the axes of a shape: a function on sets of axes.
IsProduct(it, f, S) ==
    it = [T \in SUBSET S |->
             IF T = {} THEN 1 ELSE f[FirstOf(T)] * it[T \ {FirstOf(T)}]]

Product(f, S) == (CHOOSE it : IsProduct(it, f, S))[S]

\* Numel, a fold in the code, is the product of the extents.
LEMMA NumelIsProduct ==
    ASSUME NEW f
    PROVE  Numel(f) = Product(f, DOMAIN f)
BY DEF Numel, FoldSeq, FoldFunction, FoldFunctionOnSet, MapThenFoldSet, IsProduct, Product, FirstOf

\* There is such a function: the subsets of n elements follow from those of
\* fewer.
LEMMA ProductExists ==
    ASSUME NEW f, NEW S, IsFiniteSet(S)
    PROVE  \E it : IsProduct(it, f, S)
<1> DEFINE Below(n) == {T \in SUBSET S : Cardinality(T) <= n}
<1> DEFINE Value(it, T) == IF T = {} THEN 1 ELSE f[FirstOf(T)] * it[T \ {FirstOf(T)}]
<1> DEFINE C == {n \in Nat : \E it : it = [T \in Below(n) |-> Value(it, T)]}
<1>1. \A T \in SUBSET S : IsFiniteSet(T) /\ Cardinality(T) \in Nat
  BY FS_Subset, FS_CardinalityType
<1>2. ASSUME NEW T \in SUBSET S, T # {}
      PROVE  /\ T \ {FirstOf(T)} \in SUBSET S
             /\ Cardinality(T \ {FirstOf(T)}) = Cardinality(T) - 1
  BY <1>1, <1>2, FirstIsIn, FS_RemoveElement
<1>3. 0 \in C
  <2> DEFINE it == [T \in Below(0) |-> 1]
  <2>1. \A T \in Below(0) : T = {}
    BY <1>1, FS_EmptySet
  <2>2. it = [T \in Below(0) |-> Value(it, T)]
    BY <2>1
  <2>3. QED
    BY <2>2
<1>4. ASSUME NEW n \in Nat, n \in C PROVE n + 1 \in C
  <2>1. PICK it : it = [T \in Below(n) |-> Value(it, T)]
    BY <1>4
  <2> DEFINE next == [T \in Below(n + 1) |-> Value(it, T)]
  <2>2. \A T \in Below(n) : T \in Below(n + 1)
    BY <1>1
  <2>3. ASSUME NEW T \in Below(n) PROVE next[T] = it[T]
    <3>1. T \in Below(n + 1)
      BY <2>2
    <3>2. next[T] = Value(it, T)
      BY <3>1
    <3>3. it[T] = Value(it, T)
      BY <2>1
    <3>4. QED
      BY <3>2, <3>3
  <2>4. ASSUME NEW T \in Below(n + 1), T # {}
        PROVE  it[T \ {FirstOf(T)}] = next[T \ {FirstOf(T)}]
    <3>1. T \ {FirstOf(T)} \in Below(n)
      BY <1>1, <1>2, <2>4
    <3>2. QED
      BY <2>3, <3>1
  <2>5. \A T \in Below(n + 1) : Value(it, T) = Value(next, T)
    <3> HIDE DEF next, Below
    <3>1. QED
      BY <2>4
  <2>6. next = [T \in Below(n + 1) |-> Value(next, T)]
    BY <2>5
  <2> HIDE DEF next, Below, Value
  <2>7. QED
    BY <2>6
<1>5. Cardinality(S) \in C
  <2> HIDE DEF C
  <2>1. QED
    BY <1>1, <1>3, <1>4, AllNat
<1>6. Below(Cardinality(S)) = SUBSET S
  BY <1>1, FS_Subset
<1>7. QED
  BY <1>5, <1>6 DEF IsProduct

\* Factors that are all 1 multiply to 1.
LEMMA ProductIsOne ==
    ASSUME NEW f, NEW S, IsFiniteSet(S)
    PROVE  \E it : IsProduct(it, f, S) /\ Product(f, S) = it[S]
<1>1. \E it : IsProduct(it, f, S)
  BY ProductExists
<1>2. IsProduct(CHOOSE it : IsProduct(it, f, S), f, S)
  BY <1>1
<1>3. QED
  BY <1>2 DEF Product

\* Two of them agree wherever the summands do, whatever sets they are about.
LEMMA ProductAgrees ==
    ASSUME NEW a, NEW f, NEW S, IsProduct(a, f, S),
           NEW b, NEW g, NEW R, IsProduct(b, g, R)
    PROVE  \A T : /\ IsFiniteSet(T) /\ T \subseteq S /\ T \subseteq R
                 /\ (\A x \in T : f[x] = g[x])
                 => a[T] = b[T]
<1> SUFFICES ASSUME NEW T, IsFiniteSet(T), T \subseteq S, T \subseteq R,
                    \A x \in T : f[x] = g[x]
             PROVE  a[T] = b[T]
  OBVIOUS
<1> DEFINE Bad == {U \in SUBSET T : a[U] # b[U]}
<1> SUFFICES ASSUME Bad # {} PROVE FALSE
  OBVIOUS
<1>1. Bad \subseteq FiniteSubsetsOf(T)
  BY FS_Subset DEF FiniteSubsetsOf
<1>2. PICK U \in Bad : \A V \in Bad : ~ (<<V, U>> \in StrictSubsetOrdering(T))
  <2> HIDE DEF Bad
  <2>1. \E U \in Bad : \A V \in Bad : ~ (<<V, U>> \in StrictSubsetOrdering(T))
    BY <1>1, FS_StrictSubsetOrderingWellFounded, WFMin
  <2>2. QED
    BY <2>1
<1>3. U \in SUBSET S /\ U \in SUBSET R
  OBVIOUS
<1>4. CASE U = {}
  BY <1>3, <1>4 DEF IsProduct
<1>5. CASE U # {}
  <2> DEFINE x == FirstOf(U)
  <2>1. x \in U
    BY <1>5, FirstIsIn
  <2>2. a[U \ {x}] = b[U \ {x}]
    <3>1. /\ U \ {x} \in SUBSET T /\ U \in SUBSET T
          /\ U \ {x} \subseteq U /\ U \ {x} # U
      BY <2>1
    <3>2. U \ {x} \notin Bad
      BY <1>2, <3>1 DEF StrictSubsetOrdering
    <3>3. QED
      BY <3>1, <3>2
  <2>3. a[U] = f[x] * a[U \ {x}] /\ b[U] = g[x] * b[U \ {x}]
    BY <1>3, <1>5 DEF IsProduct
  <2>4. f[x] = g[x]
    BY <2>1
  <2>5. QED
    BY <2>2, <2>3, <2>4
<1>6. QED
  BY <1>4, <1>5

\* No factor multiplies to 1.
LEMMA ProductEmpty == ASSUME NEW f PROVE Product(f, {}) = 1
<1>1. PICK a : IsProduct(a, f, {}) /\ Product(f, {}) = a[{}]
  BY ProductIsOne, FS_EmptySet
<1>2. QED
  BY <1>1 DEF IsProduct

\* A product with its first element taken off.
LEMMA ProductStep ==
    ASSUME NEW f, NEW S, IsFiniteSet(S), S # {}
    PROVE  Product(f, S) = f[FirstOf(S)] * Product(f, S \ {FirstOf(S)})
<1> DEFINE R == S \ {FirstOf(S)}
<1>1. PICK a : IsProduct(a, f, S) /\ Product(f, S) = a[S]
  BY ProductIsOne
<1>2. IsFiniteSet(R)
  BY FS_RemoveElement
<1>3. PICK b : IsProduct(b, f, R) /\ Product(f, R) = b[R]
  BY <1>2, ProductIsOne
<1>4. R \subseteq S /\ R \subseteq R /\ \A x \in R : f[x] = f[x]
  OBVIOUS
<1>5. a[R] = b[R]
  <2> HIDE DEF R
  <2>1. QED
    <3>1. \A T : /\ IsFiniteSet(T) /\ T \subseteq S /\ T \subseteq R
                /\ (\A x \in T : f[x] = f[x])
                => a[T] = b[T]
      BY <1>1, <1>3, ProductAgrees
    <3>2. QED
      BY <1>2, <1>4, <3>1
<1>6. a[S] = f[FirstOf(S)] * a[R]
  BY <1>1 DEF IsProduct
<1>7. QED
  BY <1>1, <1>3, <1>5, <1>6

\* The product does not depend on the order: any element may be taken off first.
LEMMA ProductRemove ==
    ASSUME NEW S, IsFiniteSet(S), NEW f, \A x \in S : f[x] \in Int
    PROVE  /\ Product(f, S) \in Int
           /\ \A y \in S : Product(f, S) = f[y] * Product(f, S \ {y})
<1> DEFINE Prod(T) == Product(f, T)
<1> DEFINE Good(T) == Prod(T) \in Int /\ \A y \in T : Prod(T) = f[y] * Prod(T \ {y})
<1> DEFINE Bad == {T \in SUBSET S : ~Good(T)}
<1> SUFFICES ASSUME Bad # {} PROVE FALSE
  OBVIOUS
<1>1. Bad \subseteq FiniteSubsetsOf(S)
  BY FS_Subset DEF FiniteSubsetsOf
<1>2. PICK T \in Bad : \A U \in Bad : ~ (<<U, T>> \in StrictSubsetOrdering(S))
  <2> HIDE DEF Bad
  <2>1. \E T \in Bad : \A U \in Bad : ~ (<<U, T>> \in StrictSubsetOrdering(S))
    BY <1>1, FS_StrictSubsetOrderingWellFounded, WFMin
  <2>2. QED
    BY <2>1
<1>3. IsFiniteSet(T) /\ T \in SUBSET S
  BY FS_Subset
<1>4. ASSUME NEW x \in T PROVE Good(T \ {x})
  <2>1. T \ {x} \in SUBSET S /\ T \ {x} \subseteq T /\ T \ {x} # T
    BY <1>3
  <2>2. T \ {x} \notin Bad
    BY <1>2, <1>3, <2>1 DEF StrictSubsetOrdering
  <2>3. QED
    BY <2>1, <2>2
<1>5. CASE T = {}
  <2>1. Prod({}) = 1
    BY ProductEmpty
  <2>2. Good({})
    BY <2>1
  <2>3. QED
    BY <1>5, <2>2
<1>6. CASE T # {}
  <2> DEFINE x == FirstOf(T)
  <2>1. x \in T
    BY <1>6, FirstIsIn
  <2>2. Prod(T) = f[x] * Prod(T \ {x})
    BY <1>3, <1>6, ProductStep
  <2> HIDE DEF x
  <2>3. ASSUME NEW y \in T, y # x PROVE Prod(T) = f[y] * Prod(T \ {y})
    <3>1. (T \ {x}) \ {y} = (T \ {y}) \ {x}
      OBVIOUS
    <3>2. Prod(T \ {x}) = f[y] * Prod((T \ {x}) \ {y})
      BY <1>4, <2>1, <2>3
    <3>3. Prod(T \ {y}) = f[x] * Prod((T \ {y}) \ {x})
      BY <1>4, <2>1, <2>3
    <3>4. Good((T \ {x}) \ {y})
      <4>1. (T \ {x}) \ {y} \in SUBSET S /\ (T \ {x}) \ {y} \subseteq T /\ (T \ {x}) \ {y} # T
        BY <1>3, <2>1
      <4>2. (T \ {x}) \ {y} \notin Bad
        BY <1>2, <1>3, <4>1 DEF StrictSubsetOrdering
      <4>3. QED
        BY <4>1, <4>2
    <3> DEFINE rest == Prod((T \ {x}) \ {y})
    <3>5. rest \in Int /\ f[x] \in Int /\ f[y] \in Int
      BY <1>3, <2>1, <3>4
    <3>6. Prod(T) = f[x] * (f[y] * rest) /\ Prod(T \ {y}) = f[x] * rest
      BY <2>2, <3>1, <3>2, <3>3
    <3> HIDE DEF rest
    <3>7. f[x] * (f[y] * rest) = f[y] * (f[x] * rest)
      BY <3>5
    <3>8. QED
      BY <3>6, <3>7
  <2>4. Prod(T) \in Int
    BY <1>3, <1>4, <2>1, <2>2
  <2>5. QED
    BY <2>2, <2>3, <2>4
<1>7. QED
  BY <1>5, <1>6

\* A product without its last or its first axis.
LEMMA ProductEnds ==
    ASSUME NEW k \in Int, NEW n \in Int, k <= n, NEW f, \A j \in k .. n : f[j] \in Int
    PROVE  /\ Product(f, k .. n) = f[k] * Product(f, k + 1 .. n)
           /\ Product(f, k .. n) = f[n] * Product(f, k .. n - 1)
<1> DEFINE S == k .. n
<1>1. IsFiniteSet(S) /\ \A j \in S : f[j] \in Int
  BY FS_Interval
<1>2. k \in S /\ n \in S
  OBVIOUS
<1>3. S \ {k} = k + 1 .. n /\ S \ {n} = k .. n - 1
  OBVIOUS
<1> HIDE DEF S
<1>4. \A y \in S : Product(f, S) = f[y] * Product(f, S \ {y})
  BY <1>1, ProductRemove
<1>5. Product(f, S) = f[k] * Product(f, k + 1 .. n) /\ Product(f, S) = f[n] * Product(f, k .. n - 1)
  BY <1>2, <1>3, <1>4, Zenon
<1>6. QED
  BY <1>5, Zenon DEF S

\* A product over an interval, shifted along.
LEMMA ProductShifted ==
    ASSUME NEW k \in Int, NEW m \in Nat, NEW f, NEW g,
           \A j \in 1 .. m : g[j] = f[k + j], \A j \in 1 .. m : g[j] \in Int
    PROVE  Product(g, 1 .. m) = Product(f, k + 1 .. k + m)
<1> DEFINE C == {n \in 0 .. m : Product(g, 1 .. n) = Product(f, k + 1 .. k + n)}
<1>1. 0 \in C
  <2>1. 1 .. 0 = {} /\ k + 1 .. k + 0 = {}
    OBVIOUS
  <2>2. Product(g, 1 .. 0) = Product(f, k + 1 .. k + 0)
    BY <2>1, ProductEmpty
  <2>3. QED
    BY <2>2
<1>2. ASSUME NEW n \in 0 .. m - 1, n \in C PROVE n + 1 \in C
  <2>2. \A j \in k + 1 .. k + n + 1 : f[j] \in Int
    <3> SUFFICES ASSUME NEW j \in k + 1 .. k + n + 1 PROVE f[j] \in Int
      OBVIOUS
    <3>1. j - k \in 1 .. m /\ k + (j - k) = j
      OBVIOUS
    <3>2. QED
      BY <3>1
  <2> DEFINE a == n + 1
             b == k + a
  <2>3. /\ 1 \in Int /\ a \in Int /\ 1 <= a /\ k + 1 \in Int /\ b \in Int /\ k + 1 <= b
        /\ a - 1 = n /\ b - 1 = k + n /\ a \in 1 .. m
        /\ \A j \in 1 .. a : g[j] \in Int
        /\ \A j \in k + 1 .. b : f[j] \in Int
    BY <2>2
  <2> HIDE DEF a, b
  <2>4. Product(g, 1 .. a) = g[a] * Product(g, 1 .. n)
    BY <2>3, ProductEnds
  <2>5. Product(f, k + 1 .. b) = f[b] * Product(f, k + 1 .. k + n)
    BY <2>3, ProductEnds
  <2>6. Product(g, 1 .. n) = Product(f, k + 1 .. k + n) /\ g[a] = f[b]
    BY <1>2, <2>3 DEF b
  <2>9. Product(g, 1 .. a) = Product(f, k + 1 .. b)
    BY <2>4, <2>5, <2>6
  <2>7. Product(g, 1 .. n + 1) = Product(f, k + 1 .. k + (n + 1))
    BY <2>9 DEF a, b
  <2>8. QED
    BY <2>7
<1>3. 0 .. m \subseteq C
  <2> HIDE DEF C
  <2>1. QED
    BY <1>1, <1>2, UpTo
<1>4. QED
  BY <1>3

\* The number of elements of the axes after axis i: the stride of axis i.
Rest(s, i) == Product(s, i + 1 .. Len(s))

\* The stride of an axis is the number of elements that the axes after it span.
LEMMA StridesAre ==
    ASSUME NEW s \in Seq(Nat)
    PROVE  /\ Len(s) \in Nat /\ DOMAIN s = 1 .. Len(s) /\ \A i \in 1 .. Len(s) : s[i] \in Nat
           /\ Numel(s) = Rest(s, 0)
           /\ DOMAIN RowStrides(s) = 1 .. Len(s)
           /\ \A i \in 1 .. Len(s) : RowStrides(s)[i] = Rest(s, i)
<1> DEFINE n == Len(s)
<1>1. n \in Nat /\ DOMAIN s = 1 .. n /\ \A i \in 1 .. n : s[i] \in Nat
  BY LenProperties, ElementOf
<1>2. Numel(s) = Rest(s, 0)
  BY <1>1, NumelIsProduct DEF Rest
<1>3. ASSUME NEW i \in 1 .. n PROVE Numel(SubSeq(s, i + 1, n)) = Rest(s, i)
  <2> DEFINE t == SubSeq(s, i + 1, n)
  <2>1. /\ DOMAIN t = 1 .. n - i /\ \A j \in 1 .. n - i : t[j] = s[i + j]
    BY <1>1
  <2>2. \A j \in 1 .. n - i : t[j] \in Int
    BY <1>1, <2>1
  <2>3. n - i \in Nat /\ i + (n - i) = n /\ i \in Int
    BY <1>1
  <2> HIDE DEF t
  <2>4. Product(t, 1 .. n - i) = Product(s, i + 1 .. i + (n - i))
    BY <2>1, <2>2, <2>3, ProductShifted
  <2>5. Numel(t) = Product(t, 1 .. n - i)
    BY <2>1, NumelIsProduct
  <2>6. QED
    BY <2>3, <2>4, <2>5 DEF Rest, t
<1>4. QED
  BY <1>1, <1>2, <1>3 DEF RowStrides

\* What the axes after axis i span, one axis at a time.
LEMMA RestIs ==
    ASSUME NEW s \in Seq(Nat)
    PROVE  /\ Rest(s, Len(s)) = 1
           /\ \A i \in 0 .. Len(s) : Rest(s, i) \in Nat
           /\ \A i \in 1 .. Len(s) : Rest(s, i - 1) = s[i] * Rest(s, i)
<1> DEFINE n == Len(s)
<1>1. n \in Nat /\ \A i \in 1 .. n : s[i] \in Nat
  BY StridesAre
<1>2. Rest(s, n) = 1
  <2>1. n + 1 .. n = {}
    BY <1>1
  <2>2. QED
    BY <2>1, ProductEmpty DEF Rest
<1>3. ASSUME NEW i \in 1 .. n PROVE Rest(s, i - 1) = s[i] * Rest(s, i)
  <2>1. (i - 1) + 1 = i /\ i <= n /\ \A j \in i .. n : s[j] \in Int
    BY <1>1
  <2>2. QED
    BY <1>1, <2>1, ProductEnds DEF Rest
<1>4. \A i \in 0 .. n : Rest(s, i) \in Nat
  <2> DEFINE C == {k \in 0 .. n : Rest(s, n - k) \in Nat}
  <2>1. 0 \in C
    BY <1>1, <1>2
  <2>2. ASSUME NEW k \in 0 .. n - 1, k \in C PROVE k + 1 \in C
    <3>1. n - k \in 1 .. n /\ n - (k + 1) = (n - k) - 1 /\ k + 1 \in 0 .. n
      BY <1>1
    <3>2. Rest(s, (n - k) - 1) = s[n - k] * Rest(s, n - k)
      BY <1>3, <3>1
    <3>3. s[n - k] \in Nat /\ Rest(s, n - k) \in Nat
      BY <1>1, <2>2, <3>1
    <3>4. Rest(s, n - (k + 1)) \in Nat
      BY <3>1, <3>2, <3>3
    <3>5. QED
      BY <3>1, <3>4
  <2>3. 0 .. n \subseteq C
    <3> HIDE DEF C
    <3>1. QED
      BY <1>1, <2>1, <2>2, UpTo
  <2>4. ASSUME NEW i \in 0 .. n PROVE Rest(s, i) \in Nat
    <3>1. n - i \in 0 .. n /\ n - (n - i) = i
      BY <1>1
    <3>2. QED
      BY <2>3, <3>1
  <2>5. QED
    BY <2>4
<1>5. QED
  BY <1>2, <1>3, <1>4

\* A sum of terms that go down from bound to bound.
LEMMA SumBelow ==
    ASSUME NEW r \in Nat, NEW v, \A i \in 1 .. r : v[i] \in Nat,
           NEW B, \A i \in 0 .. r : B[i] \in Int,
           \A i \in 1 .. r : v[i] + B[i] <= B[i - 1]
    PROVE  SumFunctionOnSet(v, 1 .. r) \in Nat /\ SumFunctionOnSet(v, 1 .. r) <= B[0] - B[r]
<1> DEFINE Sum(n) == SumFunctionOnSet(v, 1 .. n)
           C == {n \in 0 .. r : Sum(n) \in Nat /\ Sum(n) <= B[0] - B[n]}
<1>1. 0 \in C
  <2>1. 1 .. 0 = {}
    OBVIOUS
  <2>2. Sum(0) = 0
    BY <2>1, SumEmpty
  <2>3. QED
    BY <2>2
<1>2. ASSUME NEW n \in 0 .. r - 1, n \in C PROVE n + 1 \in C
  <2>1. Sum(n + 1) = v[n + 1] + Sum(n)
    <3> DEFINE S == 1 .. n
    <3>1. 1 .. n + 1 = S \cup {n + 1} /\ n + 1 \notin S /\ \A y \in S \cup {n + 1} : v[y] \in Int
      OBVIOUS
    <3>2. IsFiniteSet(S)
      BY FS_Interval
    <3> HIDE DEF S
    <3>3. SumFunctionOnSet(v, S \cup {n + 1}) = v[n + 1] + SumFunctionOnSet(v, S)
      BY <3>1, <3>2, SumAdd
    <3>4. QED
      BY <3>1, <3>3, Zenon DEF S
  <2> HIDE DEF Sum
  <2>2. n + 1 \in 1 .. r /\ (n + 1) - 1 = n
    OBVIOUS
  <2>3. v[n + 1] \in Nat /\ v[n + 1] + B[n + 1] <= B[n] /\ B[n + 1] \in Int /\ B[n] \in Int /\ B[0] \in Int
    BY <2>2
  <2>4. Sum(n) \in Nat /\ Sum(n) <= B[0] - B[n]
    BY <1>2
  <2>5. Sum(n + 1) \in Nat /\ Sum(n + 1) <= B[0] - B[n + 1]
    BY <2>1, <2>3, <2>4
  <2>6. QED
    BY <2>2, <2>5
<1>3. 0 .. r \subseteq C
  <2> HIDE DEF C
  <2>1. QED
    BY <1>1, <1>2, UpTo
<1>4. QED
  BY <1>3

\* ... that go down exactly from bound to bound.
LEMMA SumTelescopes ==
    ASSUME NEW r \in Nat, NEW v, \A i \in 1 .. r : v[i] \in Int,
           NEW B, \A i \in 0 .. r : B[i] \in Int,
           \A i \in 1 .. r : v[i] + B[i] = B[i - 1]
    PROVE  SumFunctionOnSet(v, 1 .. r) = B[0] - B[r]
<1> DEFINE Sum(n) == SumFunctionOnSet(v, 1 .. n)
           C == {n \in 0 .. r : Sum(n) = B[0] - B[n]}
<1>1. 0 \in C
  <2>1. 1 .. 0 = {}
    OBVIOUS
  <2>2. Sum(0) = 0
    BY <2>1, SumEmpty
  <2>3. QED
    BY <2>2
<1>2. ASSUME NEW n \in 0 .. r - 1, n \in C PROVE n + 1 \in C
  <2>1. Sum(n + 1) = v[n + 1] + Sum(n)
    <3> DEFINE S == 1 .. n
    <3>1. 1 .. n + 1 = S \cup {n + 1} /\ n + 1 \notin S /\ \A y \in S \cup {n + 1} : v[y] \in Int
      OBVIOUS
    <3>2. IsFiniteSet(S)
      BY FS_Interval
    <3> HIDE DEF S
    <3>3. SumFunctionOnSet(v, S \cup {n + 1}) = v[n + 1] + SumFunctionOnSet(v, S)
      BY <3>1, <3>2, SumAdd
    <3>4. QED
      BY <3>1, <3>3, Zenon DEF S
  <2> HIDE DEF Sum
  <2>2. n + 1 \in 1 .. r /\ (n + 1) - 1 = n
    OBVIOUS
  <2>3. v[n + 1] \in Int /\ v[n + 1] + B[n + 1] = B[n] /\ B[n + 1] \in Int /\ B[n] \in Int /\ B[0] \in Int
    BY <2>2
  <2>4. Sum(n) = B[0] - B[n]
    BY <1>2
  <2>5. Sum(n + 1) = B[0] - B[n + 1]
    BY <2>1, <2>3, <2>4
  <2>6. QED
    BY <2>2, <2>5
<1>3. 0 .. r \subseteq C
  <2> HIDE DEF C
  <2>1. QED
    BY <1>1, <1>2, UpTo
<1>4. QED
  BY <1>3

-----------------------------------------------------------------------------
(* Quotients and coordinates. *)

LEMMA MultiplesGrow ==
    ASSUME NEW m \in Nat, NEW q \in Nat
    PROVE  /\ m * q \in Nat /\ m * q = q * m
           /\ (m * q > 0) = (m > 0 /\ q > 0)
           /\ m > 0 => m * q >= q
           /\ \A d \in 0 .. m - 1 : d * q \in Nat /\ d * q + q <= m * q
<1>1. m * q \in Nat /\ m * q = q * m
  OBVIOUS
<1>2. ASSUME NEW d \in 0 .. m - 1 PROVE d * q \in Nat /\ d * q + q <= m * q
  <2>1. (m - 1 - d) * q >= 0
    OBVIOUS
  <2>2. (m - 1 - d) * q = m * q - q - d * q /\ d * q \in Nat
    OBVIOUS
  <2>3. QED
    BY <1>1, <2>1, <2>2
<1>3. m > 0 => m * q >= q
  <2> SUFFICES ASSUME m > 0 PROVE m * q >= q
    OBVIOUS
  <2>1. 0 \in 0 .. m - 1 /\ 0 * q = 0
    OBVIOUS
  <2>2. 0 * q + q <= m * q
    BY <1>2, <2>1
  <2>3. QED
    BY <1>1, <2>1, <2>2
<1>4. (m * q > 0) = (m > 0 /\ q > 0)
  <2>1. m = 0 => m * q = 0
    OBVIOUS
  <2>2. q = 0 => m * q = 0
    OBVIOUS
  <2>3. QED
    BY <1>1, <1>3, <2>1, <2>2
<1>5. QED
  BY <1>1, <1>2, <1>3, <1>4

\* Quotient and rest by the extent of a row.
LEMMA QuotientIs ==
    ASSUME NEW q \in Nat, q > 0, NEW m \in Nat, NEW x \in 0 .. m * q - 1
    PROVE  /\ x \div q \in 0 .. m - 1
           /\ x = (x \div q) * q + (x % q)
<1> DEFINE d == x \div q
           r == x % q
<1>1. m * q \in Int /\ x \in Int /\ x >= 0 /\ x < m * q
  OBVIOUS
<1>2. d \in Int /\ r \in 0 .. q - 1
  BY <1>1
<1>3. x = q * d + r
  BY <1>1
<1> HIDE DEF d, r
<1>4. q * d \in Int /\ q * d = d * q
  BY <1>2
<1>5. d < m
  <2> SUFFICES ASSUME d - m >= 0 PROVE FALSE
    BY <1>2
  <2>1. q * (d - m) >= 0 /\ q * (d - m) = q * d - m * q
    BY <1>2
  <2>2. QED
    BY <1>1, <1>2, <1>3, <1>4, <2>1
<1>6. d >= 0
  <2> SUFFICES ASSUME -d >= 1 PROVE FALSE
    BY <1>2
  <2>1. q * (-d) >= q /\ q * (-d) = -(q * d)
    <3>1. q * (-d - 1) >= 0 /\ q * (-d) = q * (-d - 1) + q
      BY <1>2
    <3>2. QED
      BY <1>2, <3>1
  <2>2. QED
    BY <1>1, <1>2, <1>3, <1>4, <2>1
<1>7. QED
  BY <1>2, <1>3, <1>4, <1>5, <1>6 DEF d, r

\* The remainder by a divisor of the modulus.
LEMMA RemainderOfRemainder ==
    ASSUME NEW q \in Nat, q > 0, NEW m \in Nat, m > 0, NEW x \in Nat
    PROVE  (x % (m * q)) % q = x % q
<1> DEFINE k == m * q
           r == x % k
           t == r % q
<1>1. k \in Nat /\ k > 0
  BY MultiplesGrow
<1>2. PICK p \in Int : x = k * p + r
  BY <1>1, DivisionIs
<1>3. r \in Int
  BY <1>1
<1>4. t \in 0 .. q - 1 /\ \E u \in Int : r = q * u + t
  BY <1>3, DivisionIs
<1>5. PICK u \in Int : r = q * u + t
  BY <1>4
<1> HIDE DEF r, t
<1>6. x = q * (m * p + u) + t
  <2>1. k * p = q * (m * p)
    OBVIOUS
  <2>2. m * p \in Int /\ q * (m * p + u) = q * (m * p) + q * u
    OBVIOUS
  <2>3. q * (m * p) \in Int /\ q * u \in Int /\ t \in Int
    BY <1>4
  <2> HIDE DEF k
  <2>4. QED
    BY <1>2, <1>5, <2>1, <2>2, <2>3
<1>7. m * p + u \in Int
  OBVIOUS
<1>8. x % q = t
  BY <1>4, <1>6, <1>7, RemainderIs
<1>9. QED
  BY <1>8 DEF t, r, k

\* What is left of idx behind axis i: the loop that finds the coordinates
\* divides it by the next stride.
Behind(idx, s, i) == IF i = 0 THEN idx ELSE idx % Rest(s, i)

\* An offset of an array: no axis is empty, every coordinate is below the
\* extent of its axis, and takes its multiple of the stride off.
LEMMA CoordinatesAre ==
    ASSUME NEW s \in Seq(Nat), NEW idx \in Offsets(s)
    PROVE  /\ DOMAIN Decode(idx, s) = 1 .. Len(s)
           /\ Rest(s, 0) > 0 /\ idx \in 0 .. Rest(s, 0) - 1
           /\ \A i \in 0 .. Len(s) : Behind(idx, s, i) \in 0 .. Rest(s, i) - 1
           /\ \A i \in 1 .. Len(s) :
                 /\ s[i] > 0 /\ Rest(s, i) > 0
                 /\ Decode(idx, s)[i] \in 0 .. s[i] - 1
                 /\ Decode(idx, s)[i] * Rest(s, i) + Behind(idx, s, i) = Behind(idx, s, i - 1)
<1> DEFINE n == Len(s)
           R(i) == Rest(s, i)
           X(i) == Behind(idx, s, i)
<1>1. /\ n \in Nat /\ DOMAIN s = 1 .. n /\ \A i \in 1 .. n : s[i] \in Nat
      /\ DOMAIN RowStrides(s) = 1 .. n /\ \A i \in 1 .. n : RowStrides(s)[i] = R(i)
      /\ R(0) = Numel(s)
  BY StridesAre
<1>2. /\ \A i \in 0 .. n : R(i) \in Nat
      /\ \A i \in 1 .. n : R(i - 1) = s[i] * R(i)
  BY RestIs
<1>3. R(0) \in Nat /\ idx \in 0 .. R(0) - 1 /\ idx \in Nat /\ R(0) > 0
  BY <1>1, <1>2 DEF Offsets
<1> HIDE DEF n, R
<1>4. ASSUME NEW i \in 1 .. n, R(i - 1) > 0
      PROVE  s[i] > 0 /\ R(i) > 0 /\ s[i] \in Nat /\ R(i) \in Nat /\ R(i - 1) = s[i] * R(i)
  <2>1. s[i] \in Nat /\ R(i) \in Nat /\ R(i - 1) = s[i] * R(i)
    BY <1>1, <1>2
  <2>2. QED
    BY <1>4, <2>1, MultiplesGrow
<1> DEFINE C == {i \in 0 .. n : R(i) > 0}
<1>5. 0 .. n \subseteq C
  <2>1. 0 \in C
    BY <1>1, <1>3
  <2>2. ASSUME NEW i \in 0 .. n - 1, i \in C PROVE i + 1 \in C
    <3>1. i + 1 \in 1 .. n /\ (i + 1) - 1 = i /\ R(i) > 0
      BY <1>1, <2>2
    <3>2. R(i + 1) > 0
      BY <1>4, <3>1
    <3>3. QED
      BY <3>1, <3>2
  <2> HIDE DEF C
  <2>3. QED
    BY <1>1, <2>1, <2>2, UpTo
<1>6. ASSUME NEW i \in 0 .. n PROVE X(i) \in 0 .. R(i) - 1 /\ X(i) \in Nat
  <2>1. R(i) \in Nat /\ R(i) > 0
    BY <1>2, <1>5
  <2>2. idx % R(i) \in 0 .. R(i) - 1
    BY <1>3, <2>1
  <2>3. QED
    BY <1>3, <2>2 DEF Behind, R
<1>7. ASSUME NEW i \in 1 .. n
      PROVE  /\ s[i] > 0 /\ R(i) > 0
             /\ Decode(idx, s)[i] \in 0 .. s[i] - 1
             /\ Decode(idx, s)[i] * R(i) + X(i) = X(i - 1)
  <2>1. i - 1 \in 0 .. n /\ R(i - 1) > 0
    BY <1>1, <1>5
  <2>2. s[i] > 0 /\ R(i) > 0 /\ s[i] \in Nat /\ R(i) \in Nat /\ R(i - 1) = s[i] * R(i)
    BY <1>4, <2>1
  <2>3. X(i - 1) \in 0 .. s[i] * R(i) - 1
    BY <1>6, <2>1, <2>2
  <2>4. X(i - 1) % R(i) = X(i)
    <3>1. CASE i = 1
      BY <3>1 DEF Behind, R
    <3>2. CASE i # 1
      <4>1. X(i - 1) = idx % (s[i] * R(i)) /\ X(i) = idx % R(i)
        <5>1. i - 1 # 0 /\ i # 0
          BY <3>2
        <5>2. QED
          BY <2>2, <5>1 DEF Behind, R
      <4>2. (idx % (s[i] * R(i))) % R(i) = idx % R(i)
        BY <1>3, <2>2, RemainderOfRemainder
      <4> HIDE DEF X
      <4>3. QED
        BY <4>1, <4>2, Zenon
    <3>3. QED
      BY <3>1, <3>2
  <2>5. Decode(idx, s)[i] = X(i - 1) \div R(i)
    <3>1. i \in DOMAIN s /\ RowStrides(s)[i] = R(i)
      BY <1>1
    <3>2. Decode(idx, s)[i] = (IF i = 1 THEN idx ELSE idx % RowStrides(s)[i - 1]) \div R(i)
      BY <3>1 DEF Decode
    <3>3. CASE i = 1
      BY <3>2, <3>3 DEF Behind
    <3>4. CASE i # 1
      <4>1. i - 1 \in 1 .. n /\ i - 1 # 0
        BY <1>1, <3>4
      <4>2. RowStrides(s)[i - 1] = R(i - 1)
        BY <1>1, <4>1
      <4>3. QED
        BY <3>2, <3>4, <4>1, <4>2 DEF Behind, R
    <3>5. QED
      BY <3>3, <3>4
  <2> HIDE DEF X
  <2>6. /\ X(i - 1) \div R(i) \in 0 .. s[i] - 1
        /\ X(i - 1) = (X(i - 1) \div R(i)) * R(i) + (X(i - 1) % R(i))
    BY <2>2, <2>3, QuotientIs
  <2>7. QED
    BY <2>2, <2>4, <2>5, <2>6
<1>8. DOMAIN Decode(idx, s) = 1 .. n
  BY <1>1 DEF Decode
<1>9. QED
  BY <1>3, <1>6, <1>7, <1>8 DEF n, R

-----------------------------------------------------------------------------
(* Broadcasting. *)

\* An array of shape a is repeated to one of shape c.
RepeatsTo(a, c) ==
    /\ Len(a) <= Len(c)
    /\ \A i \in 1 .. Len(c) : DimUnder(a, Len(c), i) \in {1, c[i]}

\* The extent of the operand under an axis of the result, aligned on the right.
LEMMA AxesUnder ==
    ASSUME NEW a \in Seq(Nat), NEW r \in Nat, Len(a) <= r, NEW i \in 1 .. r
    PROVE  /\ Len(a) \in Nat /\ r - Len(a) \in 0 .. r
           /\ i <= r - Len(a) => Aligned(a, r, i) <= 0 /\ DimUnder(a, r, i) = 1
           /\ i > r - Len(a) => /\ Aligned(a, r, i) = i - (r - Len(a))
                                /\ Aligned(a, r, i) > 0 /\ Aligned(a, r, i) \in 1 .. Len(a)
                                /\ DimUnder(a, r, i) = a[i - (r - Len(a))]
           /\ DimUnder(a, r, i) \in Nat
<1>1. Len(a) \in Nat /\ \A j \in 1 .. Len(a) : a[j] \in Nat
  BY StridesAre
<1>2. Aligned(a, r, i) = i - (r - Len(a))
  BY DEF Aligned
<1>3. CASE i <= r - Len(a)
  <2>1. Aligned(a, r, i) <= 0
    BY <1>1, <1>2, <1>3
  <2>2. ~(Aligned(a, r, i) > 0)
    BY <1>1, <1>2, <1>3
  <2>3. DimUnder(a, r, i) = 1
    BY <2>2 DEF DimUnder
  <2>4. QED
    BY <1>1, <1>3, <2>1, <2>3
<1>4. CASE i > r - Len(a)
  <2>1. Aligned(a, r, i) > 0 /\ Aligned(a, r, i) \in 1 .. Len(a)
    BY <1>1, <1>2, <1>4
  <2>2. DimUnder(a, r, i) = a[i - (r - Len(a))]
    BY <1>2, <2>1 DEF DimUnder
  <2>3. DimUnder(a, r, i) \in Nat
    BY <1>1, <1>2, <2>1, <2>2
  <2>4. QED
    BY <1>1, <1>2, <1>4, <2>1, <2>2, <2>3
<1>5. QED
  BY <1>1, <1>3, <1>4

\* Where the axes of a leave off: the elements of a from axis k of c on.
From(a, c, k) == IF k <= Len(c) - Len(a) THEN Rest(a, 0) ELSE Rest(a, k - (Len(c) - Len(a)))

\* From axis to axis it is divided by the extent of a.
LEMMA FromIs ==
    ASSUME NEW a \in Seq(Nat), NEW c \in Seq(Nat), Len(a) <= Len(c)
    PROVE  /\ From(a, c, 0) = Rest(a, 0) /\ From(a, c, Len(c)) = 1
           /\ \A k \in 0 .. Len(c) : From(a, c, k) \in Nat
           /\ \A k \in 1 .. Len(c) :
                 From(a, c, k - 1) = DimUnder(a, Len(c), k) * From(a, c, k)
<1> DEFINE r == Len(c)
           off == r - Len(a)
<1>1. r \in Nat /\ Len(a) \in Nat /\ off \in 0 .. r
  BY StridesAre
<1>2. /\ Rest(a, Len(a)) = 1
      /\ \A i \in 0 .. Len(a) : Rest(a, i) \in Nat
      /\ \A i \in 1 .. Len(a) : Rest(a, i - 1) = a[i] * Rest(a, i)
  BY RestIs
<1>3. From(a, c, 0) = Rest(a, 0)
  BY <1>1 DEF From
<1>4. From(a, c, r) = 1
  <2>1. CASE r <= off
    <3>1. Len(a) = 0
      BY <1>1, <2>1
    <3>2. QED
      BY <1>2, <2>1, <3>1 DEF From
  <2>2. CASE ~(r <= off)
    <3>1. r - off = Len(a)
      BY <1>1
    <3>2. QED
      BY <1>2, <2>2, <3>1 DEF From
  <2>3. QED
    BY <2>1, <2>2
<1>5. ASSUME NEW k \in 0 .. r PROVE From(a, c, k) \in Nat
  <2>1. CASE k <= off
    BY <1>1, <1>2, <2>1 DEF From
  <2>2. CASE ~(k <= off)
    <3>1. k - off \in 0 .. Len(a)
      BY <1>1, <2>2
    <3>2. QED
      BY <1>2, <2>2, <3>1 DEF From
  <2>3. QED
    BY <2>1, <2>2
<1>6. ASSUME NEW k \in 1 .. r
      PROVE  From(a, c, k - 1) = DimUnder(a, r, k) * From(a, c, k)
  <2>1. From(a, c, k) \in Nat
    BY <1>1, <1>5
  <2>2. CASE k <= off
    <3>1. From(a, c, k - 1) = Rest(a, 0) /\ From(a, c, k) = Rest(a, 0)
      BY <1>1, <2>2 DEF From
    <3>2. DimUnder(a, r, k) = 1
      BY <1>1, <2>2, AxesUnder
    <3>3. QED
      BY <2>1, <3>1, <3>2
  <2>3. CASE ~(k <= off)
    <3> DEFINE j == k - off
    <3>1. j \in 1 .. Len(a) /\ (k - 1) - off = j - 1
      BY <1>1, <2>3
    <3>2. DimUnder(a, r, k) = a[j]
      BY <1>1, <2>3, AxesUnder
    <3>3. From(a, c, k) = Rest(a, j)
      BY <2>3 DEF From
    <3>4. From(a, c, k - 1) = Rest(a, j - 1)
      <4>1. CASE k - 1 <= off
        <5>1. j - 1 = 0
          <6>1. off \in Int /\ k \in Int /\ j = k - off /\ k - 1 <= off /\ ~(k <= off)
            BY <1>1, <2>3, <4>1
          <6> HIDE DEF off, j
          <6>2. QED
            BY <6>1
        <5>2. QED
          BY <4>1, <5>1 DEF From
      <4>2. CASE ~(k - 1 <= off)
        BY <3>1, <4>2 DEF From
      <4>3. QED
        BY <4>1, <4>2
    <3> HIDE DEF j
    <3>5. QED
      BY <1>2, <3>1, <3>2, <3>3, <3>4
  <2>4. QED
    BY <2>2, <2>3
<1>7. QED
  BY <1>3, <1>4, <1>5, <1>6

\* The stride under axis i of a broadcast: that of the axis of a there,
\* unless there is none or it is repeated.
LEMMA BroadcastStridesAre ==
    ASSUME NEW a \in Seq(Nat), NEW c \in Seq(Nat), Len(a) <= Len(c), NEW i \in 1 .. Len(c)
    PROVE  BroadcastStrides(a, c)[i]
             = IF DimUnder(a, Len(c), i) = c[i] /\ DimUnder(a, Len(c), i) > 1
               THEN From(a, c, i) ELSE 0
<1> DEFINE r == Len(c)
           off == r - Len(a)
           ad == DimUnder(a, r, i)
<1>1. r \in Nat /\ Len(a) \in Nat /\ DOMAIN c = 1 .. r
  BY StridesAre
<1>2. BroadcastStrides(a, c)[i]
        = IF ad = c[i] /\ ad > 1 THEN RowStrides(a)[Aligned(a, r, i)] ELSE 0
  BY <1>1 DEF BroadcastStrides
<1>3. ASSUME ad > 1 PROVE RowStrides(a)[Aligned(a, r, i)] = From(a, c, i)
  <2>1. ~(i <= off)
    BY <1>1, <1>3, AxesUnder
  <2>2. Aligned(a, r, i) = i - off /\ i - off \in 1 .. Len(a)
    BY <1>1, <2>1, AxesUnder
  <2>3. RowStrides(a)[i - off] = Rest(a, i - off)
    BY <2>2, StridesAre
  <2>4. QED
    BY <2>1, <2>2, <2>3 DEF From
<1>4. QED
  BY <1>2, <1>3

\* The loops of an elementwise op read inside the arrays of both operands:
\* every element of the output has its element of an array that fits.
THEOREM ReadsInRange ==
    \A a, c \in Seq(Nat) : RepeatsTo(a, c) =>
        \A idx \in Offsets(c) : OperandOffset(idx, a, c) \in Offsets(a)
<1> SUFFICES ASSUME NEW a \in Seq(Nat), NEW c \in Seq(Nat), RepeatsTo(a, c), NEW idx \in Offsets(c)
             PROVE  OperandOffset(idx, a, c) \in Offsets(a)
  OBVIOUS
<1> DEFINE r == Len(c)
           ad(i) == DimUnder(a, r, i)
           d == Decode(idx, c)
           v == [i \in DOMAIN c |-> d[i] * BroadcastStrides(a, c)[i]]
           B == [i \in 0 .. r |-> From(a, c, i)]
<1>1. r \in Nat /\ DOMAIN c = 1 .. r /\ Len(a) <= r
  BY StridesAre DEF RepeatsTo
<1>2. /\ B[0] = Rest(a, 0) /\ B[r] = 1 /\ \A i \in 0 .. r : B[i] \in Nat
      /\ \A i \in 1 .. r : B[i - 1] = ad(i) * B[i]
  BY <1>1, FromIs
<1>3. ASSUME NEW i \in 1 .. r PROVE v[i] \in Nat /\ v[i] + B[i] <= B[i - 1]
  <2>1. c[i] \in Nat /\ c[i] > 0 /\ d[i] \in 0 .. c[i] - 1
    BY CoordinatesAre, StridesAre
  <2>2. ad(i) \in {1, c[i]} /\ ad(i) \in Nat
    BY <2>1 DEF RepeatsTo
  <2>3. v[i] = d[i] * BroadcastStrides(a, c)[i]
    BY <1>1
  <2>4. B[i] \in Nat /\ B[i - 1] = ad(i) * B[i] /\ B[i] = From(a, c, i)
    <3>1. i \in 0 .. r
      BY <1>1
    <3>2. B[i] = From(a, c, i)
      BY <3>1
    <3> HIDE DEF B, ad, r
    <3>3. QED
      BY <1>2, <3>1, <3>2
  <2> HIDE DEF ad, d, v, B
  <2>5. CASE ad(i) = c[i] /\ ad(i) > 1
    <3>1. v[i] = d[i] * B[i]
      BY <1>1, <2>3, <2>4, <2>5, BroadcastStridesAre DEF ad
    <3>2. d[i] * B[i] \in Nat /\ d[i] * B[i] + B[i] <= c[i] * B[i]
      BY <2>1, <2>4, MultiplesGrow
    <3>3. QED
      BY <2>4, <2>5, <3>1, <3>2
  <2>6. CASE ~(ad(i) = c[i] /\ ad(i) > 1)
    <3>1. BroadcastStrides(a, c)[i] = 0
      BY <1>1, <2>6, BroadcastStridesAre DEF ad
    <3>2. v[i] = 0
      BY <2>1, <2>3, <3>1
    <3>3. ad(i) > 0
      BY <2>1, <2>2
    <3>4. ad(i) * B[i] >= B[i]
      BY <2>2, <2>4, <3>3, MultiplesGrow
    <3>5. QED
      BY <2>2, <2>4, <3>2, <3>4
  <2>7. QED
    BY <2>5, <2>6
<1>4. OperandOffset(idx, a, c) = SumFunctionOnSet(v, 1 .. r)
  <2>1. DOMAIN v = 1 .. r
    BY <1>1
  <2>2. OperandOffset(idx, a, c) = FoldSeq(+, 0, v)
    BY DEF OperandOffset
  <2> HIDE DEF v
  <2>3. QED
    BY <2>1, <2>2, SumsAre
<1> HIDE DEF v, B, r
<1>5. SumFunctionOnSet(v, 1 .. r) \in Nat /\ SumFunctionOnSet(v, 1 .. r) <= B[0] - B[r]
  <2>1. \A i \in 1 .. r : v[i] \in Nat
    BY <1>3
  <2>2. \A i \in 0 .. r : B[i] \in Int
    BY <1>2
  <2>3. \A i \in 1 .. r : v[i] + B[i] <= B[i - 1]
    BY <1>3
  <2>4. QED
    BY <1>1, <2>1, <2>2, <2>3, SumBelow
<1>6. Numel(a) = Rest(a, 0) /\ Rest(a, 0) \in Nat
  BY StridesAre, RestIs
<1>7. QED
  BY <1>2, <1>4, <1>5, <1>6 DEF Offsets

\* The loop that reduces a gradient adds each element to the element of the
\* operand that the forward read for it, although one skips the axes that
\* the operand repeats by its extents and the other by a stride of 0.
THEOREM ReducesWhereRead ==
    \A a, c \in Seq(Nat) : RepeatsTo(a, c) =>
        \A idx \in Offsets(c) : ReducedOffset(idx, c, a) = OperandOffset(idx, a, c)
<1> SUFFICES ASSUME NEW a \in Seq(Nat), NEW c \in Seq(Nat), RepeatsTo(a, c), NEW idx \in Offsets(c)
             PROVE  ReducedOffset(idx, c, a) = OperandOffset(idx, a, c)
  OBVIOUS
<1> DEFINE r == Len(c)
           ad(i) == DimUnder(a, r, i)
           ti(i) == Aligned(a, r, i)
           d == Decode(idx, c)
           v == [i \in DOMAIN c |-> d[i] * BroadcastStrides(a, c)[i]]
           w == [i \in DOMAIN c |-> IF ti(i) <= 0 \/ ad(i) = 1
                                    THEN 0 ELSE d[i] * RowStrides(a)[ti(i)]]
<1>1. r \in Nat /\ DOMAIN c = 1 .. r /\ Len(a) <= r /\ Len(a) \in Nat
  BY StridesAre DEF RepeatsTo
<1>2. ASSUME NEW i \in 1 .. r PROVE w[i] = v[i]
  <2>1. c[i] \in Nat /\ c[i] > 0 /\ d[i] \in 0 .. c[i] - 1
    BY CoordinatesAre, StridesAre
  <2>2. ad(i) \in {1, c[i]} /\ ad(i) \in Nat
    BY <2>1 DEF RepeatsTo
  <2>3. v[i] = d[i] * BroadcastStrides(a, c)[i]
    BY <1>1
  <2>4. w[i] = IF ti(i) <= 0 \/ ad(i) = 1 THEN 0 ELSE d[i] * RowStrides(a)[ti(i)]
    BY <1>1
  <2>5. BroadcastStrides(a, c)[i]
          = IF ad(i) = c[i] /\ ad(i) > 1 THEN RowStrides(a)[ti(i)] ELSE 0
    BY <1>1 DEF BroadcastStrides
  <2>6. ti(i) <= 0 => ad(i) = 1
    <3>1. ti(i) <= 0 => ~(ti(i) > 0)
      BY <1>1 DEF Aligned
    <3>2. QED
      BY <3>1 DEF DimUnder
  <2> HIDE DEF ad, ti, d, v, w
  <2>7. CASE ad(i) = 1
    <3>1. w[i] = 0 /\ BroadcastStrides(a, c)[i] = 0
      BY <2>4, <2>5, <2>7
    <3>2. QED
      BY <2>1, <2>3, <3>1
  <2>8. CASE ad(i) # 1
    <3>1. ad(i) = c[i] /\ ad(i) > 1 /\ ~(ti(i) <= 0)
      BY <2>1, <2>2, <2>6, <2>8
    <3>2. QED
      BY <2>3, <2>4, <2>5, <3>1
  <2>9. QED
    BY <2>7, <2>8
<1>3. w = v
  BY <1>1, <1>2
<1>4. OperandOffset(idx, a, c) = FoldSeq(+, 0, v)
  BY DEF OperandOffset
<1>5. ReducedOffset(idx, c, a) = FoldSeq(+, 0, w)
  BY DEF ReducedOffset
<1> HIDE DEF v, w
<1>6. QED
  BY <1>3, <1>4, <1>5, Zenon

\* Products of naturals grow with their factors.
LEMMA ProductsGrow ==
    ASSUME NEW x \in Nat, NEW y \in Nat, NEW p \in Nat, NEW q \in Nat, x <= y, p <= q
    PROVE  x * p <= y * q
<1>1. x * (q - p) >= 0 /\ x * (q - p) = x * q - x * p
  OBVIOUS
<1>2. (y - x) * q >= 0 /\ (y - x) * q = y * q - x * q
  OBVIOUS
<1>3. x * p \in Int /\ x * q \in Int /\ y * q \in Int
  OBVIOUS
<1>4. QED
  BY <1>1, <1>2, <1>3

\* No smaller factors have the same product.
LEMMA FactorsAgree ==
    ASSUME NEW x \in Nat, NEW y \in Nat, NEW p \in Nat, NEW q \in Nat,
           x <= y, p <= q, q > 0, y > 0, x * p = y * q
    PROVE  x = y /\ p = q
<1>1. x * p <= x * q /\ x * q <= y * q
  BY ProductsGrow
<1>2. x = y
  <2> SUFFICES ASSUME x # y PROVE FALSE
    OBVIOUS
  <2>1. x \in 0 .. y - 1
    OBVIOUS
  <2>2. x * q + q <= y * q
    BY <2>1, MultiplesGrow
  <2>3. x * q \in Int /\ y * q \in Int /\ x * p \in Int
    OBVIOUS
  <2>4. QED
    BY <1>1, <2>2, <2>3
<1>3. p = q
  <2> SUFFICES ASSUME p # q PROVE FALSE
    OBVIOUS
  <2>1. p \in 0 .. q - 1
    OBVIOUS
  <2>2. p * y + y <= q * y
    BY <2>1, MultiplesGrow
  <2>3. p * y = x * p /\ q * y = y * q
    BY <1>2
  <2>4. p * y \in Int /\ q * y \in Int
    OBVIOUS
  <2>5. QED
    BY <2>2, <2>3, <2>4
<1>4. QED
  BY <1>2, <1>3

\* An operand has at most the elements of an output that has some.
LEMMA RepeatedIsSmaller ==
    ASSUME NEW a \in Seq(Nat), NEW c \in Seq(Nat), RepeatsTo(a, c), Numel(c) > 0
    PROVE  /\ \A i \in 1 .. Len(c) :
                 /\ c[i] \in Nat /\ c[i] > 0 /\ Rest(c, i) > 0
                 /\ DimUnder(a, Len(c), i) \in {1, c[i]} /\ DimUnder(a, Len(c), i) \in Nat
                 /\ DimUnder(a, Len(c), i) <= c[i]
           /\ \A i \in 0 .. Len(c) : From(a, c, i) <= Rest(c, i)
           /\ Numel(a) <= Numel(c)
<1> DEFINE r == Len(c)
           ad(i) == DimUnder(a, r, i)
           A(i) == From(a, c, i)
           R(i) == Rest(c, i)
<1>1. r \in Nat /\ DOMAIN c = 1 .. r /\ Len(a) <= r
  BY StridesAre DEF RepeatsTo
<1>2. /\ A(0) = Rest(a, 0) /\ A(r) = 1 /\ \A i \in 0 .. r : A(i) \in Nat
      /\ \A i \in 1 .. r : A(i - 1) = ad(i) * A(i)
  BY <1>1, FromIs
<1>3. /\ R(r) = 1 /\ \A i \in 0 .. r : R(i) \in Nat
      /\ \A i \in 1 .. r : R(i - 1) = c[i] * R(i)
  BY RestIs
<1>4. Numel(a) = A(0) /\ Numel(c) = R(0) /\ R(0) \in Nat
  BY <1>1, <1>2, <1>3, StridesAre
<1>5. \A i \in 1 .. r : /\ c[i] \in Nat /\ c[i] > 0 /\ R(i) > 0
                        /\ ad(i) \in {1, c[i]} /\ ad(i) \in Nat /\ ad(i) <= c[i]
  <2> SUFFICES ASSUME NEW i \in 1 .. r
               PROVE  /\ c[i] \in Nat /\ c[i] > 0 /\ R(i) > 0
                      /\ ad(i) \in {1, c[i]} /\ ad(i) \in Nat /\ ad(i) <= c[i]
    OBVIOUS
  <2>1. 0 \in Offsets(c)
    BY <1>4 DEF Offsets
  <2>2. c[i] \in Nat /\ c[i] > 0 /\ R(i) > 0
    BY <2>1, CoordinatesAre, StridesAre
  <2>3. ad(i) \in {1, c[i]}
    BY DEF RepeatsTo
  <2>4. QED
    BY <2>2, <2>3
<1> HIDE DEF A, R, ad, r
<1> DEFINE C == {k \in 0 .. r : A(r - k) <= R(r - k)}
<1>6. 0 .. r \subseteq C
  <2>1. 0 \in C
    BY <1>1, <1>2, <1>3
  <2>2. ASSUME NEW k \in 0 .. r - 1, k \in C PROVE k + 1 \in C
    <3> DEFINE i == r - k
    <3>1. i \in 1 .. r /\ i \in 0 .. r /\ r - (k + 1) = i - 1 /\ k + 1 \in 0 .. r
      BY <1>1
    <3> HIDE DEF i
    <3>2. A(i) \in Nat /\ R(i) \in Nat /\ A(i - 1) = ad(i) * A(i) /\ R(i - 1) = c[i] * R(i)
      BY <1>2, <1>3, <3>1
    <3>3. A(i) <= R(i)
      BY <2>2 DEF i
    <3>4. ad(i) \in Nat /\ c[i] \in Nat /\ ad(i) <= c[i]
      BY <1>5, <3>1
    <3>5. ad(i) * A(i) <= c[i] * R(i)
      BY <3>2, <3>3, <3>4, ProductsGrow
    <3>6. A(r - (k + 1)) <= R(r - (k + 1))
      BY <3>1, <3>2, <3>5
    <3>7. QED
      BY <3>1, <3>6
  <2> HIDE DEF C
  <2>3. QED
    BY <1>1, <2>1, <2>2, UpTo
<1>7. ASSUME NEW i \in 0 .. r PROVE A(i) <= R(i)
  <2>1. r - i \in 0 .. r /\ r - (r - i) = i
    BY <1>1
  <2>2. QED
    BY <1>6, <2>1
<1> HIDE DEF C
<1>8. A(0) <= R(0)
  BY <1>1, <1>7
<1>9. QED
  BY <1>4, <1>5, <1>7, <1>8 DEF A, R, ad, r

\* When the operand has as many elements as the output, element i of the
\* output reads element i: the shortcut of reduce_to_input_shape, which only
\* compares the numbers of elements, and that of the elementwise loops for
\* equal shapes agree with the loops they replace.
THEOREM ShortcutsAgree ==
    \A a, c \in Seq(Nat) : RepeatsTo(a, c) /\ Numel(a) = Numel(c) =>
        \A idx \in Offsets(c) : OperandOffset(idx, a, c) = idx
<1> SUFFICES ASSUME NEW a \in Seq(Nat), NEW c \in Seq(Nat), RepeatsTo(a, c),
                    Numel(a) = Numel(c), NEW idx \in Offsets(c)
             PROVE  OperandOffset(idx, a, c) = idx
  OBVIOUS
<1> DEFINE r == Len(c)
           ad(i) == DimUnder(a, r, i)
           d == Decode(idx, c)
           v == [i \in DOMAIN c |-> d[i] * BroadcastStrides(a, c)[i]]
           A(i) == From(a, c, i)
           R(i) == Rest(c, i)
           B == [i \in 0 .. r |-> Behind(idx, c, i)]
<1>1. r \in Nat /\ DOMAIN c = 1 .. r /\ Len(a) <= r
  BY StridesAre DEF RepeatsTo
<1>2. /\ A(0) = Rest(a, 0) /\ A(r) = 1 /\ \A i \in 0 .. r : A(i) \in Nat
      /\ \A i \in 1 .. r : A(i - 1) = ad(i) * A(i)
  BY <1>1, FromIs
<1>3. /\ R(r) = 1 /\ \A i \in 0 .. r : R(i) \in Nat
      /\ \A i \in 1 .. r : R(i - 1) = c[i] * R(i)
  BY RestIs
<1>4. A(0) = R(0)
  BY <1>2, StridesAre
<1>5. /\ \A i \in 1 .. r : /\ c[i] \in Nat /\ c[i] > 0 /\ R(i) > 0
                           /\ ad(i) \in {1, c[i]} /\ ad(i) \in Nat /\ ad(i) <= c[i]
      /\ \A i \in 0 .. r : A(i) <= R(i)
  <2>1. Numel(c) > 0
    BY StridesAre, CoordinatesAre
  <2>2. QED
    BY <2>1, RepeatedIsSmaller
<1> HIDE DEF A, R, ad, r
<1> DEFINE D == {i \in 0 .. r : A(i) = R(i) /\ (i > 0 => ad(i) = c[i])}
<1>8. 0 .. r \subseteq D
  <2>1. 0 \in D
    BY <1>1, <1>4
  <2>2. ASSUME NEW k \in 0 .. r - 1, k \in D PROVE k + 1 \in D
    <3> DEFINE i == k + 1
    <3>1. i \in 1 .. r /\ i \in 0 .. r /\ i - 1 = k
      BY <1>1
    <3> HIDE DEF i
    <3>2. A(i) \in Nat /\ R(i) \in Nat /\ A(k) = ad(i) * A(i) /\ R(k) = c[i] * R(i)
      BY <1>2, <1>3, <3>1
    <3>3. A(i) <= R(i) /\ A(k) = R(k)
      BY <1>5, <2>2, <3>1
    <3>4. ad(i) \in Nat /\ c[i] \in Nat /\ ad(i) <= c[i] /\ c[i] > 0 /\ R(i) > 0
      BY <1>5, <3>1
    <3>5. ad(i) * A(i) = c[i] * R(i)
      BY <3>2, <3>3
    <3>6. ad(i) = c[i] /\ A(i) = R(i)
      BY <3>2, <3>3, <3>4, <3>5, FactorsAgree
    <3>7. i \in D
      BY <3>1, <3>6
    <3>8. QED
      BY <3>7 DEF i
  <2> HIDE DEF D
  <2>3. QED
    BY <1>1, <2>1, <2>2, UpTo
<1>9. /\ B[0] = idx /\ B[r] = 0 /\ \A i \in 0 .. r : B[i] \in Int
  <2>1. \A i \in 0 .. r : B[i] = Behind(idx, c, i) /\ B[i] \in 0 .. R(i) - 1
    BY CoordinatesAre DEF R, r
  <2>2. 0 \in 0 .. r /\ r \in 0 .. r
    BY <1>1
  <2> HIDE DEF B
  <2>3. B[0] = idx
    BY <2>1, <2>2 DEF Behind
  <2>4. B[r] = 0
    BY <1>3, <2>1, <2>2
  <2>5. \A i \in 0 .. r : B[i] \in Int
    BY <1>3, <2>1
  <2>6. QED
    BY <2>3, <2>4, <2>5
<1>10. ASSUME NEW i \in 1 .. r PROVE v[i] \in Int /\ v[i] + B[i] = B[i - 1]
  <2>1. /\ d[i] \in 0 .. c[i] - 1
        /\ d[i] * R(i) + Behind(idx, c, i) = Behind(idx, c, i - 1)
    BY CoordinatesAre DEF R, r
  <2>2. i \in 0 .. r /\ i - 1 \in 0 .. r
    BY <1>1
  <2>3. B[i] = Behind(idx, c, i) /\ B[i - 1] = Behind(idx, c, i - 1)
    BY <2>2
  <2>4. v[i] = d[i] * BroadcastStrides(a, c)[i]
    BY <1>1
  <2>5. A(i) = R(i) /\ ad(i) = c[i] /\ c[i] \in Nat /\ c[i] > 0 /\ R(i) \in Nat
    <3>1. A(i) = R(i) /\ ad(i) = c[i]
      BY <1>8, <2>2
    <3>2. c[i] \in Nat /\ c[i] > 0
      BY <1>5
    <3>3. R(i) \in Nat
      BY <1>3, <2>2
    <3>4. QED
      BY <3>1, <3>2, <3>3
  <2>6. BroadcastStrides(a, c)[i] = IF ad(i) = c[i] /\ ad(i) > 1 THEN A(i) ELSE 0
    BY <1>1, BroadcastStridesAre DEF ad, A, r
  <2> HIDE DEF d, v, B
  <2>7. CASE c[i] > 1
    <3>1. v[i] = d[i] * R(i)
      BY <2>4, <2>5, <2>6, <2>7
    <3>2. QED
      BY <1>9, <2>1, <2>2, <2>3, <2>5, <3>1
  <2>8. CASE ~(c[i] > 1)
    <3>1. d[i] = 0 /\ BroadcastStrides(a, c)[i] = 0
      BY <2>1, <2>5, <2>6, <2>8
    <3>2. v[i] = 0 /\ d[i] * R(i) = 0
      BY <2>4, <2>5, <3>1
    <3>3. QED
      BY <1>9, <2>1, <2>2, <2>3, <3>2
  <2>9. QED
    BY <2>7, <2>8
<1>11. OperandOffset(idx, a, c) = SumFunctionOnSet(v, 1 .. r)
  <2>1. DOMAIN v = 1 .. r
    BY <1>1
  <2>2. OperandOffset(idx, a, c) = FoldSeq(+, 0, v)
    BY DEF OperandOffset
  <2> HIDE DEF v
  <2>3. QED
    BY <2>1, <2>2, SumsAre
<1> HIDE DEF v, B
<1>12. SumFunctionOnSet(v, 1 .. r) = B[0] - B[r]
  <2>1. \A i \in 1 .. r : v[i] \in Int
    BY <1>10
  <2>2. \A i \in 0 .. r : B[i] \in Int
    BY <1>9
  <2>3. \A i \in 1 .. r : v[i] + B[i] = B[i - 1]
    BY <1>10
  <2>4. QED
    BY <1>1, <2>1, <2>2, <2>3, SumTelescopes
<1>13. idx \in Int
  BY <1>9, <1>1
<1>14. QED
  BY <1>9, <1>11, <1>12, <1>13

-----------------------------------------------------------------------------
(* Offsets and positions. *)

\* No term of a sum of numbers is above it.
LEMMA SumBounds ==
    ASSUME NEW S, IsFiniteSet(S), NEW f, \A x \in S : f[x] \in Nat
    PROVE  /\ SumFunctionOnSet(f, S) \in Nat
           /\ \A y \in S : f[y] <= SumFunctionOnSet(f, S)
<1> DEFINE C == {T \in SUBSET S : SumFunctionOnSet(f, T) \in Nat}
<1>1. {} \in C
  BY SumEmpty
<1>2. ASSUME NEW T \in C, NEW x \in S \ T PROVE T \cup {x} \in C
  <2>1. IsFiniteSet(T) /\ \A y \in T \cup {x} : f[y] \in Int
    BY FS_Subset
  <2>2. SumFunctionOnSet(f, T \cup {x}) = f[x] + SumFunctionOnSet(f, T)
    BY <2>1, SumAdd
  <2>3. QED
    BY <2>2
<1>3. SUBSET S \subseteq C
  <2> SUFFICES ASSUME NEW T \in SUBSET S PROVE T \in C
    OBVIOUS
  <2>1. IsFiniteSet(T)
    BY FS_Subset
  <2>2. \A U \in C \cap SUBSET T : \A x \in T \ U : U \cup {x} \in C \cap SUBSET T
    BY <1>2
  <2>3. {} \in C \cap SUBSET T
    BY <1>1
  <2> HIDE DEF C
  <2>4. T \in C \cap SUBSET T
    BY <2>1, <2>2, <2>3, SubsetInduction
  <2>5. QED
    BY <2>4
<1>4. ASSUME NEW y \in S PROVE f[y] <= SumFunctionOnSet(f, S)
  <2>1. SumFunctionOnSet(f, S) = f[y] + SumFunctionOnSet(f, S \ {y})
    BY SumRemove
  <2>2. SumFunctionOnSet(f, S \ {y}) \in Nat /\ f[y] \in Nat
    BY <1>3
  <2>3. QED
    BY <2>1, <2>2
<1>5. QED
  BY <1>3, <1>4

\* A position has a coordinate below the extent on every axis.
LEMMA PositionsAre ==
    ASSUME NEW s \in Seq(Nat)
    PROVE  Positions(s) = {p \in [1 .. Len(s) -> Nat] : \A i \in 1 .. Len(s) : p[i] < s[i]}
<1> DEFINE n == Len(s)
           m == SumFunctionOnSet(s, 1 .. n)
<1>1. n \in Nat /\ DOMAIN s = 1 .. n /\ \A i \in 1 .. n : s[i] \in Nat
  BY StridesAre
<1>2. FoldSeq(+, 0, s) = m
  BY <1>1, SumsAre
<1>3. m \in Nat /\ \A i \in 1 .. n : s[i] <= m
  <2>1. IsFiniteSet(1 .. n)
    BY <1>1, FS_Interval
  <2> HIDE DEF n
  <2>2. QED
    BY <1>1, <2>1, SumBounds
<1> HIDE DEF n, m
<1>4. Positions(s) = {p \in [1 .. n -> 0 .. m] : \A i \in 1 .. n : p[i] < s[i]}
  BY <1>1, <1>2 DEF Positions
<1>5. ASSUME NEW p \in [1 .. n -> Nat], \A i \in 1 .. n : p[i] < s[i]
      PROVE  p \in [1 .. n -> 0 .. m]
  <2>1. \A i \in 1 .. n : p[i] \in 0 .. m
    BY <1>1, <1>3, <1>5
  <2>2. QED
    BY <2>1
<1>6. [1 .. n -> 0 .. m] \subseteq [1 .. n -> Nat]
  BY <1>3
<1>7. QED
  BY <1>4, <1>5, <1>6 DEF n

\* What the axes behind axis k add to the offset of a position.
OffsetFrom(p, s, k) ==
    SumFunctionOnSet([i \in 1 .. Len(s) |-> p[i] * Rest(s, i)], k + 1 .. Len(s))

\* The offset that the last axes of a position contribute stays below their span.
LEMMA OffsetFromIs ==
    ASSUME NEW s \in Seq(Nat), NEW p \in Positions(s)
    PROVE  /\ \A i \in 1 .. Len(s) : p[i] \in Nat /\ s[i] \in Nat /\ p[i] < s[i]
           /\ OffsetFrom(p, s, Len(s)) = 0
           /\ \A k \in 0 .. Len(s) : /\ Rest(s, k) \in Nat /\ Rest(s, k) > 0
                                     /\ OffsetFrom(p, s, k) \in Nat
                                     /\ OffsetFrom(p, s, k) < Rest(s, k)
           /\ \A k \in 1 .. Len(s) :
                 /\ p[k] * Rest(s, k) \in Nat
                 /\ OffsetFrom(p, s, k - 1) = p[k] * Rest(s, k) + OffsetFrom(p, s, k)
<1> DEFINE n == Len(s)
           v == [i \in 1 .. n |-> p[i] * Rest(s, i)]
           R(k) == Rest(s, k)
           X(k) == OffsetFrom(p, s, k)
<1>1. n \in Nat /\ \A i \in 1 .. n : s[i] \in Nat
  BY StridesAre
<1>2. \A i \in 1 .. n : p[i] \in Nat /\ p[i] < s[i]
  BY PositionsAre
<1>3. R(n) = 1 /\ (\A i \in 0 .. n : R(i) \in Nat) /\ \A i \in 1 .. n : R(i - 1) = s[i] * R(i)
  BY RestIs
<1>4. \A k \in 0 .. n : X(k) = SumFunctionOnSet(v, k + 1 .. n)
  BY DEF OffsetFrom
<1> HIDE DEF n, R, X
<1>5. \A i \in 1 .. n : v[i] = p[i] * R(i) /\ v[i] \in Nat
  <2>1. \A i \in 1 .. n : i \in 0 .. n
    BY <1>1
  <2>2. \A i \in 1 .. n : p[i] * R(i) \in Nat
    BY <1>2, <1>3, <2>1
  <2>3. QED
    BY <2>2 DEF R
<1> HIDE DEF v
<1>6. X(n) = 0
  <2>1. n + 1 .. n = {} /\ n \in 0 .. n
    BY <1>1
  <2>2. QED
    BY <1>4, <2>1, SumEmpty
<1>7. ASSUME NEW k \in 1 .. n PROVE X(k - 1) = v[k] + X(k)
  <2>1. /\ k - 1 \in 0 .. n /\ k \in 0 .. n /\ (k - 1) + 1 = k
        /\ (k + 1 .. n) \cup {k} = k .. n /\ k \notin k + 1 .. n
    BY <1>1
  <2>2. IsFiniteSet(k + 1 .. n) /\ \A y \in (k + 1 .. n) \cup {k} : v[y] \in Int
    <3>1. k + 1 \in Int /\ n \in Int /\ \A y \in (k + 1 .. n) \cup {k} : y \in 1 .. n
      BY <1>1
    <3>2. QED
      BY <1>5, <3>1, FS_Interval
  <2>3. SumFunctionOnSet(v, (k + 1 .. n) \cup {k}) = v[k] + SumFunctionOnSet(v, k + 1 .. n)
    BY <2>1, <2>2, SumAdd
  <2>4. QED
    BY <1>4, <2>1, <2>3
<1> DEFINE C == {j \in 0 .. n : R(n - j) > 0 /\ X(n - j) \in Nat /\ X(n - j) < R(n - j)}
<1>8. 0 .. n \subseteq C
  <2>1. 0 \in C
    BY <1>1, <1>3, <1>6
  <2>2. ASSUME NEW j \in 0 .. n - 1, j \in C PROVE j + 1 \in C
    <3> DEFINE k == n - j
    <3>1. k \in 1 .. n /\ k \in 0 .. n /\ n - (j + 1) = k - 1 /\ j + 1 \in 0 .. n
      BY <1>1
    <3>2. R(k) > 0 /\ X(k) \in Nat /\ X(k) < R(k) /\ R(k) \in Nat
      BY <1>3, <2>2, <3>1
    <3> HIDE DEF k
    <3>3. s[k] \in Nat /\ p[k] \in 0 .. s[k] - 1 /\ R(k - 1) = s[k] * R(k)
      BY <1>1, <1>2, <1>3, <3>1
    <3> DEFINE a == p[k] * R(k)
               b == s[k] * R(k)
    <3>4. a \in Nat /\ b \in Nat /\ a + R(k) <= b
      BY <3>2, <3>3, MultiplesGrow
    <3>5. X(k - 1) = a + X(k) /\ R(k - 1) = b
      BY <1>5, <1>7, <3>1, <3>3
    <3> HIDE DEF a, b
    <3>6. R(k - 1) > 0 /\ X(k - 1) \in Nat /\ X(k - 1) < R(k - 1)
      BY <3>2, <3>4, <3>5
    <3>7. QED
      BY <3>1, <3>6
  <2> HIDE DEF C
  <2>3. QED
    BY <1>1, <2>1, <2>2, UpTo
<1>9. ASSUME NEW k \in 0 .. n PROVE R(k) \in Nat /\ R(k) > 0 /\ X(k) \in Nat /\ X(k) < R(k)
  <2>1. n - k \in 0 .. n /\ n - (n - k) = k
    BY <1>1
  <2>2. QED
    BY <1>3, <1>8, <2>1
<1> HIDE DEF C
<1>10. QED
  BY <1>1, <1>2, <1>5, <1>6, <1>7, <1>9 DEF n, R, X

\* The first axis on which two positions differ decides between their offsets.
LEMMA BeforeIsBelow ==
    ASSUME NEW s \in Seq(Nat), NEW p \in Positions(s), NEW q \in Positions(s), Before(q, p)
    PROVE  OffsetFrom(q, s, 0) < OffsetFrom(p, s, 0)
<1> DEFINE n == Len(s)
           R(k) == Rest(s, k)
           X(k) == OffsetFrom(p, s, k)
           Y(k) == OffsetFrom(q, s, k)
<1>1. n \in Nat
  BY StridesAre
<1>2. /\ \A i \in 1 .. n : p[i] \in Nat
      /\ \A k \in 0 .. n : R(k) \in Nat /\ R(k) > 0 /\ X(k) \in Nat /\ X(k) < R(k)
      /\ \A k \in 1 .. n : p[k] * R(k) \in Nat /\ X(k - 1) = p[k] * R(k) + X(k)
  BY OffsetFromIs
<1>3. /\ \A i \in 1 .. n : q[i] \in Nat
      /\ \A k \in 0 .. n : Y(k) \in Nat /\ Y(k) < R(k)
      /\ \A k \in 1 .. n : q[k] * R(k) \in Nat /\ Y(k - 1) = q[k] * R(k) + Y(k)
  BY OffsetFromIs
<1>4. DOMAIN q = 1 .. n
  BY PositionsAre
<1> HIDE DEF n, R, X, Y
<1>5. PICK i \in 1 .. n : q[i] < p[i] /\ \A j \in 1 .. i - 1 : q[j] = p[j]
  BY <1>4 DEF Before
<1>6. Y(i - 1) < X(i - 1)
  <2> DEFINE a == q[i] * R(i)
             b == p[i] * R(i)
  <2>1. i \in 0 .. n /\ q[i] \in 0 .. p[i] - 1 /\ p[i] \in Nat
    <3>1. q[i] \in Nat /\ p[i] \in Nat /\ q[i] < p[i]
      BY <1>2, <1>3, <1>5
    <3>2. i \in 0 .. n
      BY <1>1
    <3>3. QED
      BY <3>1, <3>2
  <2>2. R(i) \in Nat /\ X(i) \in Nat /\ Y(i) \in Nat /\ Y(i) < R(i)
    BY <1>2, <1>3, <2>1
  <2>3. a \in Nat /\ b \in Nat /\ a + R(i) <= b
    BY <2>1, <2>2, MultiplesGrow
  <2>4. Y(i - 1) = a + Y(i) /\ X(i - 1) = b + X(i)
    BY <1>2, <1>3
  <2> HIDE DEF a, b
  <2>5. QED
    BY <2>2, <2>3, <2>4
<1> DEFINE m == i - 1
           C == {j \in 0 .. m : Y(m - j) < X(m - j)}
<1>7. m \in 0 .. n /\ m \in Nat /\ m < n
  BY <1>1
<1>8. 0 .. m \subseteq C
  <2>1. 0 \in C
    BY <1>6, <1>7
  <2>2. ASSUME NEW j \in 0 .. m - 1, j \in C PROVE j + 1 \in C
    <3> DEFINE k == m - j
    <3>1. k \in 1 .. n /\ k \in 0 .. n /\ k \in 1 .. i - 1 /\ m - (j + 1) = k - 1 /\ j + 1 \in 0 .. m
      BY <1>1, <1>7
    <3>2. Y(k) < X(k)
      BY <2>2
    <3> HIDE DEF k, m
    <3>3. q[k] * R(k) = p[k] * R(k)
      BY <1>5, <3>1
    <3>4. /\ X(k - 1) = p[k] * R(k) + X(k) /\ Y(k - 1) = p[k] * R(k) + Y(k)
          /\ p[k] * R(k) \in Nat /\ X(k) \in Nat /\ Y(k) \in Nat
      BY <1>2, <1>3, <3>1, <3>3
    <3>5. Y(k - 1) < X(k - 1)
      BY <3>2, <3>4
    <3>6. QED
      BY <3>1, <3>5
  <2> HIDE DEF C, m
  <2>3. QED
    BY <1>7, <2>1, <2>2, UpTo
<1>9. m \in C /\ m - m = 0
  BY <1>7, <1>8
<1>10. QED
  BY <1>9 DEF X, Y

\* Two functions that differ differ somewhere.
LEMMA FunctionsDiffer ==
    ASSUME NEW D, NEW E, NEW f \in [D -> E], NEW g \in [D -> E], f # g
    PROVE  \E x \in D : f[x] # g[x]
<1>1. f = [x \in D |-> f[x]] /\ g = [x \in D |-> g[x]]
  OBVIOUS
<1>2. (\A x \in D : f[x] = g[x]) => [x \in D |-> f[x]] = [x \in D |-> g[x]]
  OBVIOUS
<1>3. QED
  BY <1>1, <1>2

\* Two positions of a shape are ordered.
LEMMA PositionsOrdered ==
    ASSUME NEW s \in Seq(Nat), NEW p \in Positions(s), NEW q \in Positions(s), p # q
    PROVE  Before(p, q) \/ Before(q, p)
<1> DEFINE n == Len(s)
           T == {i \in 1 .. n : p[i] # q[i]}
<1>1. n \in Nat
  BY StridesAre
<1>2. p \in [1 .. n -> Nat] /\ q \in [1 .. n -> Nat]
  BY PositionsAre
<1> HIDE DEF n
<1>3. T # {} /\ T \subseteq Nat
  <2>1. T \subseteq Nat
    BY <1>1
  <2>2. \E i \in 1 .. n : p[i] # q[i]
    <3> DEFINE D == 1 .. n
    <3>1. p \in [D -> Nat] /\ q \in [D -> Nat]
      BY <1>2
    <3> HIDE DEF D
    <3>2. \E i \in D : p[i] # q[i]
      BY <3>1, FunctionsDiffer
    <3>3. QED
      BY <3>2 DEF D
  <2>3. QED
    BY <2>1, <2>2
<1>4. PICK i \in T : \A j \in T : i <= j
  <2> HIDE DEF T
  <2>1. QED
    BY <1>3, LeastNat
<1>5. i \in 1 .. n /\ \A j \in 1 .. i - 1 : p[j] = q[j]
  <2> SUFFICES ASSUME NEW j \in 1 .. i - 1, p[j] # q[j] PROVE FALSE
    OBVIOUS
  <2>1. j \in T /\ j < i
    BY <1>1
  <2>2. QED
    BY <1>1, <1>4, <2>1
<1>6. p[i] < q[i] \/ q[i] < p[i]
  BY <1>2, <1>4
<1>7. DOMAIN p = 1 .. n /\ DOMAIN q = 1 .. n
  BY <1>2
<1>8. QED
  BY <1>5, <1>6, <1>7 DEF Before

\* The loop that finds the coordinates of an offset finds the position there.
LEMMA DecodeIsPosition ==
    ASSUME NEW s \in Seq(Nat), NEW idx \in Offsets(s)
    PROVE  Decode(idx, s) \in Positions(s) /\ OffsetFrom(Decode(idx, s), s, 0) = idx
<1> DEFINE n == Len(s)
           d == Decode(idx, s)
           R(k) == Rest(s, k)
           B(k) == Behind(idx, s, k)
           X(k) == OffsetFrom(d, s, k)
<1>1. n \in Nat /\ DOMAIN s = 1 .. n /\ \A i \in 1 .. n : s[i] \in Nat
  BY StridesAre
<1>2. /\ DOMAIN d = 1 .. n
      /\ \A k \in 0 .. n : B(k) \in 0 .. R(k) - 1
      /\ \A i \in 1 .. n : d[i] \in 0 .. s[i] - 1 /\ d[i] * R(i) + B(i) = B(i - 1)
  BY CoordinatesAre
<1>3. d = [i \in 1 .. n |-> d[i]]
  BY <1>1 DEF Decode
<1>4. d \in Positions(s)
  <2> HIDE DEF d, n
  <2>1. \A i \in 1 .. n : d[i] \in Nat /\ d[i] < s[i]
    <3> SUFFICES ASSUME NEW i \in 1 .. n PROVE d[i] \in Nat /\ d[i] < s[i]
      OBVIOUS
    <3>1. d[i] \in 0 .. s[i] - 1 /\ s[i] \in Nat
      BY <1>1, <1>2
    <3>2. QED
      BY <3>1
  <2>2. d \in [1 .. n -> Nat]
    BY <1>3, <2>1
  <2>3. QED
    BY <2>1, <2>2, PositionsAre DEF n
<1>5. X(n) = 0 /\ \A k \in 1 .. n : X(k - 1) = d[k] * R(k) + X(k)
  BY <1>4, OffsetFromIs
<1>6. R(n) = 1
  BY RestIs
<1>7. B(0) = idx
  BY DEF Behind
<1> HIDE DEF n, d, R, B, X
<1> DEFINE C == {j \in 0 .. n : X(n - j) = B(n - j)}
<1>8. 0 .. n \subseteq C
  <2>1. 0 \in C
    <3>1. B(n) \in 0 .. R(n) - 1 /\ n - 0 = n /\ 0 \in 0 .. n
      BY <1>1, <1>2
    <3>2. QED
      BY <1>5, <1>6, <3>1
  <2>2. ASSUME NEW j \in 0 .. n - 1, j \in C PROVE j + 1 \in C
    <3> DEFINE k == n - j
    <3>1. k \in 1 .. n /\ n - (j + 1) = k - 1 /\ j + 1 \in 0 .. n
      BY <1>1
    <3>2. X(k) = B(k)
      BY <2>2
    <3> HIDE DEF k
    <3>3. X(k - 1) = B(k - 1)
      BY <1>2, <1>5, <3>1, <3>2
    <3>4. QED
      BY <3>1, <3>3
  <2> HIDE DEF C
  <2>3. QED
    BY <1>1, <2>1, <2>2, UpTo
<1>9. n \in C /\ n - n = 0
  BY <1>1, <1>8
<1>10. QED
  BY <1>4, <1>7, <1>9 DEF d, X

\* The number of positions before a position is the sum of its coordinates
\* times the strides, and the offset that decodes to it.
LEMMA OffsetIs ==
    ASSUME NEW s \in Seq(Nat), NEW p \in Positions(s)
    PROVE  /\ OffsetOf(p, s) = OffsetFrom(p, s, 0)
           /\ OffsetOf(p, s) \in Offsets(s)
           /\ Decode(OffsetOf(p, s), s) = p
<1> DEFINE x == OffsetFrom(p, s, 0)
           S == {q \in Positions(s) : Before(q, p)}
           T == 0 .. x - 1
           f == [q \in S |-> OffsetFrom(q, s, 0)]
<1>0. Len(s) \in Nat /\ 0 \in 0 .. Len(s)
  BY StridesAre
<1>1. ASSUME NEW q \in Positions(s)
      PROVE  OffsetFrom(q, s, 0) \in Nat /\ OffsetFrom(q, s, 0) < Rest(s, 0) /\ Rest(s, 0) \in Nat
  BY <1>0, OffsetFromIs
<1>2. x \in Nat /\ x \in Offsets(s) /\ T \subseteq Offsets(s)
  BY <1>1, StridesAre DEF Offsets
<1>3. \A q, r \in Positions(s) : OffsetFrom(q, s, 0) = OffsetFrom(r, s, 0) => q = r
  <2> SUFFICES ASSUME NEW q \in Positions(s), NEW r \in Positions(s), q # r
               PROVE  OffsetFrom(q, s, 0) # OffsetFrom(r, s, 0)
    OBVIOUS
  <2>1. Before(q, r) \/ Before(r, q)
    BY PositionsOrdered
  <2>2. OffsetFrom(q, s, 0) < OffsetFrom(r, s, 0) \/ OffsetFrom(r, s, 0) < OffsetFrom(q, s, 0)
    BY <2>1, BeforeIsBelow
  <2>3. QED
    BY <1>1, <2>2
<1>4. f \in [S -> T]
  <2> SUFFICES ASSUME NEW q \in S PROVE OffsetFrom(q, s, 0) \in T
    OBVIOUS
  <2>1. OffsetFrom(q, s, 0) < x
    BY BeforeIsBelow
  <2>2. OffsetFrom(q, s, 0) \in Nat
    BY <1>1
  <2> HIDE DEF x
  <2>3. QED
    BY <1>2, <2>1, <2>2
<1>5. \A y \in T : \E q \in S : f[q] = y
  <2> SUFFICES ASSUME NEW y \in T PROVE \E q \in S : f[q] = y
    OBVIOUS
  <2> DEFINE d == Decode(y, s)
  <2>1. d \in Positions(s) /\ OffsetFrom(d, s, 0) = y
    BY <1>2, DecodeIsPosition
  <2>2. y < x /\ y \in Nat
    BY <1>2
  <2> HIDE DEF d, x
  <2>3. d # p /\ ~Before(p, d)
    <3>1. Before(p, d) => x < y
      BY <2>1, BeforeIsBelow DEF x
    <3>2. QED
      BY <1>2, <2>1, <2>2, <3>1 DEF x
  <2>4. d \in S
    BY <2>1, <2>3, PositionsOrdered
  <2>5. QED
    BY <2>1, <2>4
<1>6. f \in Injection(S, T) /\ f \in Surjection(S, T)
  <2>1. \A q, r \in S : f[q] = f[r] => q = r
    BY <1>3
  <2> HIDE DEF f, S, T
  <2>2. QED
    BY <1>4, <1>5, <2>1 DEF Injection, IsInjective, Surjection
<1>7. IsFiniteSet(T) /\ Cardinality(T) = x
  <2>1. 0 \in Int /\ x - 1 \in Int
    BY <1>2
  <2> HIDE DEF x
  <2>2. /\ IsFiniteSet(0 .. x - 1)
        /\ Cardinality(0 .. x - 1) = IF 0 > x - 1 THEN 0 ELSE (x - 1) - 0 + 1
    BY <2>1, FS_Interval
  <2>3. QED
    BY <1>2, <2>2
<1>8. Cardinality(S) = x
  <2> HIDE DEF S, T, x
  <2>1. QED
    BY <1>6, <1>7, FS_Injection
<1>9. OffsetOf(p, s) = x
  BY <1>8 DEF OffsetOf
<1>10. Decode(x, s) = p
  <2>1. Decode(x, s) \in Positions(s) /\ OffsetFrom(Decode(x, s), s, 0) = x
    BY <1>2, DecodeIsPosition
  <2>2. QED
    BY <1>3, <2>1
<1>11. QED
  BY <1>2, <1>9, <1>10

\* Broadcasting reads a position of the result on the axes of the operand, at 0 where it repeats.
LEMMA ProjectToIs ==
    ASSUME NEW a \in Seq(Nat), NEW c \in Seq(Nat), RepeatsTo(a, c), NEW p \in Positions(c)
    PROVE  /\ ProjectTo(p, a) \in Positions(a)
           /\ \A i \in 1 .. Len(c) - Len(a) : DimUnder(a, Len(c), i) = 1
           /\ \A j \in 1 .. Len(a) :
                 LET i == j + (Len(c) - Len(a))
                 IN  /\ i \in 1 .. Len(c) /\ DimUnder(a, Len(c), i) = a[j]
                     /\ IF a[j] = 1 THEN ProjectTo(p, a)[j] = 0
                        ELSE ProjectTo(p, a)[j] = p[i] /\ a[j] = c[i] /\ a[j] > 1
<1> DEFINE r == Len(c)
           m == Len(a)
           off == r - m
           t == ProjectTo(p, a)
<1>1. /\ r \in Nat /\ m \in Nat /\ m <= r /\ DOMAIN a = 1 .. m
      /\ \A i \in 1 .. r : c[i] \in Nat
      /\ \A j \in 1 .. m : a[j] \in Nat
  BY StridesAre DEF RepeatsTo
<1>2. p \in [1 .. r -> Nat] /\ \A i \in 1 .. r : p[i] \in Nat /\ p[i] < c[i]
  <2>1. p \in {q \in [1 .. r -> Nat] : \A i \in 1 .. r : q[i] < c[i]}
    BY PositionsAre
  <2>2. QED
    BY <2>1
<1>3. Len(p) = r
  <2>1. DOMAIN p = 1 .. r /\ p \in Seq(Nat)
    BY <1>1, <1>2
  <2>2. QED
    BY <1>1, <2>1, LenProperties
<1> HIDE DEF r, m
<1>4. ASSUME NEW i \in 1 .. off PROVE DimUnder(a, r, i) = 1
  <2>1. i \in 1 .. r /\ i <= r - m
    BY <1>1
  <2>2. QED
    BY <1>1, <2>1, AxesUnder DEF m
<1>5. ASSUME NEW j \in 1 .. m
      PROVE  /\ j + off \in 1 .. r /\ DimUnder(a, r, j + off) = a[j]
             /\ IF a[j] = 1 THEN t[j] = 0
                ELSE t[j] = p[j + off] /\ a[j] = c[j + off] /\ a[j] > 1
  <2> DEFINE i == j + off
  <2>1. i \in 1 .. r /\ i > r - m /\ i - (r - m) = j /\ j + r - m = i
    BY <1>1
  <2> HIDE DEF i
  <2>2. DimUnder(a, r, i) = a[j]
    BY <1>1, <2>1, AxesUnder DEF m
  <2>3. t[j] = IF a[j] = 1 THEN 0 ELSE p[i]
    BY <1>1, <1>3, <2>1 DEF ProjectTo, m
  <2>4. a[j] \in {1, c[i]}
    BY <2>1, <2>2 DEF RepeatsTo, r
  <2>5. p[i] \in Nat /\ p[i] < c[i] /\ c[i] \in Nat
    BY <1>1, <1>2, <2>1
  <2> HIDE DEF t
  <2>6. IF a[j] = 1 THEN t[j] = 0 ELSE t[j] = p[i] /\ a[j] = c[i] /\ a[j] > 1
    BY <2>3, <2>4, <2>5
  <2>7. QED
    BY <2>1, <2>2, <2>6 DEF i
<1>6. t \in Positions(a)
  <2>1. ASSUME NEW j \in 1 .. m PROVE t[j] \in Nat /\ t[j] < a[j]
    <3>1. /\ j + off \in 1 .. r
          /\ IF a[j] = 1 THEN t[j] = 0
             ELSE t[j] = p[j + off] /\ a[j] = c[j + off] /\ a[j] > 1
      BY <1>5
    <3> HIDE DEF t, off
    <3>2. QED
      BY <1>2, <3>1
  <2>2. t = [j \in 1 .. m |-> t[j]]
    BY <1>1 DEF ProjectTo
  <2> HIDE DEF t
  <2>3. t \in [1 .. m -> Nat]
    BY <2>1, <2>2
  <2>4. QED
    BY <2>1, <2>3, PositionsAre DEF m
<1>7. QED
  BY <1>4, <1>5, <1>6 DEF r, m

\* A broadcasting loop reads, for the element at a position of the output,
\* the element of the operand at that position without the axes and the
\* coordinates that are repeated.
LEMMA ReadsProjected ==
    ASSUME NEW a \in Seq(Nat), NEW c \in Seq(Nat), RepeatsTo(a, c), NEW p \in Positions(c)
    PROVE  OperandOffset(OffsetOf(p, c), a, c) = OffsetOf(ProjectTo(p, a), a)
<1> DEFINE r == Len(c)
           m == Len(a)
           off == r - m
           t == ProjectTo(p, a)
           v == [i \in DOMAIN c |-> p[i] * BroadcastStrides(a, c)[i]]
           X(k) == OffsetFrom(t, a, k)
           B == [i \in 0 .. r |-> IF i <= off THEN X(0) ELSE X(i - off)]
<1>1. r \in Nat /\ m \in Nat /\ m <= r /\ DOMAIN c = 1 .. r /\ off \in 0 .. r
  BY StridesAre DEF RepeatsTo
<1>2. /\ t \in Positions(a)
      /\ \A i \in 1 .. off : DimUnder(a, r, i) = 1
      /\ \A j \in 1 .. m :
            /\ j + off \in 1 .. r /\ DimUnder(a, r, j + off) = a[j]
            /\ IF a[j] = 1 THEN t[j] = 0
               ELSE t[j] = p[j + off] /\ a[j] = c[j + off] /\ a[j] > 1
  BY ProjectToIs
<1>3. OffsetOf(t, a) = X(0)
  BY <1>2, OffsetIs
<1>4. OperandOffset(OffsetOf(p, c), a, c) = SumFunctionOnSet(v, 1 .. r)
  <2>1. Decode(OffsetOf(p, c), c) = p
    BY OffsetIs
  <2>2. OperandOffset(OffsetOf(p, c), a, c) = FoldSeq(+, 0, v)
    BY <2>1 DEF OperandOffset
  <2>3. DOMAIN v = 1 .. r
    BY <1>1
  <2> HIDE DEF v
  <2>4. QED
    BY <2>2, <2>3, SumsAre
<1>5. /\ X(m) = 0
      /\ \A k \in 0 .. m : X(k) \in Nat /\ Rest(a, k) \in Nat
      /\ \A k \in 1 .. m : X(k - 1) = t[k] * Rest(a, k) + X(k)
  BY <1>2, OffsetFromIs
<1>6. \A i \in 1 .. r : p[i] \in Nat
  BY PositionsAre
<1>7. \A i \in 1 .. r : v[i] = p[i] * BroadcastStrides(a, c)[i]
  BY <1>1
<1>8. ASSUME NEW i \in 1 .. r
      PROVE  BroadcastStrides(a, c)[i]
               = IF DimUnder(a, r, i) = c[i] /\ DimUnder(a, r, i) > 1 THEN From(a, c, i) ELSE 0
  BY <1>1, BroadcastStridesAre
<1> HIDE DEF t, X, v
<1>9. B[0] = X(0) /\ B[r] = 0
  <2>1. 0 \in 0 .. r /\ r \in 0 .. r /\ 0 <= off
    BY <1>1
  <2>2. B[0] = X(0)
    BY <2>1
  <2>3. CASE r <= off
    <3>1. m = 0 /\ B[r] = X(0)
      BY <1>1, <2>1, <2>3
    <3>2. QED
      BY <1>5, <2>2, <3>1
  <2>4. CASE ~(r <= off)
    <3>1. r - off = m /\ B[r] = X(r - off)
      BY <1>1, <2>1, <2>4
    <3>2. QED
      BY <1>5, <2>2, <3>1
  <2>5. QED
    BY <2>3, <2>4
<1>10. ASSUME NEW i \in 0 .. r PROVE B[i] \in Nat
  <2>1. CASE i <= off
    BY <1>1, <1>5, <2>1
  <2>2. CASE ~(i <= off)
    <3>1. i - off \in 0 .. m /\ B[i] = X(i - off)
      BY <1>1, <2>2
    <3>2. QED
      BY <1>5, <3>1
  <2>3. QED
    BY <2>1, <2>2
<1>11. ASSUME NEW i \in 1 .. r PROVE v[i] \in Int /\ v[i] + B[i] = B[i - 1]
  <2>1. i \in 0 .. r /\ i - 1 \in 0 .. r
    BY <1>1
  <2>2. B[i] \in Nat /\ B[i - 1] \in Nat /\ p[i] \in Nat
    BY <1>6, <1>10, <2>1
  <2>3. CASE i <= off
    <3>1. i \in 1 .. off /\ i - 1 <= off
      BY <1>1, <2>3
    <3>2. BroadcastStrides(a, c)[i] = 0
      BY <1>2, <1>8, <3>1
    <3>3. v[i] = 0
      BY <1>7, <2>2, <3>2
    <3>4. B[i] = X(0) /\ B[i - 1] = X(0)
      BY <2>1, <2>3, <3>1
    <3> HIDE DEF B
    <3>5. QED
      BY <2>2, <3>3, <3>4
  <2>4. CASE ~(i <= off)
    <3> DEFINE j == i - off
    <3>1. j \in 1 .. m /\ j + off = i /\ j \in 0 .. m /\ (i - 1) - off = j - 1
      BY <1>1, <2>4
    <3>2. B[i] = X(j)
      BY <2>1, <2>4
    <3>3. B[i - 1] = X(j - 1)
      <4>1. i - 1 <= off => j - 1 = 0
        <5>1. off \in Int /\ i \in Int /\ j = i - off /\ ~(i <= off)
          BY <1>1, <2>4
        <5> HIDE DEF off, j
        <5>2. QED
          BY <5>1
      <4>2. QED
        BY <2>1, <3>1, <4>1
    <3> HIDE DEF j, B
    <3>4. From(a, c, i) = Rest(a, j)
      BY <2>4 DEF From, j
    <3>5. /\ DimUnder(a, r, i) = a[j]
          /\ IF a[j] = 1 THEN t[j] = 0 ELSE t[j] = p[i] /\ a[j] = c[i] /\ a[j] > 1
      BY <1>2, <3>1
    <3>6. v[i] = t[j] * Rest(a, j)
      <4>1. Rest(a, j) \in Nat
        BY <1>5, <3>1
      <4>2. CASE a[j] = 1
        <5>1. BroadcastStrides(a, c)[i] = 0
          BY <1>8, <3>5, <4>2
        <5>2. QED
          BY <1>7, <2>2, <3>5, <4>1, <4>2, <5>1
      <4>3. CASE a[j] # 1
        <5>1. BroadcastStrides(a, c)[i] = Rest(a, j)
          BY <1>8, <3>4, <3>5, <4>3
        <5>2. QED
          BY <1>7, <3>5, <4>3, <5>1
      <4>4. QED
        BY <4>2, <4>3
    <3>7. X(j - 1) = v[i] + X(j) /\ v[i] \in Nat
      <4>1. t[j] \in Nat
        BY <2>2, <3>5
      <4>4. Rest(a, j) \in Nat
        BY <1>5, <3>1
      <4>2. t[j] * Rest(a, j) \in Nat
        BY <4>1, <4>4, MultiplesGrow
      <4>3. QED
        BY <1>5, <3>1, <3>6, <4>2
    <3>8. QED
      BY <3>2, <3>3, <3>7
  <2>5. QED
    BY <2>3, <2>4
<1> HIDE DEF B, r, m, off
<1>12. SumFunctionOnSet(v, 1 .. r) = B[0] - B[r]
  <2>1. \A i \in 1 .. r : v[i] \in Int
    BY <1>11
  <2>2. \A i \in 0 .. r : B[i] \in Int
    BY <1>10
  <2>3. \A i \in 1 .. r : v[i] + B[i] = B[i - 1]
    BY <1>11
  <2>4. QED
    BY <1>1, <2>1, <2>2, <2>3, SumTelescopes
<1>13. B[0] \in Nat
  BY <1>1, <1>10
<1>14. QED
  BY <1>3, <1>4, <1>9, <1>12, <1>13 DEF t

\* A function on 1 .. n is a sequence.
LEMMA ShapeOf ==
    ASSUME NEW n \in Nat, NEW S, NEW c \in [1 .. n -> S]
    PROVE  c \in Seq(S) /\ Len(c) = n
<1>1. c \in Seq(S) /\ DOMAIN c = 1 .. n
  OBVIOUS
<1>2. Len(c) \in Nat /\ DOMAIN c = 1 .. Len(c)
  BY <1>1, LenProperties
<1>3. QED
  BY <1>1, <1>2

\* The shape two shapes broadcast to is the one that both are repeated to.
LEMMA BroadcastIs ==
    ASSUME NEW a \in Seq(Nat), NEW b \in Seq(Nat)
    PROVE  /\ RightBroadcasts(a, b) = IF Broadcastable(a, b) THEN {BroadcastShape(a, b)} ELSE {}
           /\ BroadcastShape(a, b) \in Seq(Nat)
           /\ Len(BroadcastShape(a, b)) = BroadcastRank(a, b)
           /\ Broadcastable(a, b) => /\ RepeatsTo(a, BroadcastShape(a, b))
                                     /\ RepeatsTo(b, BroadcastShape(a, b))
<1> DEFINE n == BroadcastRank(a, b)
           x(i) == DimUnder(a, n, i)
           y(i) == DimUnder(b, n, i)
           c == BroadcastShape(a, b)
           Right(i, t) == /\ x(i) # t => x(i) = 1 /\ t = y(i)
                          /\ y(i) # t => y(i) = 1 /\ t = x(i)
           U == UNION {{x(i), y(i)} : i \in 1 .. n}
<1>1. n \in Nat /\ Len(a) <= n /\ Len(b) <= n
  <2>1. Len(a) \in Nat /\ Len(b) \in Nat
    BY StridesAre
  <2>2. QED
    BY <2>1 DEF BroadcastRank
<1>2. \A i \in 1 .. n : x(i) \in Nat /\ y(i) \in Nat
  BY <1>1, AxesUnder
<1>3. c = [i \in 1 .. n |-> IF x(i) = 1 THEN y(i) ELSE x(i)]
  BY DEF BroadcastShape
<1>4. Broadcastable(a, b) <=> \A i \in 1 .. n : x(i) = y(i) \/ x(i) = 1 \/ y(i) = 1
  BY DEF Broadcastable
<1>5. RightBroadcasts(a, b) = {t \in [1 .. n -> U] : \A i \in 1 .. n : Right(i, t[i])}
  <2> DEFINE dims == [i \in 1 .. n |-> <<x(i), y(i)>>]
  <2>1. \A i \in 1 .. n : dims[i][1] = x(i) /\ dims[i][2] = y(i)
    OBVIOUS
  <2>2. \A i \in 1 .. n : {dims[i][1], dims[i][2]} = {x(i), y(i)}
    BY <2>1
  <2>3. UNION {{dims[i][1], dims[i][2]} : i \in 1 .. n} = U
    BY <2>2
  <2>4. \A i \in 1 .. n : \A t :
          (\A k \in {1, 2} : dims[i][k] # t => dims[i][k] = 1 /\ t = dims[i][3 - k])
            <=> Right(i, t)
    <3> SUFFICES ASSUME NEW i \in 1 .. n, NEW t
                 PROVE  (\A k \in {1, 2} : dims[i][k] # t => dims[i][k] = 1 /\ t = dims[i][3 - k])
                          <=> Right(i, t)
      OBVIOUS
    <3>1. 3 - 1 = 2 /\ 3 - 2 = 1
      OBVIOUS
    <3> HIDE DEF dims, x, y
    <3>2. QED
      BY <2>1, <3>1
  <2>5. RightBroadcasts(a, b)
          = {t \in [1 .. n -> UNION {{dims[i][1], dims[i][2]} : i \in 1 .. n}] :
                \A i \in 1 .. n, k \in {1, 2} :
                   dims[i][k] # t[i] => dims[i][k] = 1 /\ t[i] = dims[i][3 - k]}
    BY Zenon DEF RightBroadcasts
  <2> HIDE DEF dims, x, y, U, Right
  <2>6. \A t : (\A i \in 1 .. n, k \in {1, 2} :
                   dims[i][k] # t[i] => dims[i][k] = 1 /\ t[i] = dims[i][3 - k])
                 <=> \A i \in 1 .. n : Right(i, t[i])
    BY <2>4
  <2>7. QED
    BY <2>3, <2>5, <2>6
<1>6. \A i \in 1 .. n : \A t : Right(i, t) <=> /\ x(i) = y(i) \/ x(i) = 1 \/ y(i) = 1
                                               /\ t = IF x(i) = 1 THEN y(i) ELSE x(i)
  OBVIOUS
<1>7. \A i \in 1 .. n : c[i] \in U /\ c[i] \in Nat
  BY <1>2, <1>3
<1>8. c \in [1 .. n -> U] /\ c \in [1 .. n -> Nat]
  BY <1>3, <1>7
<1>9. c \in Seq(Nat) /\ Len(c) = n
  <2> HIDE DEF c, n
  <2>1. QED
    BY <1>1, <1>8, ShapeOf
<1>10. ASSUME Broadcastable(a, b) PROVE RepeatsTo(a, c) /\ RepeatsTo(b, c)
  <2>1. \A i \in 1 .. n : x(i) \in {1, c[i]} /\ y(i) \in {1, c[i]}
    BY <1>3, <1>4, <1>10
  <2>2. QED
    BY <1>1, <1>9, <2>1 DEF RepeatsTo
<1> HIDE DEF c, U, n, x, y, Right
<1>11. CASE Broadcastable(a, b)
  <2>1. \A i \in 1 .. n : \A t : Right(i, t) <=> t = c[i]
    BY <1>3, <1>4, <1>6, <1>11
  <2>2. c \in RightBroadcasts(a, b)
    BY <1>5, <1>8, <2>1
  <2>3. ASSUME NEW t \in RightBroadcasts(a, b) PROVE t = c
    <3>1. t \in [1 .. n -> U] /\ \A i \in 1 .. n : t[i] = c[i]
      BY <1>5, <2>1
    <3> DEFINE D == 1 .. n
    <3>2. t \in [D -> U] /\ c \in [D -> U] /\ \A i \in D : t[i] = c[i]
      BY <1>8, <3>1
    <3> HIDE DEF D
    <3>3. QED
      BY <3>2, FunctionsDiffer
  <2>4. RightBroadcasts(a, b) = {c}
    BY <2>2, <2>3
  <2>5. QED
    BY <1>9, <1>10, <1>11, <2>4 DEF c, n
<1>12. CASE ~Broadcastable(a, b)
  <2>1. PICK i \in 1 .. n : ~(x(i) = y(i) \/ x(i) = 1 \/ y(i) = 1)
    BY <1>4, <1>12
  <2>2. \A t : ~Right(i, t)
    BY <1>6, <2>1
  <2>3. RightBroadcasts(a, b) = {}
    BY <1>5, <2>2
  <2>4. QED
    BY <1>9, <1>12, <2>3 DEF c, n
<1>13. QED
  BY <1>11, <1>12

-----------------------------------------------------------------------------
(* Elements of the outputs. *)

LEMMA RepeatsToItself ==
    ASSUME NEW c \in Seq(Nat)
    PROVE  RepeatsTo(c, c) /\ BroadcastShape(c, c) = c
<1> DEFINE n == Len(c)
<1>1. n \in Nat /\ DOMAIN c = 1 .. n /\ n <= n
  BY StridesAre
<1>2. \A i \in 1 .. n : DimUnder(c, n, i) = c[i]
  <2> SUFFICES ASSUME NEW i \in 1 .. n PROVE DimUnder(c, n, i) = c[i]
    OBVIOUS
  <2>1. i > n - Len(c) /\ i - (n - Len(c)) = i
    BY <1>1
  <2>2. QED
    BY <1>1, <2>1, AxesUnder
<1>3. RepeatsTo(c, c)
  BY <1>1, <1>2 DEF RepeatsTo
<1>4. BroadcastRank(c, c) = n
  BY DEF BroadcastRank
<1>5. BroadcastShape(c, c) = [i \in 1 .. n |-> c[i]]
  <2> HIDE DEF n
  <2>1. BroadcastShape(c, c)
          = [i \in 1 .. n |-> IF DimUnder(c, n, i) = 1 THEN DimUnder(c, n, i) ELSE DimUnder(c, n, i)]
    BY <1>4 DEF BroadcastShape
  <2>2. QED
    BY <1>2, <2>1
<1>6. c = [i \in 1 .. n |-> c[i]]
  BY <1>1
<1>7. QED
  BY <1>3, <1>5, <1>6

\* An array of the shape of the output is read where it is written.
LEMMA ReadsInPlace ==
    ASSUME NEW c \in Seq(Nat)
    PROVE  /\ \A i \in Offsets(c) : OperandOffset(i, c, c) = i
           /\ \A p \in Positions(c) : OffsetOf(ProjectTo(p, c), c) = OffsetOf(p, c)
<1>1. RepeatsTo(c, c)
  BY RepeatsToItself
<1>2. \A i \in Offsets(c) : OperandOffset(i, c, c) = i
  BY <1>1, ShortcutsAgree
<1>3. ASSUME NEW p \in Positions(c) PROVE OffsetOf(ProjectTo(p, c), c) = OffsetOf(p, c)
  <2>1. OffsetOf(p, c) \in Offsets(c)
    BY OffsetIs
  <2>2. OperandOffset(OffsetOf(p, c), c, c) = OffsetOf(ProjectTo(p, c), c)
    BY <1>1, ReadsProjected
  <2>3. QED
    BY <1>2, <2>1, <2>2
<1>4. QED
  BY <1>2, <1>3

\* The loops of the elementwise ops, with the shortcut for equal shapes where
\* it covers the output.
LEMMA RunBinaryIs ==
    ASSUME NEW op, NEW a, NEW b, NEW c \in Seq(Nat),
           a.shape \in Seq(Nat), b.shape \in Seq(Nat),
           RepeatsTo(a.shape, c), RepeatsTo(b.shape, c),
           a.shape = b.shape => Numel(a.shape) = Numel(c)
    PROVE  RunBinary(op, a, b, c)
             = [shape |-> c,
                data  |-> [i \in Offsets(c) |->
                              Scalar(op, a.data[OperandOffset(i, a.shape, c)],
                                         b.data[OperandOffset(i, b.shape, c)])]]
<1>1. CASE a.shape = b.shape
  <2>1. \A i \in Offsets(c) : OperandOffset(i, a.shape, c) = i /\ OperandOffset(i, b.shape, c) = i
    BY <1>1, ShortcutsAgree
  <2>2. Numel(c) \in Nat
    BY StridesAre, RestIs
  <2>3. \A i \in Offsets(c) : i < Numel(a.shape)
    BY <1>1, <2>2 DEF Offsets
  <2>4. \A i \in Offsets(c) :
           (IF i < Numel(a.shape) THEN Scalar(op, a.data[i], b.data[i]) ELSE 0)
             = Scalar(op, a.data[OperandOffset(i, a.shape, c)], b.data[OperandOffset(i, b.shape, c)])
    BY <2>1, <2>3
  <2>5. RunBinary(op, a, b, c)
          = [shape |-> c, data |-> [i \in Offsets(c) |->
                IF i < Numel(a.shape) THEN Scalar(op, a.data[i], b.data[i]) ELSE 0]]
    BY <1>1 DEF RunBinary, Tensor
  <2>6. [i \in Offsets(c) |-> IF i < Numel(a.shape) THEN Scalar(op, a.data[i], b.data[i]) ELSE 0]
          = [i \in Offsets(c) |-> Scalar(op, a.data[OperandOffset(i, a.shape, c)],
                                             b.data[OperandOffset(i, b.shape, c)])]
    BY <2>4
  <2>7. QED
    BY <2>5, <2>6
<1>2. CASE a.shape # b.shape
  BY <1>2 DEF RunBinary, Tensor
<1>3. QED
  BY <1>1, <1>2

\* A sequence of two numbers is its two elements.
LEMMA PairIs ==
    \A s \in Seq(Nat) : Len(s) = 2 => s = <<s[1], s[2]>>
<1> SUFFICES ASSUME NEW s \in Seq(Nat), Len(s) = 2 PROVE s = <<s[1], s[2]>>
  OBVIOUS
<1>1. s \in [1 .. 2 -> Nat]
  BY LenProperties
<1>2. \A i \in 1 .. 2 : i = 1 \/ i = 2
  OBVIOUS
<1>3. QED
  BY <1>1, <1>2

\* The elements of a matrix.
LEMMA MatrixOffset ==
    ASSUME NEW M \in Nat, NEW N \in Nat, NEW p
    PROVE  /\ <<M, N>> \in Seq(Nat) /\ Numel(<<M, N>>) = M * N
           /\ p \in Positions(<<M, N>>) =>
                 /\ p[1] \in 0 .. M - 1 /\ p[2] \in 0 .. N - 1
                 /\ OffsetOf(p, <<M, N>>) = p[1] * N + p[2]
           /\ \A i \in 0 .. M - 1, j \in 0 .. N - 1 :
                 /\ <<i, j>> \in Positions(<<M, N>>)
                 /\ OffsetOf(<<i, j>>, <<M, N>>) = i * N + j
<1> DEFINE s == <<M, N>>
<1>1. s \in Seq(Nat) /\ Len(s) = 2 /\ s[1] = M /\ s[2] = N
  OBVIOUS
<1> HIDE DEF s
<1>2. Rest(s, 2) = 1 /\ Rest(s, 1) = N /\ Rest(s, 0) = M * N /\ Numel(s) = M * N
  <2>1. /\ Rest(s, Len(s)) = 1
        /\ \A i \in 1 .. Len(s) : Rest(s, i - 1) = s[i] * Rest(s, i)
    BY <1>1, RestIs
  <2>2. Rest(s, 2) = 1
    BY <1>1, <2>1
  <2>3. Rest(s, 1) = N
    <3>1. 2 \in 1 .. Len(s) /\ 2 - 1 = 1
      BY <1>1
    <3>2. Rest(s, 1) = N * 1
      BY <1>1, <2>1, <2>2, <3>1
    <3>3. QED
      BY <3>2
  <2>4. Rest(s, 0) = M * N
    <3>1. 1 \in 1 .. Len(s) /\ 1 - 1 = 0
      BY <1>1
    <3>2. QED
      BY <1>1, <2>1, <2>3, <3>1
  <2>5. Numel(s) = Rest(s, 0)
    BY <1>1, StridesAre
  <2>6. QED
    BY <2>2, <2>3, <2>4, <2>5
<1>3. ASSUME NEW q \in Positions(s)
      PROVE  q[1] \in 0 .. M - 1 /\ q[2] \in 0 .. N - 1 /\ OffsetOf(q, s) = q[1] * N + q[2]
  <2>1. /\ \A i \in 1 .. Len(s) : q[i] \in Nat /\ q[i] < s[i]
        /\ OffsetFrom(q, s, Len(s)) = 0
        /\ \A k \in 1 .. Len(s) : OffsetFrom(q, s, k - 1) = q[k] * Rest(s, k) + OffsetFrom(q, s, k)
    BY <1>1, OffsetFromIs
  <2>2. 1 \in 1 .. Len(s) /\ 2 \in 1 .. Len(s) /\ 1 - 1 = 0 /\ 2 - 1 = 1
    BY <1>1
  <2>3. q[1] \in Nat /\ q[2] \in Nat /\ q[1] < M /\ q[2] < N
    BY <1>1, <2>1, <2>2
  <2>4. OffsetFrom(q, s, 1) = q[2] * 1 + 0 /\ OffsetFrom(q, s, 0) = q[1] * N + OffsetFrom(q, s, 1)
    BY <1>1, <1>2, <2>1, <2>2
  <2>5. OffsetOf(q, s) = OffsetFrom(q, s, 0)
    BY <1>1, OffsetIs
  <2>6. QED
    BY <2>3, <2>4, <2>5
<1>4. ASSUME NEW i \in 0 .. M - 1, NEW j \in 0 .. N - 1 PROVE <<i, j>> \in Positions(s)
  <2>1. /\ <<i, j>> \in [1 .. 2 -> Nat] /\ \A k \in 1 .. 2 : <<i, j>>[k] < s[k]
    <3>1. \A k \in 1 .. 2 : k = 1 \/ k = 2
      OBVIOUS
    <3>2. i \in Nat /\ j \in Nat /\ i < M /\ j < N
      OBVIOUS
    <3>3. QED
      BY <1>1, <3>1, <3>2
  <2>2. QED
    BY <1>1, <2>1, PositionsAre
<1>5. \A i \in 0 .. M - 1, j \in 0 .. N - 1 : OffsetOf(<<i, j>>, s) = i * N + j
  BY <1>3, <1>4
<1>6. QED
  BY <1>1, <1>2, <1>3, <1>4, <1>5 DEF s

-----------------------------------------------------------------------------
(* The calls of one op. *)

\* The ops whose forwards are compared with their formulas here.
Direct == Elementwise \cup Unary \cup {"sum", "mean", "softmax", "matmul"}

\* What the op of such a call is given.
Args(c) == [k \in DOMAIN c.shapes |-> Filled(c.shapes[k], k)]

\* What is recorded of such a call.
OpOf(c) == Joined([args |-> [k \in DOMAIN c.shapes |-> k]], c)

\* A direct call runs one op, on its own arguments.
LEMMA DirectOps ==
    ASSUME NEW c \in Calls, c.op \in Direct
    PROVE  /\ OpsOf(c) = <<OpOf(c)>>
           /\ OpOf(c).op = c.op
           /\ OpOf(c).args = [k \in DOMAIN c.shapes |-> k]
           /\ c.op \notin Unrecorded /\ c.op \notin Constants
<1>1. {"op", "shapes"} \subseteq DOMAIN c
  BY CallsAssumption
<1>2. OpOf(c) = [x \in (DOMAIN [args |-> [k \in DOMAIN c.shapes |-> k]]) \cup (DOMAIN c) |->
                    IF x \in DOMAIN [args |-> [k \in DOMAIN c.shapes |-> k]]
                    THEN [args |-> [k \in DOMAIN c.shapes |-> k]][x] ELSE c[x]]
  BY DEF OpOf, Joined
<1>3. DOMAIN [args |-> [k \in DOMAIN c.shapes |-> k]] = {"args"}
  OBVIOUS
<1>4. OpOf(c).op = c.op /\ OpOf(c).args = [k \in DOMAIN c.shapes |-> k]
  BY <1>1, <1>2, <1>3
<1>5. OpsOf(c) = <<OpOf(c)>>
  BY DEF OpsOf, OpOf, Direct, Elementwise, Unary
<1>6. c.op \notin Unrecorded /\ c.op \notin Constants
  BY DEF Unrecorded, Constants, Direct, Elementwise, Unary
<1>7. QED
  BY <1>4, <1>5, <1>6

\* What these ops do depends on their name alone.
LEMMA DirectOnly ==
    ASSUME NEW c, NEW d, c.op = d.op, d.op \in Direct
    PROVE  /\ \A s : Accepts(c, s) = Accepts(d, s)
           /\ \A in : Computed(c, in) = Computed(d, in)
<1>1. \A s : Accepts(c, s) = Accepts(d, s)
  BY Zenon DEF Accepts, Direct, Elementwise, Unary
<1>2. \A in : Computed(c, in) = Computed(d, in)
  BY Zenon DEF Computed, Direct, Elementwise, Unary
<1>3. QED
  BY <1>1, <1>2

\* The arguments of a call have the shapes that it names.
LEMMA ArgsAre ==
    ASSUME NEW c \in Calls
    PROVE  /\ Len(c.shapes) \in Nat /\ DOMAIN c.shapes = 1 .. Len(c.shapes)
           /\ Len(Args(c)) = Len(c.shapes) /\ DOMAIN Args(c) = 1 .. Len(c.shapes)
           /\ Args(c) \in Seq({Args(c)[k] : k \in 1 .. Len(c.shapes)})
           /\ \A k \in DOMAIN c.shapes :
                 /\ c.shapes[k] \in Seq(Nat) /\ Args(c)[k].shape = c.shapes[k]
                 /\ Args(c)[k] = Filled(c.shapes[k], k)
<1> DEFINE n == Len(c.shapes)
<1>1. c.shapes \in Seq(Seq(Nat))
  BY CallsAssumption
<1>2. n \in Nat /\ DOMAIN c.shapes = 1 .. n /\ \A k \in DOMAIN c.shapes : c.shapes[k] \in Seq(Nat)
  BY <1>1, LenProperties, ElementOf
<1>3. Args(c) = [k \in 1 .. n |-> Filled(c.shapes[k], k)]
  BY <1>2 DEF Args
<1> DEFINE S == {Args(c)[k] : k \in 1 .. n}
<1>4. Args(c) \in [1 .. n -> S]
  BY <1>3
<1>5. Args(c) \in Seq(S) /\ Len(Args(c)) = n
  <2> HIDE DEF S, n
  <2>1. QED
    BY <1>2, <1>4, ShapeOf
<1>6. \A k \in DOMAIN c.shapes : Args(c)[k].shape = c.shapes[k]
  BY <1>2, <1>3 DEF Filled, Tensor
<1>7. QED
  BY <1>2, <1>3, <1>5, <1>6

\* The states of a direct call: what is given, and once it was accepted what
\* its op makes of that.
CallInv ==
    /\ call \in Calls
    /\ pc \in {"forward", "thrown", "recorded", "backward", "done"}
    /\ call.op \in Direct =>
          /\ pc = "forward" => values = Args(call)
          /\ pc = "thrown" => ~Accepts(call, call.shapes)
          /\ pc \in {"recorded", "backward", "done"} =>
                /\ Accepts(call, call.shapes)
                /\ values = Append(Args(call), Computed(call, Args(call)))

\* A call starts with its arguments only.
LEMMA CallInvInit == Init => CallInv
BY DEF Init, CallInv, Args

\* In the state before the op.
LEMMA DirectForward ==
    ASSUME CallInv, call.op \in Direct, pc = "forward"
    PROVE  /\ Len(values) = Len(call.shapes) /\ Len(OpsOf(call)) = 1
           /\ Len(call.shapes) \in Nat
           /\ Accepts(NextOp, [k \in DOMAIN NextOp.args |-> Given(NextOp)[k].shape])
                = Accepts(call, call.shapes)
           /\ Computed(NextOp, Given(NextOp)) = Computed(call, Args(call))
           /\ Len(Append(values, Computed(call, Args(call)))) = Len(call.shapes) + 1
<1>1. call \in Calls /\ values = Args(call)
  BY DEF CallInv
<1>2. /\ OpsOf(call) = <<OpOf(call)>> /\ OpOf(call).op = call.op
      /\ OpOf(call).args = [k \in DOMAIN call.shapes |-> k]
  BY <1>1, DirectOps
<1>3. /\ Len(values) = Len(call.shapes) /\ Len(call.shapes) \in Nat
      /\ \A k \in DOMAIN call.shapes : values[k].shape = call.shapes[k]
      /\ DOMAIN values = DOMAIN call.shapes
      /\ call.shapes = [k \in DOMAIN call.shapes |-> call.shapes[k]]
  <2>1. call.shapes \in Seq(Seq(Nat))
    BY <1>1, CallsAssumption
  <2>2. /\ Len(values) = Len(call.shapes) /\ Len(call.shapes) \in Nat
        /\ DOMAIN values = DOMAIN call.shapes
        /\ \A k \in DOMAIN call.shapes : values[k].shape = call.shapes[k]
    BY <1>1, ArgsAre
  <2>3. call.shapes = [k \in DOMAIN call.shapes |-> call.shapes[k]]
    BY <2>1
  <2>4. QED
    BY <2>2, <2>3
<1>4. NextOp = OpOf(call)
  <2>1. Len(values) - Len(call.shapes) + 1 = 1
    BY <1>3
  <2>2. <<OpOf(call)>>[1] = OpOf(call)
    OBVIOUS
  <2>3. QED
    BY <1>2, <2>1, <2>2 DEF NextOp
<1>5. Given(NextOp) = [k \in DOMAIN call.shapes |-> values[k]]
  BY <1>2, <1>4 DEF Given
<1>6. values = [k \in DOMAIN call.shapes |-> values[k]]
  BY <1>1 DEF Args
<1>7. [k \in DOMAIN NextOp.args |-> Given(NextOp)[k].shape] = call.shapes
  <2>1. DOMAIN NextOp.args = DOMAIN call.shapes
    BY <1>2, <1>4
  <2>2. \A k \in DOMAIN call.shapes : Given(NextOp)[k].shape = call.shapes[k]
    BY <1>3, <1>5
  <2>3. QED
    BY <1>3, <2>1, <2>2
<1>8. /\ Accepts(NextOp, call.shapes) = Accepts(call, call.shapes)
      /\ Computed(NextOp, Args(call)) = Computed(call, Args(call))
  BY <1>2, <1>4, DirectOnly
<1>9. Len(OpsOf(call)) = 1
  BY <1>2
<1>10. Len(Append(values, Computed(call, Args(call)))) = Len(call.shapes) + 1
  <2> DEFINE y == Computed(call, Args(call))
             S == {Args(call)[k] : k \in 1 .. Len(call.shapes)} \cup {y}
  <2>1. values \in Seq({Args(call)[k] : k \in 1 .. Len(call.shapes)})
    BY <1>1, ArgsAre
  <2>2. values \in Seq(S) /\ y \in S
    BY <2>1
  <2> HIDE DEF S, y
  <2>3. Len(Append(values, y)) = Len(values) + 1
    BY <2>2, AppendProperties
  <2>4. QED
    BY <1>3, <2>3 DEF y
<1>11. QED
  BY <1>1, <1>3, <1>5, <1>6, <1>7, <1>8, <1>9, <1>10

\* What is recorded of a direct call stays what its op computes.
LEMMA CallInvStep ==
    ASSUME CallInv, [Next]_vars
    PROVE  CallInv'
<1>0. /\ call \in Calls
      /\ pc \in {"forward", "thrown", "recorded", "backward", "done"}
      /\ call.op \in Direct =>
            /\ pc = "forward" => values = Args(call)
            /\ pc = "thrown" => ~Accepts(call, call.shapes)
            /\ pc \in {"recorded", "backward", "done"} =>
                  /\ Accepts(call, call.shapes)
                  /\ values = Append(Args(call), Computed(call, Args(call)))
  BY DEF CallInv
<1>1. ASSUME Throw PROVE CallInv'
  <2>1. /\ pc = "forward" /\ pc' = "thrown" /\ call' = call /\ values' = values
        /\ ~Accepts(NextOp, [k \in DOMAIN NextOp.args |-> Given(NextOp)[k].shape])
    BY <1>1 DEF Throw
  <2>2. call.op \in Direct => ~Accepts(call, call.shapes)
    BY <2>1, DirectForward
  <2>3. QED
    BY <1>0, <2>1, <2>2 DEF CallInv
<1>2. ASSUME Forward PROVE CallInv'
  <2>1. /\ pc = "forward" /\ call' = call
        /\ Accepts(NextOp, [k \in DOMAIN NextOp.args |-> Given(NextOp)[k].shape])
        /\ values' = Append(values, Computed(NextOp, Given(NextOp)))
        /\ pc' = IF Len(values') = Len(call.shapes) + Len(OpsOf(call))
                 THEN "recorded" ELSE "forward"
    BY <1>2 DEF Forward
  <2>2. CASE call.op \in Direct
    <3>1. Accepts(call, call.shapes)
      BY <2>1, <2>2, DirectForward
    <3>2. values' = Append(Args(call), Computed(call, Args(call))) /\ values = Args(call)
      BY <1>0, <2>1, <2>2, DirectForward
    <3>3. Len(values') = Len(call.shapes) + 1 /\ Len(OpsOf(call)) = 1
      BY <2>1, <2>2, <3>2, DirectForward
    <3>4. pc' = "recorded"
      BY <2>1, <3>3
    <3>5. QED
      BY <1>0, <2>1, <3>1, <3>2, <3>4 DEF CallInv
  <2>3. CASE call.op \notin Direct
    BY <1>0, <2>1, <2>3 DEF CallInv
  <2>4. QED
    BY <2>2, <2>3
<1>3. ASSUME StartBackward PROVE CallInv'
  BY <1>0, <1>3 DEF StartBackward, CallInv
<1>4. ASSUME Backward PROVE CallInv'
  <2>1. pc = "backward" /\ pc' \in {"backward", "done"} /\ call' = call /\ values' = values
    BY <1>4 DEF Backward
  <2>2. QED
    BY <1>0, <2>1 DEF CallInv
<1>5. CASE UNCHANGED vars
  BY <1>0, <1>5 DEF vars, CallInv
<1>6. QED
  BY <1>1, <1>2, <1>3, <1>4, <1>5 DEF Next

\* The forwards of the elementwise ops.
LEMMA ElementwiseRight ==
    ASSUME NEW c, c.op \in Elementwise, NEW in,
           in[1].shape \in Seq(Nat), in[2].shape \in Seq(Nat),
           c.shapes[1] = in[1].shape, c.shapes[2] = in[2].shape
    PROVE  /\ ~Accepts(c, c.shapes) => RightShapes(c) = {}
           /\ Accepts(c, c.shapes) =>
                 /\ Computed(c, in).shape \in RightShapes(c)
                 /\ \A p \in Positions(Computed(c, in).shape) :
                       Computed(c, in).data[OffsetOf(p, Computed(c, in).shape)]
                         = RightElement(c, in, p)
<1> DEFINE a == in[1]
           b == in[2]
           s == BroadcastShape(a.shape, b.shape)
           y == Computed(c, in)
<1>1. /\ Accepts(c, c.shapes) = Broadcastable(a.shape, b.shape)
      /\ RightShapes(c) = RightBroadcasts(a.shape, b.shape)
      /\ y = RunBinary(c.op, a, b, s)
  <2>1. Accepts(c, c.shapes) = Broadcastable(a.shape, b.shape)
    BY DEF Accepts, Elementwise
  <2>2. RightShapes(c) = RightBroadcasts(a.shape, b.shape)
    BY DEF RightShapes, Elementwise, Unary, Losses
  <2>3. Computed(c, in) = Binary(c.op, a, b)
    BY DEF Computed, Elementwise, Unary
  <2>4. QED
    BY <2>1, <2>2, <2>3 DEF Binary
<1>2. /\ RightBroadcasts(a.shape, b.shape)
            = IF Broadcastable(a.shape, b.shape) THEN {s} ELSE {}
      /\ s \in Seq(Nat)
      /\ Broadcastable(a.shape, b.shape) => RepeatsTo(a.shape, s) /\ RepeatsTo(b.shape, s)
  BY BroadcastIs
<1>3. a.shape = b.shape => s = a.shape
  BY RepeatsToItself
<1> HIDE DEF a, b, s, y
<1>4. ASSUME Broadcastable(a.shape, b.shape)
      PROVE  /\ y.shape = s
             /\ \A p \in Positions(s) : y.data[OffsetOf(p, s)] = RightElement(c, in, p)
  <2>0. a.shape \in Seq(Nat) /\ b.shape \in Seq(Nat)
    BY DEF a, b
  <2>1. y = [shape |-> s,
             data  |-> [i \in Offsets(s) |-> Scalar(c.op, a.data[OperandOffset(i, a.shape, s)],
                                                          b.data[OperandOffset(i, b.shape, s)])]]
    BY <1>1, <1>2, <1>3, <1>4, <2>0, RunBinaryIs
  <2>2. ASSUME NEW p \in Positions(s) PROVE y.data[OffsetOf(p, s)] = RightElement(c, in, p)
    <3> DEFINE o == OffsetOf(p, s)
    <3>1. o \in Offsets(s)
      BY <1>2, OffsetIs
    <3>2. /\ OperandOffset(o, a.shape, s) = OffsetOf(ProjectTo(p, a.shape), a.shape)
          /\ OperandOffset(o, b.shape, s) = OffsetOf(ProjectTo(p, b.shape), b.shape)
      BY <1>2, <1>4, <2>0, ReadsProjected
    <3>3. y.data[o] = Scalar(c.op, At(a, p), At(b, p))
      BY <2>1, <3>1, <3>2 DEF At
    <3>4. RightElement(c, in, p) = Scalar(c.op, At(a, p), At(b, p))
      BY DEF RightElement, Elementwise, Unary, Losses, a, b
    <3>5. QED
      BY <3>3, <3>4
  <2>3. QED
    BY <2>1, <2>2
<1>5. QED
  BY <1>1, <1>2, <1>4 DEF y

\* The forwards of the ops of one tensor that combine no elements, and of
\* those that add them all up.
LEMMA OneTensorRight ==
    ASSUME NEW c, c.op \in Unary \cup {"sum", "mean"}, NEW in,
           in[1].shape \in Seq(Nat), c.shapes[1] = in[1].shape
    PROVE  /\ Accepts(c, c.shapes)
           /\ Computed(c, in).shape \in RightShapes(c)
           /\ \A p \in Positions(Computed(c, in).shape) :
                 Computed(c, in).data[OffsetOf(p, Computed(c, in).shape)]
                   = RightElement(c, in, p)
<1> DEFINE a == in[1]
           y == Computed(c, in)
<1>1. Accepts(c, c.shapes)
  BY DEF Accepts, Unary, Elementwise
<1>2. CASE c.op \in Unary
  <2>1. y = [shape |-> a.shape, data |-> [i \in Offsets(a.shape) |-> UnaryScalar(c.op, a.data[i])]]
    BY <1>2 DEF Computed, UnaryForward, Tensor, Unary, Elementwise
  <2>2. RightShapes(c) = {a.shape}
    BY <1>2 DEF RightShapes, Unary, Elementwise, Losses
  <2>3. ASSUME NEW p \in Positions(a.shape)
        PROVE  y.data[OffsetOf(p, a.shape)] = RightElement(c, in, p)
    <3>1. OffsetOf(p, a.shape) \in Offsets(a.shape)
      BY OffsetIs
    <3>2. At(a, p) = a.data[OffsetOf(p, a.shape)]
      BY ReadsInPlace DEF At
    <3>3. RightElement(c, in, p) = UnaryScalar(c.op, At(a, p))
      BY <1>2 DEF RightElement, Unary, Elementwise, Losses
    <3>4. QED
      BY <2>1, <3>1, <3>2, <3>3
  <2>4. QED
    BY <1>1, <2>1, <2>2, <2>3
<1>3. CASE c.op \in {"sum", "mean"}
  <2> DEFINE r == IF c.op = "sum" THEN SumOf(a) ELSE Over(SumOf(a), Numel(a.shape) % P)
  <2>1. y = [shape |-> <<>>, data |-> [i \in Offsets(<<>>) |-> r]]
    BY <1>3 DEF Computed, SumForward, MeanForward, Tensor, Unary, Elementwise
  <2>2. RightShapes(c) = {<<>>}
    BY <1>3 DEF RightShapes, Unary, Elementwise, Losses
  <2>3. \A p : RightElement(c, in, p) = r
    BY <1>3 DEF RightElement, Unary, Elementwise, Losses
  <2>4. \A p \in Positions(<<>>) : OffsetOf(p, <<>>) \in Offsets(<<>>)
    <3>1. \A s \in Seq(Nat) : \A p \in Positions(s) : OffsetOf(p, s) \in Offsets(s)
      BY OffsetIs
    <3>2. <<>> \in Seq(Nat)
      OBVIOUS
    <3>3. QED
      BY <3>1, <3>2, Zenon
  <2> HIDE DEF r, y
  <2>5. y.shape = <<>> /\ \A i \in Offsets(<<>>) : y.data[i] = r
    BY <2>1
  <2>6. \A p \in Positions(<<>>) : y.data[OffsetOf(p, <<>>)] = RightElement(c, in, p)
    BY <2>3, <2>4, <2>5
  <2>7. y.shape \in RightShapes(c)
    BY <2>2, <2>5
  <2>8. QED
    BY <1>1, <2>5, <2>6, <2>7 DEF y
<1>4. QED
  BY <1>2, <1>3

\* Total of a function that is given as a value.
TotalOf(value) ==
    IF NaN \in Range(value) THEN NaN ELSE SumFunctionOnSet(value, DOMAIN value) % P

\* Quotient and rest are determined by the division.
LEMMA QuotientOf ==
    ASSUME NEW m \in Nat, m > 0, NEW x \in Int, NEW q \in Int, NEW r \in 0 .. m - 1,
           x = q * m + r
    PROVE  x \div m = q /\ x % m = r
<1>1. q * m = m * q /\ m * q \in Int
  OBVIOUS
<1>2. x % m = r
  BY <1>1, RemainderIs
<1> DEFINE d == x \div m
<1>3. d \in Int /\ x = m * d + (x % m)
  <2>1. d \in Int /\ m * d \in Int /\ x - m * d = x % m
    OBVIOUS
  <2>2. QED
    BY <2>1
<1> HIDE DEF d
<1>4. m * (d - q) = 0
  <2>1. m * (d - q) = m * d - m * q /\ m * d \in Int
    BY <1>3
  <2>2. QED
    BY <1>1, <1>2, <1>3, <2>1
<1>5. d = q
  <2> SUFFICES ASSUME d - q # 0 PROVE FALSE
    BY <1>3
  <2>1. d - q \in Int /\ (m * (d - q) >= m \/ m * (d - q) <= -m)
    BY <1>3, MultipleIsFar
  <2>2. QED
    BY <1>4, <2>1
<1>6. QED
  BY <1>2, <1>5 DEF d

\* What Append adds and what SubSeq gives back.
LEMMA AppendedIs ==
    ASSUME NEW S, NEW g \in Seq(S), NEW y
    PROVE  /\ Len(Append(g, y)) = Len(g) + 1 /\ Append(g, y)[Len(g) + 1] = y
           /\ \A k \in 1 .. Len(g) : Append(g, y)[k] = g[k]
           /\ SubSeq(Append(g, y), 1, Len(g)) = g
<1> DEFINE T == S \cup {y}
<1>1. g \in Seq(T) /\ y \in T
  OBVIOUS
<1> HIDE DEF T
<1>2. /\ Len(Append(g, y)) = Len(g) + 1 /\ Append(g, y)[Len(g) + 1] = y
      /\ \A k \in 1 .. Len(g) : Append(g, y)[k] = g[k]
      /\ Append(g, y) \in Seq(T)
  BY <1>1, AppendProperties
<1>3. Len(g) \in Nat /\ g = [k \in 1 .. Len(g) |-> g[k]]
  OBVIOUS
<1>4. SubSeq(Append(g, y), 1, Len(g)) = [k \in 1 .. Len(g) |-> g[k]]
  <2>1. SubSeq(Append(g, y), 1, Len(g)) = [k \in 1 .. Len(g) |-> Append(g, y)[k]]
    BY <1>2, <1>3
  <2>2. QED
    BY <1>2, <2>1
<1>5. QED
  BY <1>2, <1>3, <1>4

\* The product of matrices.
LEMMA MatmulRight ==
    ASSUME NEW c, c.op = "matmul", NEW in,
           in[1].shape \in Seq(Nat), in[2].shape \in Seq(Nat),
           c.shapes[1] = in[1].shape, c.shapes[2] = in[2].shape
    PROVE  /\ ~Accepts(c, c.shapes) => RightShapes(c) = {}
           /\ Accepts(c, c.shapes) =>
                 /\ Computed(c, in).shape \in RightShapes(c)
                 /\ \A p \in Positions(Computed(c, in).shape) :
                       Computed(c, in).data[OffsetOf(p, Computed(c, in).shape)]
                         = RightElement(c, in, p)
<1> DEFINE a == in[1]
           b == in[2]
           M == a.shape[1]
           K == a.shape[2]
           N == b.shape[2]
           y == Computed(c, in)
<1>1. /\ Accepts(c, c.shapes) = (Len(a.shape) = 2 /\ Len(b.shape) = 2 /\ K = b.shape[1])
      /\ RightShapes(c) = IF Len(a.shape) = 2 /\ Len(b.shape) = 2 /\ K = b.shape[1]
                          THEN {<<M, N>>} ELSE {}
      /\ y = [shape |-> <<M, N>>, data |-> MatmulData(a.data, b.data, M, K, N)]
      /\ \A p : RightElement(c, in, p) = ProductAt(a, b, p)
  <2>1. Accepts(c, c.shapes) = (Len(a.shape) = 2 /\ Len(b.shape) = 2 /\ K = b.shape[1])
    BY DEF Accepts, Elementwise, MatmulAccepts
  <2>2. RightShapes(c) = IF Len(a.shape) = 2 /\ Len(b.shape) = 2 /\ K = b.shape[1]
                         THEN {<<M, N>>} ELSE {}
    BY DEF RightShapes, Elementwise, Unary, Losses, RightProducts
  <2>3. y = [shape |-> <<M, N>>, data |-> MatmulData(a.data, b.data, M, K, N)]
    BY DEF Computed, Elementwise, Unary, MatmulForward
  <2>4. \A p : RightElement(c, in, p) = ProductAt(a, b, p)
    BY DEF RightElement, Elementwise, Unary, Losses
  <2>5. QED
    BY <2>1, <2>2, <2>3, <2>4
<1>2. ASSUME Len(a.shape) = 2, Len(b.shape) = 2, K = b.shape[1],
             NEW p \in Positions(<<M, N>>)
      PROVE  y.data[OffsetOf(p, <<M, N>>)] = ProductAt(a, b, p)
  <2>0. a.shape \in Seq(Nat) /\ b.shape \in Seq(Nat)
    OBVIOUS
  <2>1. M \in Nat /\ K \in Nat /\ N \in Nat /\ a.shape = <<M, K>> /\ b.shape = <<K, N>>
    <3> HIDE DEF a, b
    <3>1. /\ 1 \in 1 .. Len(a.shape) /\ 2 \in 1 .. Len(a.shape)
          /\ 1 \in 1 .. Len(b.shape) /\ 2 \in 1 .. Len(b.shape)
      BY <1>2
    <3>2. M \in Nat /\ K \in Nat /\ N \in Nat
      BY <2>0, <3>1, StridesAre
    <3>3. a.shape = <<M, K>> /\ b.shape = <<K, N>>
      <4>1. a.shape = <<a.shape[1], a.shape[2]>> /\ b.shape = <<b.shape[1], b.shape[2]>>
        BY <1>2, <2>0, PairIs, Zenon
      <4>2. QED
        BY <1>2, <4>1
    <3>4. QED
      BY <3>2, <3>3
  <2> HIDE DEF a, b, M, K, N, y
  <2> DEFINE o == OffsetOf(p, <<M, N>>)
             u(k) == Times(a.data[(o \div N) * K + k], b.data[k * N + (o % N)])
             w(k) == Times(At(a, <<p[1], k>>), At(b, <<k, p[2]>>))
  <2>2. p[1] \in 0 .. M - 1 /\ p[2] \in 0 .. N - 1 /\ o = p[1] * N + p[2]
    BY <2>1, MatrixOffset
  <2>3. o \in 0 .. M * N - 1
    <3>1. <<M, N>> \in Seq(Nat) /\ Numel(<<M, N>>) = M * N
      BY <2>1, MatrixOffset
    <3>2. o \in Offsets(<<M, N>>)
      BY <3>1, OffsetIs
    <3>3. QED
      BY <3>1, <3>2 DEF Offsets
  <2> HIDE DEF o
  <2>4. o \div N = p[1] /\ o % N = p[2]
    <3>1. N \in Nat /\ N > 0 /\ p[1] \in Int /\ p[2] \in 0 .. N - 1
      BY <2>1, <2>2
    <3>2. o \in Int
      <4>1. M * N \in Int
        BY <2>1
      <4>2. QED
        BY <2>3, <4>1
    <3>3. \A m \in Nat : \A x, q \in Int : \A r \in 0 .. m - 1 :
             m > 0 /\ x = q * m + r => x \div m = q /\ x % m = r
      BY QuotientOf
    <3>4. o = p[1] * N + p[2]
      BY <2>2
    <3>5. QED
      BY <3>1, <3>2, <3>3, <3>4, Zenon
  <2>5. ASSUME NEW k \in 0 .. K - 1 PROVE u(k) = w(k)
    <3>1. <<p[1], k>> \in Positions(<<M, K>>) /\ OffsetOf(<<p[1], k>>, <<M, K>>) = p[1] * K + k
      <4>1. \A i \in 0 .. M - 1, j \in 0 .. K - 1 :
               <<i, j>> \in Positions(<<M, K>>) /\ OffsetOf(<<i, j>>, <<M, K>>) = i * K + j
        <5>1. M \in Nat /\ K \in Nat
          BY <2>1
        <5>2. QED
          BY <5>1, MatrixOffset, Zenon
      <4>2. p[1] \in 0 .. M - 1
        BY <2>2
      <4>3. QED
        BY <4>1, <4>2, Zenon
    <3>2. <<k, p[2]>> \in Positions(<<K, N>>) /\ OffsetOf(<<k, p[2]>>, <<K, N>>) = k * N + p[2]
      <4>1. \A i \in 0 .. K - 1, j \in 0 .. N - 1 :
               <<i, j>> \in Positions(<<K, N>>) /\ OffsetOf(<<i, j>>, <<K, N>>) = i * N + j
        <5>1. K \in Nat /\ N \in Nat
          BY <2>1
        <5>2. QED
          BY <5>1, MatrixOffset, Zenon
      <4>2. p[2] \in 0 .. N - 1
        BY <2>2
      <4>3. QED
        BY <4>1, <4>2, Zenon
    <3>3. At(a, <<p[1], k>>) = a.data[p[1] * K + k]
      <4> DEFINE q == <<p[1], k>>
      <4>1. q \in Positions(a.shape) /\ OffsetOf(q, a.shape) = p[1] * K + k
        BY <2>1, <3>1
      <4> HIDE DEF q
      <4>2. OffsetOf(ProjectTo(q, a.shape), a.shape) = p[1] * K + k
        BY <2>0, <4>1, ReadsInPlace
      <4>3. QED
        BY <4>2 DEF At, q
    <3>4. At(b, <<k, p[2]>>) = b.data[k * N + p[2]]
      <4> DEFINE q == <<k, p[2]>>
      <4>1. q \in Positions(b.shape) /\ OffsetOf(q, b.shape) = k * N + p[2]
        BY <2>1, <3>2
      <4> HIDE DEF q
      <4>2. OffsetOf(ProjectTo(q, b.shape), b.shape) = k * N + p[2]
        BY <2>0, <4>1, ReadsInPlace
      <4>3. QED
        BY <4>2 DEF At, q
    <3>5. QED
      BY <2>4, <3>3, <3>4
  <2>6. y.data[o] = TotalOf([k \in 0 .. K - 1 |-> u(k)])
    BY <1>1, <2>3 DEF MatmulData, Total, TotalOf
  <2>7. ProductAt(a, b, p) = TotalOf([k \in 0 .. K - 1 |-> w(k)])
    BY DEF ProductAt, Total, TotalOf, K
  <2>8. [k \in 0 .. K - 1 |-> u(k)] = [k \in 0 .. K - 1 |-> w(k)]
    BY <2>5
  <2>9. QED
    BY <2>6, <2>7, <2>8 DEF o
<1> HIDE DEF a, b, M, K, N, y
<1>3. QED
  <2>1. y.shape = <<M, N>>
    BY <1>1
  <2>2. QED
    BY <1>1, <1>2, <2>1 DEF y

-----------------------------------------------------------------------------
(* Arithmetic of the elements. *)

LEMMA ElementsAre ==
    /\ P \in Nat /\ P > 2 /\ NaN \notin Elements /\ 0 \in Elements /\ 1 \in Elements
    /\ 1 % P = 1
    /\ \A x \in Elements : x \in Int /\ x >= 0 /\ x < P /\ x # NaN /\ x % P = x
    /\ \A x \in Int : x % P \in Elements
<1>1. P \in Nat /\ P > 2
  BY PrimeAssumption
<1>2. QED
  BY <1>1 DEF Elements, NaN

\* The operations on numbers that are not NaN.
LEMMA OperationsAre ==
    ASSUME NEW x \in Elements, NEW y \in Elements
    PROVE  /\ Plus(x, y) = (x + y) % P /\ Plus(x, y) \in Elements
           /\ Minus(x, y) = (x - y) % P /\ Minus(x, y) \in Elements
           /\ Times(x, y) = (x * y) % P /\ Times(x, y) \in Elements
<1>1. x \in Int /\ y \in Int /\ NaN \notin {x, y}
  BY ElementsAre
<1>2. x * y \in Int
  BY <1>1
<1>3. QED
  BY <1>1, <1>2, ElementsAre DEF Plus, Minus, Times

\* The recursion of Powers is followed, and stays among the elements.
LEMMA PowersFollow ==
    ASSUME NEW x \in Elements
    PROVE  /\ Powers[x] = [k \in Nat |-> IF k = 0 THEN 1 % P ELSE (x * Powers[x][k - 1]) % P]
           /\ \A n \in Nat : Powers[x][n] \in Elements
<1> DEFINE step == [y \in Elements |-> (x * y) % P]
           Is(f) == f = [k \in Nat |-> IF k = 0 THEN 1 % P ELSE (x * f[k - 1]) % P]
<1>1. step \in [Elements -> Elements]
  <2>1. \A y \in Elements : x * y \in Int
    BY ElementsAre
  <2>2. QED
    BY <2>1, ElementsAre
<1>2. ASSUME NEW f, RecursionFrom(f, 1, step) PROVE Is(f)
  <2>1. f \in [Nat -> Elements]
    BY <1>1, <1>2, ElementsAre, RecursionStays
  <2>2. ASSUME NEW k \in Nat, k # 0 PROVE step[f[k - 1]] = (x * f[k - 1]) % P
    <3>1. k - 1 \in Nat
      BY <2>2
    <3>2. QED
      BY <2>1, <3>1
  <2>3. f = [k \in Nat |-> IF k = 0 THEN 1 ELSE step[f[k - 1]]]
    BY <1>2 DEF RecursionFrom
  <2> HIDE DEF step
  <2>4. QED
    BY <2>2, <2>3, ElementsAre
<1>3. \E f : Is(f)
  <2>1. \E f : RecursionFrom(f, 1, step)
    BY <1>1, ElementsAre, RecursionExists
  <2> HIDE DEF Is, step
  <2>2. QED
    BY <1>2, <2>1
<1>4. Is(Powers[x])
  <2>1. Powers[x] = CHOOSE f : Is(f)
    BY DEF Powers
  <2> HIDE DEF Is
  <2>2. QED
    BY <1>3, <2>1
<1> DEFINE f == Powers[x]
<1>5. f = [k \in Nat |-> IF k = 0 THEN 1 % P ELSE (x * f[k - 1]) % P]
  BY <1>4
<1> HIDE DEF f
<1> DEFINE C == {k \in Nat : f[k] \in Elements}
<1>6. 0 \in C
  BY <1>5, ElementsAre
<1>7. ASSUME NEW k \in Nat, k \in C PROVE k + 1 \in C
  <2>1. k + 1 \in Nat /\ k + 1 # 0 /\ (k + 1) - 1 = k
    OBVIOUS
  <2>2. f[k + 1] = (x * f[k]) % P
    BY <1>5, <2>1
  <2>3. x * f[k] \in Int
    BY <1>7, ElementsAre
  <2>4. QED
    BY <2>1, <2>2, <2>3, ElementsAre
<1>8. Nat \subseteq C
  <2> HIDE DEF C
  <2>1. QED
    BY <1>6, <1>7, AllNat
<1>9. QED
  BY <1>5, <1>8 DEF f

\* Powers of a field element are field elements.
LEMMA PowersInRange ==
    ASSUME NEW x \in Elements, NEW n \in Nat
    PROVE  Powers[x][n] \in Elements
BY PowersFollow

\* Quotients and powers of such numbers.
LEMMA QuotientsAre ==
    ASSUME NEW x \in Elements, NEW y \in Elements
    PROVE  /\ Power(x, y) \in Elements
           /\ y # 0 => /\ Over(x, y) = (x * Powers[y][P - 2]) % P
                       /\ Over(x, y) \in Elements
                       /\ Powers[y][P - 2] \in Elements
           /\ y = 0 => Over(x, y) = NaN
           /\ Over(x, y) \in Floats
<1>1. P - 2 \in Nat /\ y \in Nat /\ NaN \notin {x, y}
  BY ElementsAre
<1>2. Powers[y][P - 2] \in Elements /\ Powers[x][y] \in Elements
  BY <1>1, PowersInRange
<1>3. x * Powers[y][P - 2] \in Int
  BY <1>2, ElementsAre
<1>4. QED
  BY <1>1, <1>2, <1>3, ElementsAre DEF Power, Over, Floats

\* The logarithm of a number other than 0 is an exponent.
LEMMA LogIs ==
    ASSUME NEW x \in Elements, x # 0
    PROVE  Log(x) \in 0 .. P - 2 /\ Log(x) \in Elements
<1>1. \E n \in 0 .. P - 2 : Exp(n) = x
  BY GeneratorAssumption
<1>2. x \notin {0, NaN}
  BY ElementsAre
<1>3. Log(x) \in 0 .. P - 2
  BY <1>1, <1>2 DEF Log
<1>4. QED
  BY <1>3, ElementsAre DEF Elements

-----------------------------------------------------------------------------
(* The laws that the backwards use. *)

LEMMA TimesCommutes ==
    ASSUME NEW x \in Elements, NEW y \in Elements
    PROVE  Times(x, y) = Times(y, x)
<1>1. x * y = y * x
  BY ElementsAre
<1>2. QED
  BY <1>1, OperationsAre

\* Multiplication associates.
LEMMA TimesAssociates ==
    ASSUME NEW x \in Elements, NEW y \in Elements, NEW z \in Elements
    PROVE  Times(Times(x, y), z) = Times(x, Times(y, z))
<1>1. x \in Int /\ y \in Int /\ z \in Int /\ P \in Nat /\ P > 0 /\ x * y \in Int /\ y * z \in Int
  BY ElementsAre
<1>2. Times(x, y) = (x * y) % P /\ Times(x, y) \in Elements
  BY OperationsAre
<1>3. Times(Times(x, y), z) = (((x * y) % P) * z) % P
  BY <1>2, OperationsAre
<1>4. Times(y, z) = (y * z) % P /\ Times(y, z) \in Elements
  BY OperationsAre
<1>5. Times(x, Times(y, z)) = (x * ((y * z) % P)) % P
  BY <1>4, OperationsAre
<1>6. (((x * y) % P) * z) % P = ((x * y) * z) % P
  BY <1>1, RemainderTimes
<1>7. (x * ((y * z) % P)) % P = (x * (y * z)) % P
  BY <1>1, RemainderProduct
<1>8. (x * y) * z = x * (y * z)
  BY <1>1
<1>9. QED
  BY <1>3, <1>5, <1>6, <1>7, <1>8

\* 1 and 0 multiply as they should.
LEMMA TimesOne ==
    ASSUME NEW x \in Elements
    PROVE  Times(x, 1) = x /\ Times(x, 0) = 0
<1>1. x * 1 = x /\ x * 0 = 0 /\ 0 % P = 0
  BY ElementsAre
<1>2. QED
  BY <1>1, OperationsAre, ElementsAre

\* A sign moves out of a product.
LEMMA MinusTimes ==
    ASSUME NEW x \in Elements, NEW y \in Elements
    PROVE  Minus(0, Times(x, y)) = Times(x, Minus(0, y))
<1>1. x \in Int /\ y \in Int /\ P \in Nat /\ P > 0 /\ x * y \in Int /\ 0 - y \in Int
  BY ElementsAre
<1>2. Minus(0, y) = (0 - y) % P /\ Minus(0, y) \in Elements
  BY OperationsAre, ElementsAre
<1>3. Times(x, Minus(0, y)) = (x * ((0 - y) % P)) % P
  BY <1>2, OperationsAre
<1>4. Times(x, y) = (x * y) % P /\ Times(x, y) \in Elements
  BY OperationsAre
<1>5. Minus(0, Times(x, y)) = (0 - ((x * y) % P)) % P
  BY <1>4, OperationsAre, ElementsAre
<1>6. (x * ((0 - y) % P)) % P = (x * (0 - y)) % P
  BY <1>1, RemainderProduct
<1>7. (0 - ((x * y) % P)) % P = (0 - (x * y)) % P
  <2> DEFINE t == x * y
  <2>1. t \in Int
    BY <1>1
  <2> HIDE DEF t
  <2>2. ((0 % P) - (t % P)) % P = (0 - t) % P
    <3>1. \A i, j \in Int : ((i % P) - (j % P)) % P = (i - j) % P
      BY <1>1, RemainderMinus
    <3>2. 0 \in Int
      OBVIOUS
    <3>3. QED
      BY <2>1, <3>1, <3>2, Zenon
  <2>3. 0 % P = 0
    BY <1>1
  <2>4. (0 - (t % P)) % P = (0 - t) % P
    BY <2>2, <2>3
  <2>5. QED
    BY <2>4 DEF t
<1>8. x * (0 - y) = 0 - (x * y)
  BY <1>1
<1>9. QED
  BY <1>3, <1>5, <1>6, <1>7, <1>8

\* The opposite of x is x times the opposite of 1.
LEMMA MinusOne ==
    ASSUME NEW x \in Elements
    PROVE  Minus(0, x) = Times(x, P - 1) /\ P - 1 \in Elements
<1>1. P - 1 \in Elements /\ Minus(0, 1) = P - 1
  <2>1. P \in Nat /\ P > 2
    BY ElementsAre
  <2>2. (0 - 1) % P = P - 1
    <3>1. P - 1 \in 0 .. P - 1 /\ 0 - 1 = P * (-1) + (P - 1)
      BY <2>1
    <3>2. QED
      BY <2>1, <3>1, RemainderIs
  <2>3. QED
    BY <2>1, <2>2, OperationsAre, ElementsAre DEF Elements
<1>2. Minus(0, Times(x, 1)) = Times(x, Minus(0, 1))
  BY MinusTimes, ElementsAre
<1>3. QED
  BY <1>1, <1>2, TimesOne

\* Dividing is multiplying with the inverse.
LEMMA OverIsTimes ==
    ASSUME NEW x \in Elements, NEW y \in Elements
    PROVE  y # 0 => Over(x, y) = Times(x, Over(1, y)) /\ Over(1, y) \in Elements
<1> SUFFICES ASSUME y # 0 PROVE Over(x, y) = Times(x, Over(1, y)) /\ Over(1, y) \in Elements
  OBVIOUS
<1> DEFINE v == Powers[y][P - 2]
<1>1. v \in Elements /\ Over(x, y) = (x * v) % P /\ Over(1, y) = (1 * v) % P
  BY QuotientsAre, ElementsAre
<1> HIDE DEF v
<1>2. 1 * v = v /\ v % P = v
  BY <1>1, ElementsAre
<1>3. QED
  BY <1>1, <1>2, OperationsAre

-----------------------------------------------------------------------------
(* Reducing a gradient. *)

\* A sum over the values of an injective function.
LEMMA SumReindexed ==
    ASSUME NEW S, IsFiniteSet(S), NEW T, IsFiniteSet(T),
           NEW h, \A x \in S : h[x] \in T, \A x, y \in S : h[x] = h[y] => x = y,
           NEW f, NEW g, \A y \in T : g[y] \in Int, \A x \in S : f[x] = g[h[x]]
    PROVE  SumFunctionOnSet(f, S) = SumFunctionOnSet(g, {h[x] : x \in S})
<1> DEFINE Im(A) == {h[x] : x \in A}
           C == {A \in SUBSET S : SumFunctionOnSet(f, A) = SumFunctionOnSet(g, Im(A))}
<1>1. {} \in C
  <2>1. Im({}) = {}
    OBVIOUS
  <2>2. QED
    BY <2>1, SumEmpty
<1>2. ASSUME NEW A \in C, NEW x \in S \ A PROVE A \cup {x} \in C
  <2>1. A \subseteq S /\ IsFiniteSet(A) /\ A \cup {x} \subseteq S
    BY <1>2, FS_Subset
  <2>2. Im(A) \subseteq T /\ IsFiniteSet(Im(A))
    <3>1. Im(A) \subseteq T
      BY <2>1
    <3>2. QED
      BY <3>1, FS_Subset
  <2>3. h[x] \in T /\ h[x] \notin Im(A)
    BY <1>2, <2>1
  <2>4. Im(A \cup {x}) = Im(A) \cup {h[x]}
    OBVIOUS
  <2>5. \A y \in A \cup {x} : f[y] \in Int
    BY <2>1
  <2>6. \A y \in Im(A) \cup {h[x]} : g[y] \in Int
    BY <2>2, <2>3
  <2> HIDE DEF Im
  <2>7. SumFunctionOnSet(f, A \cup {x}) = f[x] + SumFunctionOnSet(f, A)
    BY <1>2, <2>1, <2>5, SumAdd
  <2>8. SumFunctionOnSet(g, Im(A) \cup {h[x]}) = g[h[x]] + SumFunctionOnSet(g, Im(A))
    BY <2>2, <2>3, <2>6, SumAdd
  <2>9. QED
    BY <1>2, <2>1, <2>4, <2>7, <2>8
<1>3. S \in C
  <2> HIDE DEF C
  <2>1. QED
    BY <1>1, <1>2, SubsetInduction
<1>4. QED
  BY <1>3

\* A total does not depend on what its terms are numbered by.
LEMMA TotalReindexed ==
    ASSUME NEW S, IsFiniteSet(S), NEW T, IsFiniteSet(T),
           NEW h \in Bijection(S, T),
           NEW f, DOMAIN f = S, NEW g, DOMAIN g = T,
           \A y \in T : g[y] \in Floats, \A x \in S : f[x] = g[h[x]]
    PROVE  TotalOf(f) = TotalOf(g)
<1>0. /\ \A x \in S : h[x] \in T
      /\ \A x, y \in S : h[x] = h[y] => x = y
      /\ \A y \in T : \E x \in S : h[x] = y
  BY DEF Bijection, Injection, Surjection, IsInjective
<1>1. Range(f) = Range(g)
  BY <1>0 DEF Range
<1>2. {h[x] : x \in S} = T
  BY <1>0
<1>3. \A y \in T : g[y] \in Int
  BY ElementsAre DEF Floats, NaN
<1>4. SumFunctionOnSet(f, S) = SumFunctionOnSet(g, T)
  BY <1>0, <1>2, <1>3, SumReindexed
<1>5. QED
  BY <1>1, <1>4 DEF TotalOf

\* The total of one number.
LEMMA TotalSingle ==
    ASSUME NEW f, NEW x, DOMAIN f = {x}, f[x] \in Floats
    PROVE  TotalOf(f) = f[x]
<1>1. Range(f) = {f[x]}
  BY DEF Range
<1>2. f[x] \in Int /\ (f[x] # NaN => f[x] % P = f[x])
  BY ElementsAre DEF Floats, NaN
<1>3. SumFunctionOnSet(f, {x}) = f[x]
  BY <1>2, FS_Singleton, SumSingle
<1>4. QED
  BY <1>1, <1>2, <1>3 DEF TotalOf

\* The elements of an output of shape c for which element i of an operand of
\* shape a is read.
ReadAt(a, c, i) == {o \in Offsets(c) : OperandOffset(o, a, c) = i}

\* A shape has finitely many offsets.
LEMMA OffsetsFinite ==
    ASSUME NEW c \in Seq(Nat)
    PROVE  /\ Numel(c) \in Nat /\ IsFiniteSet(Offsets(c))
           /\ \A a, i : IsFiniteSet(ReadAt(a, c, i))
<1>1. Numel(c) \in Nat
  BY StridesAre, RestIs
<1>2. IsFiniteSet(Offsets(c))
  BY <1>1, FS_Interval DEF Offsets
<1>3. \A a, i : ReadAt(a, c, i) \subseteq Offsets(c)
  BY DEF ReadAt
<1>4. QED
  BY <1>1, <1>2, <1>3, FS_Subset

\* What t has at those.
Shares(t, a, c, i) == [o \in ReadAt(a, c, i) |-> t.data[o]]

\* t is an array of shape c.
HasNumbers(t, c) == t.shape = c /\ \A o \in Offsets(c) : t.data[o] \in Floats

\* What a reduction leaves in an element is the total of what the elements
\* that read it have.
LEMMA ReducedIs ==
    ASSUME NEW a \in Seq(Nat), NEW c \in Seq(Nat), RepeatsTo(a, c),
           NEW g, HasNumbers(g, c)
    PROVE  /\ ReduceTo(g, a).shape = a
           /\ DOMAIN ReduceTo(g, a).data = Offsets(a)
           /\ \A i \in Offsets(a) : ReduceTo(g, a).data[i] = TotalOf(Shares(g, a, c, i))
<1>0. g.shape = c /\ \A o \in Offsets(c) : g.data[o] \in Floats
  BY DEF HasNumbers
<1>1. CASE Numel(c) = Numel(a)
  <2>1. ReduceTo(g, a) = [shape |-> a, data |-> [i \in Offsets(a) |-> g.data[i]]]
    BY <1>0, <1>1 DEF ReduceTo, Tensor
  <2>2. Offsets(a) = Offsets(c)
    BY <1>1 DEF Offsets
  <2>3. ASSUME NEW i \in Offsets(a)
        PROVE  TotalOf(Shares(g, a, c, i)) = g.data[i]
    <3>1. ReadAt(a, c, i) = {i}
      BY <1>1, <2>2, <2>3, ShortcutsAgree DEF ReadAt
    <3> DEFINE f == Shares(g, a, c, i)
    <3>2. DOMAIN f = {i} /\ f[i] = g.data[i] /\ f[i] \in Floats
      BY <1>0, <2>2, <2>3, <3>1 DEF Shares
    <3> HIDE DEF f
    <3>3. TotalOf(f) = f[i]
      BY <3>2, TotalSingle
    <3>4. QED
      BY <3>2, <3>3 DEF f
  <2>4. QED
    BY <2>1, <2>3
<1>2. CASE Numel(c) # Numel(a)
  <2>1. ReduceTo(g, a)
          = [shape |-> a, data |-> [i \in Offsets(a) |->
                Total({o \in Offsets(c) : ReducedOffset(o, c, a) = i}, LAMBDA o : g.data[o])]]
    BY <1>0, <1>2 DEF ReduceTo, Tensor
  <2>2. ASSUME NEW i \in Offsets(a)
        PROVE  Total({o \in Offsets(c) : ReducedOffset(o, c, a) = i}, LAMBDA o : g.data[o])
                 = TotalOf(Shares(g, a, c, i))
    <3>1. {o \in Offsets(c) : ReducedOffset(o, c, a) = i} = ReadAt(a, c, i)
      BY ReducesWhereRead DEF ReadAt
    <3>2. QED
      BY <3>1 DEF Total, TotalOf, Shares
  <2>3. \A i \in Offsets(a) :
           ReduceTo(g, a).data[i]
             = Total({o \in Offsets(c) : ReducedOffset(o, c, a) = i}, LAMBDA o : g.data[o])
    BY <2>1
  <2>4. ReduceTo(g, a).shape = a /\ DOMAIN ReduceTo(g, a).data = Offsets(a)
    BY <2>1
  <2>5. QED
    BY <2>2, <2>3, <2>4
<1>3. QED
  BY <1>1, <1>2

\* f has at the positions of an output that read element i what g has at
\* the offsets there.
Renumbers(f, g, a, c, i) ==
    /\ DOMAIN f = {p \in Positions(c) : OffsetOf(ProjectTo(p, a), a) = i}
    /\ DOMAIN g = ReadAt(a, c, i)
    /\ \A o \in ReadAt(a, c, i) : g[o] \in Floats
    /\ \A p \in DOMAIN f : f[p] = g[OffsetOf(p, c)]

\* A total over the positions is one over their offsets.
LEMMA TotalOverPositions ==
    ASSUME NEW a \in Seq(Nat), NEW c \in Seq(Nat), RepeatsTo(a, c), NEW i,
           NEW f, NEW g, Renumbers(f, g, a, c, i)
    PROVE  TotalOf(f) = TotalOf(g)
<1> DEFINE S == {p \in Positions(c) : OffsetOf(ProjectTo(p, a), a) = i}
           T == ReadAt(a, c, i)
           h == [p \in S |-> OffsetOf(p, c)]
<1>1. \A p \in S : h[p] \in T /\ Decode(h[p], c) = p
  BY OffsetIs, ReadsProjected DEF ReadAt
<1>2. \A o \in T : Decode(o, c) \in S /\ h[Decode(o, c)] = o
  <2> SUFFICES ASSUME NEW o \in T PROVE Decode(o, c) \in S /\ h[Decode(o, c)] = o
    OBVIOUS
  <2>1. o \in Offsets(c) /\ OperandOffset(o, a, c) = i
    BY DEF ReadAt
  <2>2. Decode(o, c) \in Positions(c) /\ OffsetOf(Decode(o, c), c) = o
    BY <2>1, DecodeIsPosition, OffsetIs
  <2>3. OperandOffset(o, a, c) = OffsetOf(ProjectTo(Decode(o, c), a), a)
    BY <2>2, ReadsProjected
  <2>4. QED
    BY <2>1, <2>2, <2>3
<1>3. IsFiniteSet(T)
  BY OffsetsFinite
<1>4. IsFiniteSet(S)
  <2> HIDE DEF S, T, h
  <2>1. \A p \in S : \E o \in T : p = Decode(o, c)
    BY <1>1
  <2>2. S = {Decode(o, c) : o \in T}
    BY <1>2, <2>1
  <2> DEFINE d == [o \in T |-> Decode(o, c)]
  <2>3. d \in [T -> S] /\ \A p \in S : \E o \in T : d[o] = p
    BY <1>2, <2>1
  <2> HIDE DEF d
  <2>4. d \in Surjection(T, S)
    BY <2>3 DEF Surjection
  <2>5. QED
    BY <1>3, <2>4, FS_Surjection
<1>5. DOMAIN f = S /\ DOMAIN g = T /\ \A p \in S : f[p] = g[h[p]]
  <2>1. \A p \in S : h[p] = OffsetOf(p, c)
    OBVIOUS
  <2>2. QED
    BY <2>1 DEF Renumbers
<1>6. \A o \in T : g[o] \in Floats
  BY DEF Renumbers
<1>h. h = [p \in S |-> h[p]]
  OBVIOUS
<1> HIDE DEF S, T, h
<1>7. h \in Bijection(S, T)
  <2>1. h \in [S -> T]
    BY <1>1, <1>h
  <2>2. /\ \A p, q \in S : h[p] = h[q] => p = q
        /\ \A o \in T : \E p \in S : h[p] = o
    BY <1>1, <1>2
  <2>3. QED
    BY <2>1, <2>2 DEF Bijection, Injection, Surjection, IsInjective
<1>8. QED
  BY <1>3, <1>4, <1>5, <1>6, <1>7, TotalReindexed

-----------------------------------------------------------------------------
(* The backwards of the elementwise ops. *)

\* The loops of the elementwise ops again, for a shortcut that covers the
\* output by the number of elements.
LEMMA RunBinaryAt ==
    ASSUME NEW op, NEW a, NEW b, NEW c \in Seq(Nat),
           a.shape \in Seq(Nat), b.shape \in Seq(Nat),
           RepeatsTo(a.shape, c), RepeatsTo(b.shape, c),
           a.shape = b.shape => c = a.shape \/ Numel(c) <= Numel(a.shape)
    PROVE  /\ RunBinary(op, a, b, c).shape = c
           /\ \A o \in Offsets(c) :
                 RunBinary(op, a, b, c).data[o]
                   = Scalar(op, a.data[OperandOffset(o, a.shape, c)],
                                b.data[OperandOffset(o, b.shape, c)])
<1>1. Numel(c) \in Nat /\ Numel(a.shape) \in Nat
  BY OffsetsFinite
<1>2. RunBinary(op, a, b, c).shape = c
  BY DEF RunBinary, Tensor
<1>3. CASE a.shape = b.shape => Numel(a.shape) = Numel(c)
  BY <1>2, <1>3, RunBinaryIs
<1>4. CASE ~(a.shape = b.shape => Numel(a.shape) = Numel(c))
  <2>1. Numel(c) < Numel(a.shape)
    BY <1>1, <1>4
  <2>2. Numel(c) = 0
    <3>1. Numel(c) > 0 => Numel(a.shape) <= Numel(c)
      <4>1. \A s \in Seq(Nat) : RepeatsTo(s, c) /\ Numel(c) > 0 => Numel(s) <= Numel(c)
        BY RepeatedIsSmaller
      <4>2. QED
        BY <4>1
    <3>2. QED
      BY <1>1, <2>1, <3>1
  <2>3. Offsets(c) = {}
    BY <2>2 DEF Offsets
  <2>4. QED
    BY <1>2, <2>3
<1>5. QED
  BY <1>3, <1>4

\* What a backward is given: operands that are repeated to the output, and
\* numbers, no zeros among the operands.
Operands(a, b, g) ==
    /\ a.shape \in Seq(Nat) /\ b.shape \in Seq(Nat) /\ g.shape \in Seq(Nat)
    /\ RepeatsTo(a.shape, g.shape) /\ RepeatsTo(b.shape, g.shape)
    /\ a.shape = b.shape => g.shape = a.shape
    /\ \A i \in Offsets(a.shape) : a.data[i] \in Elements \ {0}
    /\ \A i \in Offsets(b.shape) : b.data[i] \in Elements \ {0}
    /\ \A o \in Offsets(g.shape) : g.data[o] \in Elements

\* The element of t that element o of an output is computed from.
ReadBy(t, g, o) == t.data[OperandOffset(o, t.shape, g.shape)]

\* What an elementwise op reads at an offset of its result: numbers other than 0.
LEMMA OperandsAre ==
    ASSUME NEW a, NEW b, NEW g, Operands(a, b, g), NEW o \in Offsets(g.shape)
    PROVE  /\ OperandOffset(o, a.shape, g.shape) \in Offsets(a.shape)
           /\ OperandOffset(o, b.shape, g.shape) \in Offsets(b.shape)
           /\ ReadBy(a, g, o) \in Elements /\ ReadBy(a, g, o) # 0
           /\ ReadBy(b, g, o) \in Elements /\ ReadBy(b, g, o) # 0
           /\ g.data[o] \in Elements
           /\ OperandOffset(o, g.shape, g.shape) = o
<1>1. /\ OperandOffset(o, a.shape, g.shape) \in Offsets(a.shape)
      /\ OperandOffset(o, b.shape, g.shape) \in Offsets(b.shape)
  BY ReadsInRange DEF Operands
<1>2. OperandOffset(o, g.shape, g.shape) = o
  BY ReadsInPlace DEF Operands
<1>3. QED
  BY <1>1, <1>2 DEF Operands, ReadBy

\* t has at every element of the output what it owes operand k.
Owed(t, op, a, b, g, k) ==
    /\ t.shape = g.shape
    /\ \A o \in Offsets(g.shape) :
          /\ t.data[o] = Times(g.data[o], Slope(op, ReadBy(a, g, o), ReadBy(b, g, o))[k])
          /\ t.data[o] \in Floats

\* The backward of op reduces, for operand k, what the output owes it.
Reduces(op, a, b, g, k) ==
    \E t : /\ ElementwiseBackward(op, a, b, g)[k] = ReduceTo(t, <<a, b>>[k].shape)
           /\ Owed(t, op, a, b, g, k)

\* The backward of add sums what the derivative owes.
LEMMA AddReduces ==
    ASSUME NEW a, NEW b, NEW g, Operands(a, b, g), NEW k \in {1, 2}
    PROVE  Reduces("add", a, b, g, k)
<1>1. ElementwiseBackward("add", a, b, g)[k] = ReduceTo(g, <<a, b>>[k].shape)
  BY DEF ElementwiseBackward, AddBackward
<1>2. \A x, y : Slope("add", x, y)[k] = 1
  BY DEF Slope
<1>3. \A o \in Offsets(g.shape) : /\ g.data[o] = Times(g.data[o], 1)
                                  /\ g.data[o] \in Floats
  BY OperandsAre, TimesOne DEF Floats
<1>4. Owed(g, "add", a, b, g, k)
  BY <1>2, <1>3 DEF Owed
<1>5. QED
  BY <1>1, <1>4 DEF Reduces

\* The backward of sub sums what the derivative owes.
LEMMA SubReduces ==
    ASSUME NEW a, NEW b, NEW g, Operands(a, b, g), NEW k \in {1, 2}
    PROVE  Reduces("sub", a, b, g, k)
<1> DEFINE t == IF k = 1 THEN g ELSE Negated(g)
<1>1. ElementwiseBackward("sub", a, b, g)[k] = ReduceTo(t, <<a, b>>[k].shape)
  BY DEF ElementwiseBackward, SubBackward
<1>2. \A x, y : Slope("sub", x, y)[k] = IF k = 1 THEN 1 ELSE P - 1
  BY DEF Slope
<1>3. t.shape = g.shape
  BY DEF Negated, Tensor
<1>4. \A o \in Offsets(g.shape) : t.data[o] = IF k = 1 THEN g.data[o] ELSE Minus(0, g.data[o])
  BY DEF Negated, Tensor
<1>5. \A o \in Offsets(g.shape) :
         /\ t.data[o] = Times(g.data[o], IF k = 1 THEN 1 ELSE P - 1)
         /\ t.data[o] \in Floats
  <2> SUFFICES ASSUME NEW o \in Offsets(g.shape)
               PROVE  /\ t.data[o] = Times(g.data[o], IF k = 1 THEN 1 ELSE P - 1)
                      /\ t.data[o] \in Floats
    OBVIOUS
  <2>1. g.data[o] \in Elements
    BY OperandsAre
  <2> HIDE DEF t
  <2>2. CASE k = 1
    BY <1>4, <2>1, <2>2, TimesOne DEF Floats
  <2>3. CASE k # 1
    <3>1. t.data[o] = Minus(0, g.data[o])
      BY <1>4, <2>3
    <3>2. Minus(0, g.data[o]) = Times(g.data[o], P - 1) /\ Minus(0, g.data[o]) \in Elements
      BY <2>1, MinusOne, OperationsAre, ElementsAre
    <3>3. QED
      BY <2>3, <3>1, <3>2 DEF Floats
  <2>4. QED
    BY <2>2, <2>3
<1> HIDE DEF t
<1>6. Owed(t, "sub", a, b, g, k)
  BY <1>2, <1>3, <1>5 DEF Owed
<1>7. QED
  BY <1>1, <1>6 DEF Reduces

\* A loop over an output that g is the gradient of.
Combined(op, u, w, g) ==
    /\ RunBinary(op, u, w, g.shape).shape = g.shape
    /\ \A o \in Offsets(g.shape) :
          RunBinary(op, u, w, g.shape).data[o] = Scalar(op, ReadBy(u, g, o), ReadBy(w, g, o))

\* An intermediate array of a backward, offset by offset.
LEMMA CombinedIs ==
    ASSUME NEW op, NEW u, NEW w, NEW g,
           u.shape \in Seq(Nat), w.shape \in Seq(Nat), g.shape \in Seq(Nat),
           RepeatsTo(u.shape, g.shape), RepeatsTo(w.shape, g.shape),
           u.shape = w.shape => g.shape = u.shape \/ Numel(g.shape) <= Numel(u.shape)
    PROVE  Combined(op, u, w, g)
<1> DEFINE c == g.shape
<1>1. /\ RunBinary(op, u, w, c).shape = c
      /\ \A o \in Offsets(c) :
            RunBinary(op, u, w, c).data[o]
              = Scalar(op, u.data[OperandOffset(o, u.shape, c)],
                           w.data[OperandOffset(o, w.shape, c)])
  BY RunBinaryAt
<1>2. QED
  BY <1>1 DEF Combined, ReadBy

\* ... with the gradient on either side.
LEMMA CombinedWithGradient ==
    ASSUME NEW op, NEW u, NEW g, u.shape \in Seq(Nat), g.shape \in Seq(Nat),
           RepeatsTo(u.shape, g.shape)
    PROVE  Combined(op, u, g, g) /\ Combined(op, g, u, g)
<1>1. RepeatsTo(g.shape, g.shape)
  BY RepeatsToItself
<1>2. /\ u.shape = g.shape => g.shape = u.shape \/ Numel(g.shape) <= Numel(u.shape)
      /\ g.shape = u.shape => g.shape = g.shape \/ Numel(g.shape) <= Numel(g.shape)
  OBVIOUS
<1>3. QED
  BY <1>1, <1>2, CombinedIs

\* The backward of mul sums what the derivative owes.
LEMMA MulReduces ==
    ASSUME NEW a, NEW b, NEW g, Operands(a, b, g), NEW k \in {1, 2}
    PROVE  Reduces("mul", a, b, g, k)
<1> DEFINE u == IF k = 1 THEN b ELSE a
           t == RunBinary("mul", u, g, g.shape)
<1>1. ElementwiseBackward("mul", a, b, g)[k] = ReduceTo(t, <<a, b>>[k].shape)
  BY DEF ElementwiseBackward, MulBackward
<1>2. \A o \in Offsets(g.shape) : Slope("mul", ReadBy(a, g, o), ReadBy(b, g, o))[k] = ReadBy(u, g, o)
  BY DEF Slope
<1>3. t.shape = g.shape /\ \A o \in Offsets(g.shape) : t.data[o] = Times(ReadBy(u, g, o), g.data[o])
  <2>1. g.shape \in Seq(Nat) /\ u.shape \in Seq(Nat) /\ RepeatsTo(u.shape, g.shape)
    BY DEF Operands
  <2> HIDE DEF u
  <2>2. Combined("mul", u, g, g)
    BY <2>1, CombinedWithGradient
  <2>3. \A x, y : Scalar("mul", x, y) = Times(x, y)
    BY DEF Scalar
  <2>4. \A o \in Offsets(g.shape) : ReadBy(g, g, o) = g.data[o]
    BY OperandsAre DEF ReadBy
  <2>5. QED
    BY <2>2, <2>3, <2>4 DEF Combined
<1>4. \A o \in Offsets(g.shape) : ReadBy(u, g, o) \in Elements /\ g.data[o] \in Elements
  BY OperandsAre
<1> HIDE DEF t, u
<1>5. \A o \in Offsets(g.shape) :
         t.data[o] = Times(g.data[o], ReadBy(u, g, o)) /\ t.data[o] \in Floats
  <2> SUFFICES ASSUME NEW o \in Offsets(g.shape)
               PROVE  t.data[o] = Times(g.data[o], ReadBy(u, g, o)) /\ t.data[o] \in Floats
    OBVIOUS
  <2>1. ReadBy(u, g, o) \in Elements /\ g.data[o] \in Elements
    BY <1>4
  <2>2. Times(ReadBy(u, g, o), g.data[o]) \in Elements
    BY <2>1, OperationsAre
  <2>3. Times(ReadBy(u, g, o), g.data[o]) = Times(g.data[o], ReadBy(u, g, o))
    BY <2>1, TimesCommutes
  <2>4. QED
    BY <1>3, <2>2, <2>3 DEF Floats
<1>6. Owed(t, "mul", a, b, g, k)
  BY <1>2, <1>3, <1>5 DEF Owed
<1>7. QED
  BY <1>1, <1>6 DEF Reduces

\* An operand of the shape of the result is read in place.
LEMMA ReadHere ==
    ASSUME NEW t, NEW g, g.shape \in Seq(Nat), t.shape = g.shape, NEW o \in Offsets(g.shape)
    PROVE  ReadBy(t, g, o) = t.data[o]
BY ReadsInPlace DEF ReadBy

\* -og * a / b^2, in the order of the kernel and in that of the derivative,
\* also when the square is zero.
LEMMA QuotientSlope ==
    ASSUME NEW w \in Elements, NEW u \in Elements, NEW s \in Elements
    PROVE  /\ Minus(0, Over(Times(w, u), s)) = Times(w, Minus(0, Over(u, s)))
           /\ Minus(0, Over(Times(w, u), s)) \in Floats
<1>1. Times(w, u) \in Elements
  BY OperationsAre
<1>2. CASE s = 0
  <2>1. Over(Times(w, u), s) = NaN /\ Over(u, s) = NaN
    BY <1>2 DEF Over
  <2>2. Minus(0, NaN) = NaN /\ Times(w, NaN) = NaN
    BY DEF Minus, Times
  <2>3. QED
    BY <2>1, <2>2 DEF Floats
<1>3. CASE s # 0
  <2> DEFINE v == Over(1, s)
  <2>1. v \in Elements /\ Over(Times(w, u), s) = Times(Times(w, u), v) /\ Over(u, s) = Times(u, v)
    BY <1>1, <1>3, OverIsTimes
  <2> HIDE DEF v
  <2>2. Times(Times(w, u), v) = Times(w, Times(u, v))
    BY <2>1, TimesAssociates
  <2>3. Times(u, v) \in Elements
    BY <2>1, OperationsAre
  <2>4. Minus(0, Times(w, Times(u, v))) = Times(w, Minus(0, Times(u, v)))
    BY <2>3, MinusTimes
  <2>5. Times(w, Times(u, v)) \in Elements
    BY <2>3, OperationsAre
  <2>6. Minus(0, Times(w, Times(u, v))) \in Elements
    BY <2>5, OperationsAre, ElementsAre
  <2>7. QED
    BY <2>1, <2>2, <2>4, <2>6 DEF Floats
<1>4. QED
  BY <1>2, <1>3

\* The backward of div sums what the derivative owes, unless b is repeated.
LEMMA DivReduces ==
    ASSUME NEW a, NEW b, NEW g, Operands(a, b, g), NEW k \in {1, 2},
           k = 2 => Numel(g.shape) <= Numel(b.shape)
    PROVE  Reduces("div", a, b, g, k)
<1>1. /\ a.shape \in Seq(Nat) /\ b.shape \in Seq(Nat) /\ g.shape \in Seq(Nat)
      /\ RepeatsTo(a.shape, g.shape) /\ RepeatsTo(b.shape, g.shape)
  BY DEF Operands
<1>2. RepeatsTo(g.shape, g.shape)
  BY <1>1, RepeatsToItself
<1>3. \A x, y : Scalar("mul", x, y) = Times(x, y) /\ Scalar("div", x, y) = Over(x, y)
  BY DEF Scalar
<1>4. \A o \in Offsets(g.shape) : ReadBy(g, g, o) = g.data[o]
  BY <1>1, ReadHere
<1>5. CASE k = 1
  <2> DEFINE t == RunBinary("div", g, b, g.shape)
  <2>1. ElementwiseBackward("div", a, b, g)[k] = ReduceTo(t, <<a, b>>[k].shape)
    BY <1>5 DEF ElementwiseBackward, DivBackward
  <2>2. Combined("div", g, b, g)
    BY <1>1, CombinedWithGradient
  <2>3. t.shape = g.shape /\ \A o \in Offsets(g.shape) : t.data[o] = Over(g.data[o], ReadBy(b, g, o))
    BY <1>3, <1>4, <2>2 DEF Combined
  <2> HIDE DEF t
  <2>4. ASSUME NEW o \in Offsets(g.shape)
        PROVE  /\ t.data[o] = Times(g.data[o], Slope("div", ReadBy(a, g, o), ReadBy(b, g, o))[k])
               /\ t.data[o] \in Floats
    <3>1. ReadBy(b, g, o) \in Elements /\ ReadBy(b, g, o) # 0 /\ g.data[o] \in Elements
      BY OperandsAre
    <3>2. t.data[o] = Times(g.data[o], Over(1, ReadBy(b, g, o)))
      BY <2>3, <3>1, OverIsTimes
    <3>3. t.data[o] \in Floats
      BY <2>3, <3>1, QuotientsAre
    <3>4. Slope("div", ReadBy(a, g, o), ReadBy(b, g, o))[k] = Over(1, ReadBy(b, g, o))
      BY <1>5 DEF Slope
    <3>5. QED
      BY <3>2, <3>3, <3>4
  <2>5. Owed(t, "div", a, b, g, k)
    BY <2>3, <2>4 DEF Owed
  <2>6. QED
    BY <2>1, <2>5 DEF Reduces
<1>6. CASE k = 2
  <2> DEFINE tmp1 == RunBinary("mul", g, a, g.shape)
             tmp2 == RunBinary("mul", b, b, g.shape)
             q    == RunBinary("div", tmp1, tmp2, g.shape)
             t    == Negated(q)
  <2>1. ElementwiseBackward("div", a, b, g)[k] = ReduceTo(t, <<a, b>>[k].shape)
    BY <1>6 DEF ElementwiseBackward, DivBackward
  <2>2. /\ t.shape = q.shape
        /\ q.shape = g.shape => \A o \in Offsets(g.shape) : t.data[o] = Minus(0, q.data[o])
    <3> HIDE DEF q
    <3>1. QED
      BY DEF Negated, Tensor
  <2>3. Combined("mul", g, a, g)
    BY <1>1, CombinedWithGradient
  <2>4. Combined("mul", b, b, g)
    <3>1. b.shape = b.shape => g.shape = b.shape \/ Numel(g.shape) <= Numel(b.shape)
      BY <1>6
    <3>2. QED
      BY <1>1, <3>1, CombinedIs
  <2>5. /\ tmp1.shape = g.shape
        /\ \A o \in Offsets(g.shape) : tmp1.data[o] = Times(g.data[o], ReadBy(a, g, o))
    BY <1>3, <1>4, <2>3 DEF Combined
  <2>6. /\ tmp2.shape = g.shape
        /\ \A o \in Offsets(g.shape) : tmp2.data[o] = Times(ReadBy(b, g, o), ReadBy(b, g, o))
    BY <1>3, <2>4 DEF Combined
  <2> HIDE DEF tmp1, tmp2
  <2>7. Combined("div", tmp1, tmp2, g)
    <3>1. tmp1.shape \in Seq(Nat) /\ tmp2.shape \in Seq(Nat)
      BY <1>1, <2>5, <2>6
    <3>2. RepeatsTo(tmp1.shape, g.shape) /\ RepeatsTo(tmp2.shape, g.shape)
      BY <1>2, <2>5, <2>6
    <3>3. tmp1.shape = tmp2.shape => g.shape = tmp1.shape \/ Numel(g.shape) <= Numel(tmp1.shape)
      BY <2>5
    <3>4. QED
      BY <1>1, <3>1, <3>2, <3>3, CombinedIs
  <2>8. \A o \in Offsets(g.shape) : ReadBy(tmp1, g, o) = tmp1.data[o] /\ ReadBy(tmp2, g, o) = tmp2.data[o]
    BY <1>1, <2>5, <2>6, ReadHere
  <2>9. /\ q.shape = g.shape
        /\ \A o \in Offsets(g.shape) : q.data[o] = Over(tmp1.data[o], tmp2.data[o])
    BY <1>3, <2>7, <2>8 DEF Combined
  <2> HIDE DEF q, t
  <2>10. ASSUME NEW o \in Offsets(g.shape)
         PROVE  /\ t.data[o] = Times(g.data[o], Slope("div", ReadBy(a, g, o), ReadBy(b, g, o))[k])
                /\ t.data[o] \in Floats
    <3> DEFINE u == ReadBy(a, g, o)
               v == ReadBy(b, g, o)
               w == g.data[o]
    <3>1. u \in Elements /\ v \in Elements /\ w \in Elements
      BY OperandsAre
    <3>2. t.data[o] = Minus(0, Over(Times(w, u), Times(v, v)))
      BY <2>2, <2>5, <2>6, <2>9
    <3>3. Slope("div", u, v)[k] = Minus(0, Over(u, Times(v, v)))
      BY <1>6 DEF Slope
    <3> HIDE DEF u, v, w
    <3>4. Times(v, v) \in Elements
      BY <3>1, OperationsAre
    <3>5. t.data[o] = Times(w, Slope("div", u, v)[k]) /\ t.data[o] \in Floats
      BY <3>1, <3>2, <3>3, <3>4, QuotientSlope
    <3>6. QED
      BY <3>5 DEF u, v, w
  <2>11. Owed(t, "div", a, b, g, k)
    BY <2>2, <2>9, <2>10 DEF Owed
  <2>12. QED
    BY <2>1, <2>11 DEF Reduces
<1>7. QED
  BY <1>5, <1>6

\* The exponent less one.
LEMMA ExponentIs ==
    ASSUME NEW y \in Elements, y # 0
    PROVE  Minus(y, 1) = y - 1 /\ y - 1 \in Elements
<1>1. y - 1 \in Elements
  BY ElementsAre DEF Elements
<1>2. QED
  BY <1>1, OperationsAre, ElementsAre

\* Three numbers in the order of the kernel and in that of the derivative.
LEMMA ProductTurned ==
    ASSUME NEW x \in Elements, NEW y \in Elements, NEW w \in Elements
    PROVE  /\ Times(Times(x, y), w) = Times(w, Times(y, x))
           /\ Times(Times(x, y), w) = Times(w, Times(x, y))
           /\ Times(Times(x, y), w) \in Elements
<1>1. Times(x, y) = Times(y, x) /\ Times(x, y) \in Elements
  BY TimesCommutes, OperationsAre
<1>2. Times(Times(x, y), w) = Times(w, Times(x, y)) /\ Times(Times(x, y), w) \in Elements
  BY <1>1, TimesCommutes, OperationsAre
<1>3. QED
  BY <1>1, <1>2

\* The backward of pow sums what the derivative owes.
LEMMA PowReduces ==
    ASSUME NEW a, NEW b, NEW g, Operands(a, b, g), NEW k \in {1, 2}
    PROVE  Reduces("pow", a, b, g, k)
<1>1. /\ a.shape \in Seq(Nat) /\ b.shape \in Seq(Nat) /\ g.shape \in Seq(Nat)
      /\ RepeatsTo(a.shape, g.shape) /\ RepeatsTo(b.shape, g.shape)
      /\ a.shape = b.shape => g.shape = a.shape
  BY DEF Operands
<1>2. RepeatsTo(g.shape, g.shape) /\ RepeatsTo(b.shape, b.shape)
  BY <1>1, RepeatsToItself
<1>3. \A x, y : /\ Scalar("mul", x, y) = Times(x, y) /\ Scalar("pow", x, y) = Power(x, y)
                /\ Scalar("sub", x, y) = Minus(x, y)
  BY DEF Scalar
<1>4. \A o \in Offsets(g.shape) : ReadBy(g, g, o) = g.data[o]
  BY <1>1, ReadHere
<1>5. CASE k = 1
  <2> DEFINE ones == Tensor(b.shape, LAMBDA i : 1)
             less == RunBinary("sub", b, ones, b.shape)
             power == RunBinary("pow", a, less, g.shape)
             prod == RunBinary("mul", power, b, g.shape)
             t == RunBinary("mul", prod, g, g.shape)
  <2>1. ElementwiseBackward("pow", a, b, g)[k] = ReduceTo(t, <<a, b>>[k].shape)
    BY <1>5 DEF ElementwiseBackward, PowBackward
  <2>2. ones.shape = b.shape /\ \A i \in Offsets(b.shape) : ones.data[i] = 1
    BY DEF Tensor
  <2> HIDE DEF ones
  <2>3. /\ less.shape = b.shape
        /\ \A i \in Offsets(b.shape) : less.data[i] = Minus(b.data[i], 1)
    <3>1. /\ less.shape = b.shape
          /\ \A i \in Offsets(b.shape) :
                less.data[i] = Scalar("sub", b.data[OperandOffset(i, b.shape, b.shape)],
                                             ones.data[OperandOffset(i, ones.shape, b.shape)])
      <4>1. /\ ones.shape \in Seq(Nat) /\ RepeatsTo(ones.shape, b.shape)
            /\ b.shape = ones.shape => b.shape = b.shape \/ Numel(b.shape) <= Numel(b.shape)
        BY <1>1, <1>2, <2>2
      <4>2. QED
        BY <1>1, <1>2, <4>1, RunBinaryAt
    <3>2. \A i \in Offsets(b.shape) : OperandOffset(i, b.shape, b.shape) = i
      BY <1>1, ReadsInPlace
    <3> HIDE DEF less
    <3>3. QED
      BY <1>3, <2>2, <3>1, <3>2
  <2> HIDE DEF less
  <2>4. Combined("pow", a, less, g)
    <3>1. /\ less.shape \in Seq(Nat) /\ RepeatsTo(less.shape, g.shape)
          /\ a.shape = less.shape => g.shape = a.shape \/ Numel(g.shape) <= Numel(a.shape)
      BY <1>1, <2>3
    <3>2. QED
      BY <1>1, <3>1, CombinedIs
  <2>5. \A o \in Offsets(g.shape) : ReadBy(less, g, o) = Minus(ReadBy(b, g, o), 1)
    BY <2>3, OperandsAre DEF ReadBy
  <2>6. /\ power.shape = g.shape
        /\ \A o \in Offsets(g.shape) :
              power.data[o] = Power(ReadBy(a, g, o), Minus(ReadBy(b, g, o), 1))
    BY <1>3, <2>4, <2>5 DEF Combined
  <2> HIDE DEF power
  <2>7. Combined("mul", power, b, g)
    <3>1. /\ power.shape \in Seq(Nat) /\ RepeatsTo(power.shape, g.shape)
          /\ power.shape = b.shape => g.shape = power.shape \/ Numel(g.shape) <= Numel(power.shape)
      BY <1>1, <1>2, <2>6
    <3>2. QED
      BY <1>1, <3>1, CombinedIs
  <2>8. \A o \in Offsets(g.shape) : ReadBy(power, g, o) = power.data[o]
    BY <1>1, <2>6, ReadHere
  <2>9. /\ prod.shape = g.shape
        /\ \A o \in Offsets(g.shape) : prod.data[o] = Times(power.data[o], ReadBy(b, g, o))
    BY <1>3, <2>7, <2>8 DEF Combined
  <2> HIDE DEF prod
  <2>10. Combined("mul", prod, g, g)
    <3>1. prod.shape \in Seq(Nat) /\ RepeatsTo(prod.shape, g.shape)
      BY <1>1, <1>2, <2>9
    <3>2. QED
      BY <1>1, <3>1, CombinedWithGradient
  <2>11. \A o \in Offsets(g.shape) : ReadBy(prod, g, o) = prod.data[o]
    BY <1>1, <2>9, ReadHere
  <2>12. /\ t.shape = g.shape
         /\ \A o \in Offsets(g.shape) : t.data[o] = Times(prod.data[o], g.data[o])
    BY <1>3, <1>4, <2>10, <2>11 DEF Combined
  <2> HIDE DEF t
  <2>13. ASSUME NEW o \in Offsets(g.shape)
         PROVE  /\ t.data[o] = Times(g.data[o], Slope("pow", ReadBy(a, g, o), ReadBy(b, g, o))[k])
                /\ t.data[o] \in Floats
    <3> DEFINE u == ReadBy(a, g, o)
               v == ReadBy(b, g, o)
               w == g.data[o]
    <3>1. u \in Elements /\ v \in Elements /\ v # 0 /\ w \in Elements
      BY OperandsAre
    <3>2. t.data[o] = Times(Times(Power(u, Minus(v, 1)), v), w)
      BY <2>6, <2>9, <2>12
    <3>3. Slope("pow", u, v)[k] = Times(v, Power(u, v - 1))
      BY <1>5 DEF Slope
    <3> HIDE DEF u, v, w
    <3>4. Minus(v, 1) = v - 1 /\ v - 1 \in Elements
      BY <3>1, ExponentIs
    <3>5. Power(u, v - 1) \in Elements
      BY <3>1, <3>4, QuotientsAre
    <3>6. /\ Times(Times(Power(u, v - 1), v), w) = Times(w, Times(v, Power(u, v - 1)))
          /\ Times(Times(Power(u, v - 1), v), w) \in Elements
      BY <3>1, <3>5, ProductTurned
    <3>7. t.data[o] = Times(w, Slope("pow", u, v)[k]) /\ t.data[o] \in Floats
      BY <3>2, <3>3, <3>4, <3>6 DEF Floats
    <3>8. QED
      BY <3>7 DEF u, v, w
  <2>14. Owed(t, "pow", a, b, g, k)
    BY <2>12, <2>13 DEF Owed
  <2>15. QED
    BY <2>1, <2>14 DEF Reduces
<1>6. CASE k = 2
  <2> DEFINE ab == RunBinary("pow", a, b, g.shape)
             log_a == Tensor(a.shape, LAMBDA i : Log(a.data[i]))
             prod == RunBinary("mul", ab, log_a, g.shape)
             t == RunBinary("mul", prod, g, g.shape)
  <2>1. ElementwiseBackward("pow", a, b, g)[k] = ReduceTo(t, <<a, b>>[k].shape)
    BY <1>6 DEF ElementwiseBackward, PowBackward
  <2>2. log_a.shape = a.shape /\ \A i \in Offsets(a.shape) : log_a.data[i] = Log(a.data[i])
    BY DEF Tensor
  <2> HIDE DEF log_a
  <2>3. Combined("pow", a, b, g)
    <3>1. a.shape = b.shape => g.shape = a.shape \/ Numel(g.shape) <= Numel(a.shape)
      BY <1>1
    <3>2. QED
      BY <1>1, <3>1, CombinedIs
  <2>4. /\ ab.shape = g.shape
        /\ \A o \in Offsets(g.shape) : ab.data[o] = Power(ReadBy(a, g, o), ReadBy(b, g, o))
    BY <1>3, <2>3 DEF Combined
  <2> HIDE DEF ab
  <2>5. Combined("mul", ab, log_a, g)
    <3>1. /\ ab.shape \in Seq(Nat) /\ RepeatsTo(ab.shape, g.shape)
          /\ log_a.shape \in Seq(Nat) /\ RepeatsTo(log_a.shape, g.shape)
          /\ ab.shape = log_a.shape => g.shape = ab.shape \/ Numel(g.shape) <= Numel(ab.shape)
      BY <1>1, <1>2, <2>2, <2>4
    <3>2. QED
      BY <1>1, <3>1, CombinedIs
  <2>6. \A o \in Offsets(g.shape) : /\ ReadBy(ab, g, o) = ab.data[o]
                                    /\ ReadBy(log_a, g, o) = Log(ReadBy(a, g, o))
    <3>1. \A o \in Offsets(g.shape) : ReadBy(ab, g, o) = ab.data[o]
      BY <1>1, <2>4, ReadHere
    <3>2. \A o \in Offsets(g.shape) : ReadBy(log_a, g, o) = Log(ReadBy(a, g, o))
      BY <2>2, OperandsAre DEF ReadBy
    <3>3. QED
      BY <3>1, <3>2
  <2>7. /\ prod.shape = g.shape
        /\ \A o \in Offsets(g.shape) : prod.data[o] = Times(ab.data[o], Log(ReadBy(a, g, o)))
    BY <1>3, <2>5, <2>6 DEF Combined
  <2> HIDE DEF prod
  <2>8. Combined("mul", prod, g, g)
    <3>1. prod.shape \in Seq(Nat) /\ RepeatsTo(prod.shape, g.shape)
      BY <1>1, <1>2, <2>7
    <3>2. QED
      BY <1>1, <3>1, CombinedWithGradient
  <2>9. \A o \in Offsets(g.shape) : ReadBy(prod, g, o) = prod.data[o]
    BY <1>1, <2>7, ReadHere
  <2>10. /\ t.shape = g.shape
         /\ \A o \in Offsets(g.shape) : t.data[o] = Times(prod.data[o], g.data[o])
    BY <1>3, <1>4, <2>8, <2>9 DEF Combined
  <2> HIDE DEF t
  <2>11. ASSUME NEW o \in Offsets(g.shape)
         PROVE  /\ t.data[o] = Times(g.data[o], Slope("pow", ReadBy(a, g, o), ReadBy(b, g, o))[k])
                /\ t.data[o] \in Floats
    <3> DEFINE u == ReadBy(a, g, o)
               v == ReadBy(b, g, o)
               w == g.data[o]
    <3>1. u \in Elements /\ u # 0 /\ v \in Elements /\ w \in Elements
      BY OperandsAre
    <3>2. t.data[o] = Times(Times(Power(u, v), Log(u)), w)
      BY <2>4, <2>7, <2>10
    <3>3. Slope("pow", u, v)[k] = Times(Power(u, v), Log(u))
      BY <1>6 DEF Slope
    <3> HIDE DEF u, v, w
    <3>4. Power(u, v) \in Elements /\ Log(u) \in Elements
      BY <3>1, QuotientsAre, LogIs
    <3>5. /\ Times(Times(Power(u, v), Log(u)), w) = Times(w, Times(Power(u, v), Log(u)))
          /\ Times(Times(Power(u, v), Log(u)), w) \in Elements
      BY <3>1, <3>4, ProductTurned
    <3>6. t.data[o] = Times(w, Slope("pow", u, v)[k]) /\ t.data[o] \in Floats
      BY <3>2, <3>3, <3>5 DEF Floats
    <3>7. QED
      BY <3>6 DEF u, v, w
  <2>12. Owed(t, "pow", a, b, g, k)
    BY <2>10, <2>11 DEF Owed
  <2>13. QED
    BY <2>1, <2>12 DEF Reduces
<1>7. QED
  BY <1>5, <1>6

\* What an output with gradient g owes element i of operand k, of shape s.
OwedTo(op, a, b, g, s, k, i) ==
    Total({p \in Positions(g.shape) : OffsetOf(ProjectTo(p, s), s) = i},
          LAMBDA p : Times(At(g, p), Slope(op, At(a, p), At(b, p))[k]))

\* What the output owes an element, summed over the positions that read it.
LEMMA ElementwiseGradIs ==
    ASSUME NEW op, NEW a, NEW b, NEW g, Operands(a, b, g), NEW k \in {1, 2},
           Reduces(op, a, b, g, k), NEW s, s = <<a, b>>[k].shape, NEW i \in Offsets(s)
    PROVE  ElementwiseBackward(op, a, b, g)[k].data[i] = OwedTo(op, a, b, g, s, k, i)
<1> DEFINE c == g.shape
           S == {p \in Positions(c) : OffsetOf(ProjectTo(p, s), s) = i}
           f == [p \in S |-> Times(At(g, p), Slope(op, At(a, p), At(b, p))[k])]
<1>1. PICK t : /\ ElementwiseBackward(op, a, b, g)[k] = ReduceTo(t, s)
               /\ Owed(t, op, a, b, g, k)
  BY DEF Reduces
<1>2. /\ a.shape \in Seq(Nat) /\ b.shape \in Seq(Nat) /\ c \in Seq(Nat)
      /\ RepeatsTo(a.shape, c) /\ RepeatsTo(b.shape, c)
  BY DEF Operands
<1>3. s \in Seq(Nat) /\ RepeatsTo(s, c)
  BY <1>2
<1>4. /\ t.shape = c
      /\ \A o \in Offsets(c) :
            /\ t.data[o] = Times(g.data[o], Slope(op, ReadBy(a, g, o), ReadBy(b, g, o))[k])
            /\ t.data[o] \in Floats
  BY <1>1 DEF Owed
<1> DEFINE u == [o \in ReadAt(s, c, i) |-> t.data[o]]
<1>5. ReduceTo(t, s).data[i] = TotalOf(u)
  <2>1. HasNumbers(t, c)
    BY <1>4 DEF HasNumbers
  <2>2. ReduceTo(t, s).data[i] = TotalOf(Shares(t, s, c, i))
    BY <1>2, <1>3, <2>1, ReducedIs
  <2>3. QED
    BY <2>2 DEF Shares
<1>6. \A o \in ReadAt(s, c, i) : u[o] = t.data[o] /\ o \in Offsets(c) /\ u[o] \in Floats
  BY <1>4 DEF ReadAt
<1>7. ASSUME NEW p \in S PROVE f[p] = u[OffsetOf(p, c)]
  <2> DEFINE o == OffsetOf(p, c)
  <2>1. p \in Positions(c) /\ OffsetOf(ProjectTo(p, s), s) = i
    OBVIOUS
  <2> HIDE DEF S
  <2>2. o \in Offsets(c)
    BY <1>2, <2>1, OffsetIs
  <2>3. /\ OperandOffset(o, s, c) = OffsetOf(ProjectTo(p, s), s)
        /\ OperandOffset(o, a.shape, c) = OffsetOf(ProjectTo(p, a.shape), a.shape)
        /\ OperandOffset(o, b.shape, c) = OffsetOf(ProjectTo(p, b.shape), b.shape)
    BY <1>2, <1>3, <2>1, ReadsProjected
  <2>4. OffsetOf(ProjectTo(p, c), c) = o
    BY <1>2, <2>1, ReadsInPlace
  <2>5. o \in ReadAt(s, c, i)
    BY <2>1, <2>2, <2>3 DEF ReadAt
  <2>6. At(g, p) = g.data[o] /\ At(a, p) = ReadBy(a, g, o) /\ At(b, p) = ReadBy(b, g, o)
    BY <2>3, <2>4 DEF At, ReadBy
  <2>7. f[p] = Times(At(g, p), Slope(op, At(a, p), At(b, p))[k])
    OBVIOUS
  <2> HIDE DEF o, f, u
  <2>8. QED
    BY <1>4, <1>6, <2>2, <2>5, <2>6, <2>7 DEF o
<1>8. TotalOf(f) = TotalOf(u)
  <2>1. DOMAIN f = {p \in Positions(c) : OffsetOf(ProjectTo(p, s), s) = i}
    OBVIOUS
  <2>2. DOMAIN u = ReadAt(s, c, i)
    OBVIOUS
  <2>3. \A p \in DOMAIN f : f[p] = u[OffsetOf(p, c)]
    BY <1>7, <2>1
  <2> HIDE DEF f, u
  <2>4. Renumbers(f, u, s, c, i)
    BY <1>6, <2>1, <2>2, <2>3 DEF Renumbers
  <2>5. QED
    BY <1>2, <1>3, <2>4, TotalOverPositions
<1>9. OwedTo(op, a, b, g, s, k, i) = TotalOf(f)
  BY DEF OwedTo, Total, TotalOf
<1>10. QED
  BY <1>1, <1>5, <1>8, <1>9

-----------------------------------------------------------------------------
(* The backward of one op. *)

\* What a call returns, and the gradient that is put there.
Result(c) == Computed(c, Args(c))
Seed(c) == Filled(Result(c).shape, 4)

\* The gradients in the states of a direct call.
GradsInv ==
    call.op \in Direct =>
        /\ pc \in {"forward", "thrown", "recorded"} => done = 0
        /\ pc = "backward" => done = 0 /\ grads = [k \in {Len(call.shapes) + 1} |-> Seed(call)]
        /\ pc = "done" =>
              /\ DOMAIN grads = 1 .. Len(call.shapes) + 1
              /\ grads[Len(call.shapes) + 1] = Seed(call)
              /\ \A k \in 1 .. Len(call.shapes) :
                    grads[k] = Propagated(call, Args(call), Result(call), Seed(call))[k]

\* The backward of a direct op depends on the name of the op only.
LEMMA PropagatedOnly ==
    ASSUME NEW c, NEW d, c.op = d.op, d.op \in Direct, NEW in, NEW y, NEW g
    PROVE  Propagated(c, in, y, g) = Propagated(d, in, y, g)
<1>1. CASE c.op \in Elementwise
  BY <1>1 DEF Propagated
<1>2. CASE c.op \in Unary
  <2>1. c.op \notin Elementwise
    BY <1>2 DEF Elementwise, Unary
  <2>2. QED
    BY <1>2, <2>1 DEF Propagated, Unary
<1>3. CASE c.op \in {"sum", "mean", "softmax", "matmul"}
  <2>1. c.op \notin Elementwise /\ c.op \notin Unary
    BY <1>3 DEF Elementwise, Unary
  <2>2. QED
    BY <1>3, <2>1 DEF Propagated
<1>4. QED
  BY <1>1, <1>2, <1>3 DEF Direct

\* In the states after the op.
LEMMA DirectRecorded ==
    ASSUME CallInv, call.op \in Direct, pc \in {"recorded", "backward", "done"}
    PROVE  /\ call \in Calls /\ Len(call.shapes) \in Nat
           /\ DOMAIN call.shapes = 1 .. Len(call.shapes)
           /\ Accepts(call, call.shapes)
           /\ Len(values) = Len(call.shapes) + 1
           /\ values[Len(call.shapes) + 1] = Result(call)
           /\ \A k \in 1 .. Len(call.shapes) : values[k] = Args(call)[k]
           /\ inputs = Args(call) /\ output = Result(call)
<1> DEFINE g == Args(call)
           y == Result(call)
           n == Len(call.shapes)
<1>1. call \in Calls /\ Accepts(call, call.shapes) /\ values = Append(g, y)
  BY DEF CallInv, Result
<1>2. /\ n \in Nat /\ DOMAIN call.shapes = 1 .. n /\ Len(g) = n
      /\ g \in Seq({g[k] : k \in 1 .. n})
  BY <1>1, ArgsAre
<1> HIDE DEF g, y, n
<1>3. /\ Len(values) = n + 1 /\ values[n + 1] = y /\ \A k \in 1 .. n : values[k] = g[k]
      /\ SubSeq(values, 1, n) = g
  BY <1>1, <1>2, AppendedIs
<1>4. inputs = g
  BY <1>3 DEF inputs, n
<1>5. output = y
  BY <1>3 DEF output
<1>6. QED
  BY <1>1, <1>2, <1>3, <1>4, <1>5 DEF g, y, n

\* The one backward step of a direct call sets the gradients of its inputs.
LEMMA BackwardOnce ==
    ASSUME CallInv, GradsInv, call.op \in Direct, Backward
    PROVE  GradsInv'
<1> DEFINE n == Len(call.shapes)
           o == OpOf(call)
           w == Propagated(call, Args(call), Result(call), Seed(call))
<1>1. pc = "backward"
  BY DEF Backward
<1>2. done = 0 /\ grads = [k \in {n + 1} |-> Seed(call)]
  BY <1>1 DEF GradsInv
<1>3. /\ call \in Calls /\ n \in Nat /\ DOMAIN call.shapes = 1 .. n
      /\ Len(values) = n + 1 /\ values[n + 1] = Result(call)
      /\ \A k \in 1 .. n : values[k] = Args(call)[k]
  BY <1>1, DirectRecorded
<1>4. /\ OpsOf(call) = <<o>> /\ o.op = call.op /\ o.args = [k \in 1 .. n |-> k]
      /\ o.op \notin Constants
  BY <1>3, DirectOps
<1>5. Given(o) = Args(call)
  <2>1. Given(o) = [k \in 1 .. n |-> values[k]]
    <3>1. DOMAIN o.args = 1 .. n /\ \A k \in 1 .. n : o.args[k] = k
      BY <1>4
    <3> HIDE DEF o, n
    <3>2. QED
      BY <3>1 DEF Given
  <2>2. Args(call) = [k \in 1 .. n |-> Args(call)[k]]
    BY <1>3 DEF Args
  <2>3. [k \in 1 .. n |-> values[k]] = [k \in 1 .. n |-> Args(call)[k]]
    BY <1>3
  <2>4. QED
    BY <2>1, <2>2, <2>3
<1>6. grads[n + 1] = Seed(call) /\ DOMAIN grads = {n + 1}
  BY <1>2
<1>7. Propagated(o, Given(o), values[n + 1], grads[n + 1]) = w
  <2>1. Propagated(o, Args(call), Result(call), Seed(call)) = w
    <3> HIDE DEF o
    <3>1. QED
      BY <1>4, PropagatedOnly
  <2>2. QED
    BY <1>3, <1>5, <1>6, <2>1
<1>8. Len(OpsOf(call)) = 1 /\ OpsOf(call)[1] = o
  BY <1>4
<1> HIDE DEF n, o, w
<1>9. /\ pc' = "done" /\ UNCHANGED call
      /\ grads' = Joined([k \in {o.args[i] : i \in DOMAIN o.args} |->
                             Arrived(k, w[CHOOSE i \in DOMAIN o.args : o.args[i] = k])], grads)
  <2>1. Len(OpsOf(call)) - done = 1 /\ done + 1 = 1 /\ Len(call.shapes) + 1 = n + 1
    BY <1>2, <1>8 DEF n
  <2>2. /\ done' = done + 1 /\ call' = call
        /\ pc' = IF done' = Len(OpsOf(call)) THEN "done" ELSE "backward"
    BY DEF Backward
  <2>3. pc' = "done" /\ UNCHANGED call
    BY <1>8, <2>1, <2>2
  <2> DEFINE Next1(p, y, g) ==
                 IF y \notin DOMAIN grads \/ p.op \in Constants THEN grads
                 ELSE Joined([k \in {p.args[i] : i \in DOMAIN p.args} |->
                         Arrived(k, g[CHOOSE i \in DOMAIN p.args : p.args[i] = k])], grads)
             Turn(p, y) == Next1(p, y, Propagated(p, Given(p), values[y], grads[y]))
             At1(e) == Turn(OpsOf(call)[e], Len(call.shapes) + e)
  <2>4. grads' = At1(Len(OpsOf(call)) - done)
    BY DEF Backward
  <2> HIDE DEF At1
  <2>5. grads' = At1(1)
    BY <2>1, <2>4
  <2>6. At1(1) = Turn(OpsOf(call)[1], Len(call.shapes) + 1)
    BY DEF At1
  <2> HIDE DEF Turn
  <2>7. grads' = Turn(o, n + 1)
    BY <1>8, <2>1, <2>5, <2>6
  <2>8. Turn(o, n + 1) = Next1(o, n + 1, Propagated(o, Given(o), values[n + 1], grads[n + 1]))
    BY DEF Turn
  <2> HIDE DEF Next1
  <2>9. grads' = Next1(o, n + 1, w)
    BY <1>7, <2>7, <2>8
  <2>10. Next1(o, n + 1, w)
           = Joined([k \in {o.args[i] : i \in DOMAIN o.args} |->
                       Arrived(k, w[CHOOSE i \in DOMAIN o.args : o.args[i] = k])], grads)
    BY <1>4, <1>6 DEF Next1
  <2>11. QED
    BY <2>3, <2>9, <2>10
<1>10. [k \in {o.args[i] : i \in DOMAIN o.args} |->
            Arrived(k, w[CHOOSE i \in DOMAIN o.args : o.args[i] = k])]
         = [k \in 1 .. n |-> w[k]]
  <2>1. DOMAIN o.args = 1 .. n /\ \A k \in 1 .. n : o.args[k] = k
    BY <1>4
  <2>2. {o.args[i] : i \in DOMAIN o.args} = 1 .. n
    BY <2>1
  <2>3. ASSUME NEW k \in 1 .. n
        PROVE  Arrived(k, w[CHOOSE i \in DOMAIN o.args : o.args[i] = k]) = w[k]
    <3>1. (CHOOSE i \in DOMAIN o.args : o.args[i] = k) = k
      BY <2>1
    <3>2. k \notin DOMAIN grads
      BY <1>3, <1>6
    <3>3. QED
      BY <3>1, <3>2 DEF Arrived
  <2>4. QED
    BY <2>2, <2>3
<1> DEFINE f == [k \in 1 .. n |-> w[k]]
<1>11. grads' = [x \in DOMAIN f \cup DOMAIN grads |-> IF x \in DOMAIN f THEN f[x] ELSE grads[x]]
  BY <1>9, <1>10 DEF Joined
<1>12. /\ DOMAIN grads' = 1 .. n + 1
       /\ grads'[n + 1] = Seed(call)
       /\ \A k \in 1 .. n : grads'[k] = w[k]
  <2>1. DOMAIN f = 1 .. n /\ \A k \in 1 .. n : f[k] = w[k]
    OBVIOUS
  <2>2. 1 .. n + 1 = (1 .. n) \cup {n + 1} /\ n + 1 \notin 1 .. n
    BY <1>3 DEF n
  <2> HIDE DEF f
  <2>3. QED
    BY <1>6, <1>11, <2>1, <2>2
<1>13. QED
  BY <1>9, <1>12 DEF GradsInv, n, w, Result, Seed, Args

\* No gradient is there at the start.
LEMMA GradsInvInit == Init => GradsInv
BY DEF Init, GradsInv

\* The gradients of a direct call stay what its backward propagated.
LEMMA GradsInvStep ==
    ASSUME CallInv, GradsInv, [Next]_vars
    PROVE  GradsInv'
<1>0. pc \in {"forward", "thrown", "recorded", "backward", "done"}
  BY DEF CallInv
<1>1. ASSUME Throw PROVE GradsInv'
  BY <1>1 DEF Throw, GradsInv
<1>2. ASSUME Forward PROVE GradsInv'
  <2>1. pc = "forward" /\ pc' \in {"forward", "recorded"} /\ call' = call /\ done' = done
    BY <1>2 DEF Forward
  <2>2. QED
    BY <2>1 DEF GradsInv
<1>3. ASSUME StartBackward PROVE GradsInv'
  <2>1. /\ pc = "recorded" /\ pc' = "backward" /\ call' = call /\ done' = done
        /\ grads' = [k \in {Len(values)} |-> Filled(values[k].shape, 4)]
    BY <1>3 DEF StartBackward
  <2>2. CASE call.op \in Direct
    <3>1. Len(values) = Len(call.shapes) + 1 /\ values[Len(call.shapes) + 1] = Result(call)
      BY <2>1, <2>2, DirectRecorded
    <3>2. grads' = [k \in {Len(call.shapes) + 1} |-> Seed(call)]
      BY <2>1, <3>1 DEF Seed
    <3>3. done = 0
      BY <2>1, <2>2 DEF GradsInv
    <3>4. QED
      BY <2>1, <3>2, <3>3 DEF GradsInv, Seed, Result, Args
  <2>3. CASE call.op \notin Direct
    BY <2>1, <2>3 DEF GradsInv
  <2>4. QED
    BY <2>2, <2>3
<1>4. ASSUME Backward PROVE GradsInv'
  <2>1. CASE call.op \in Direct
    BY <1>4, <2>1, BackwardOnce
  <2>2. CASE call.op \notin Direct
    BY <1>4, <2>2 DEF Backward, GradsInv
  <2>3. QED
    BY <2>1, <2>2
<1>5. CASE UNCHANGED vars
  BY <1>0, <1>5 DEF vars, GradsInv, Seed, Result, Args
<1>6. QED
  BY <1>1, <1>2, <1>3, <1>4, <1>5 DEF Next

\* t has a number other than 0 at every offset of s.
NoZeros(t, s) == \A i \in Offsets(s) : t.data[i] \in Elements \ {0}

\* The test data are numbers, and none of them is 0.
LEMMA FilledIs ==
    ASSUME NEW s \in Seq(Nat), NEW k \in Nat
    PROVE  Filled(s, k).shape = s /\ NoZeros(Filled(s, k), s)
<1>1. Filled(s, k).shape = s
  BY DEF Filled, Tensor
<1>2. ASSUME NEW i \in Offsets(s) PROVE Filled(s, k).data[i] \in Elements \ {0}
  <2> DEFINE m == i * (k + 1) + 3 * k
  <2>1. i \in Nat
    BY OffsetsFinite DEF Offsets
  <2>2. m \in Int /\ P - 2 \in Nat /\ P - 2 > 0
    <3>1. i * (k + 1) \in Int
      BY <2>1
    <3>2. QED
      BY <3>1, ElementsAre
  <2>3. Filled(s, k).data[i] = 1 + (m % (P - 2))
    BY DEF Filled, Tensor
  <2> HIDE DEF m
  <2> DEFINE r == m % (P - 2)
  <2>4. r \in 0 .. (P - 2) - 1
    BY <2>2
  <2> HIDE DEF r
  <2>5. 1 + r \in 0 .. P - 1 /\ 1 + r # 0
    BY <2>4, PrimeAssumption
  <2>6. QED
    BY <2>3, <2>5 DEF Elements, r
<1>3. QED
  BY <1>1, <1>2 DEF NoZeros

\* When the backward of a direct call has run.
LEMMA DirectDone ==
    ASSUME CallInv, GradsInv, call.op \in Direct, pc = "done"
    PROVE  /\ call \in Calls /\ Accepts(call, call.shapes)
           /\ Len(call.shapes) \in Nat /\ DOMAIN call.shapes = 1 .. Len(call.shapes)
           /\ inputs = Args(call) /\ output = Result(call) /\ og = Seed(call)
           /\ \A k \in DOMAIN call.shapes :
                 /\ grads[k] = Propagated(call, Args(call), Result(call), Seed(call))[k]
                 /\ call.shapes[k] \in Seq(Nat)
                 /\ Args(call)[k].shape = call.shapes[k]
                 /\ NoZeros(Args(call)[k], call.shapes[k])
<1>1. /\ call \in Calls /\ Len(call.shapes) \in Nat /\ Accepts(call, call.shapes)
      /\ DOMAIN call.shapes = 1 .. Len(call.shapes)
      /\ Len(values) = Len(call.shapes) + 1
      /\ inputs = Args(call) /\ output = Result(call)
  BY DirectRecorded
<1>2. /\ grads[Len(call.shapes) + 1] = Seed(call)
      /\ \A k \in 1 .. Len(call.shapes) :
            grads[k] = Propagated(call, Args(call), Result(call), Seed(call))[k]
  BY DEF GradsInv
<1>3. og = Seed(call)
  BY <1>1, <1>2 DEF og
<1>4. ASSUME NEW k \in DOMAIN call.shapes
      PROVE  /\ call.shapes[k] \in Seq(Nat) /\ Args(call)[k].shape = call.shapes[k]
             /\ NoZeros(Args(call)[k], call.shapes[k])
  <2>1. /\ call.shapes[k] \in Seq(Nat) /\ Args(call)[k].shape = call.shapes[k]
        /\ Args(call)[k] = Filled(call.shapes[k], k)
    BY <1>1, ArgsAre
  <2>2. k \in Nat
    BY <1>1
  <2>3. QED
    BY <2>1, <2>2, FilledIs
<1>5. QED
  BY <1>1, <1>2, <1>3, <1>4

\* The gradients of an elementwise op are its derivatives.
LEMMA ElementwiseGrads ==
    ASSUME CallInv, GradsInv, call.op \in Elementwise, pc = "done",
           NEW k \in Differentiable, ~RepeatedDivisor(k)
    PROVE  IsDerivative(k)
<1> DEFINE a == Args(call)[1]
           b == Args(call)[2]
           g == Seed(call)
           c == BroadcastShape(a.shape, b.shape)
<1>1. /\ call \in Calls /\ Accepts(call, call.shapes)
      /\ Len(call.shapes) \in Nat /\ DOMAIN call.shapes = 1 .. Len(call.shapes)
      /\ inputs = Args(call) /\ output = Result(call) /\ og = g
      /\ \A j \in DOMAIN call.shapes :
            /\ grads[j] = Propagated(call, Args(call), Result(call), g)[j]
            /\ call.shapes[j] \in Seq(Nat)
            /\ Args(call)[j].shape = call.shapes[j]
            /\ NoZeros(Args(call)[j], call.shapes[j])
  BY DirectDone DEF Direct
<1>2. Len(call.shapes) = 2
  BY <1>1, CallsAssumption
<1>3. k \in {1, 2} /\ 1 \in DOMAIN call.shapes /\ 2 \in DOMAIN call.shapes
  BY <1>1, <1>2 DEF Differentiable, Inputs
<1>4. /\ a.shape \in Seq(Nat) /\ b.shape \in Seq(Nat)
      /\ a.shape = call.shapes[1] /\ b.shape = call.shapes[2]
      /\ NoZeros(a, a.shape)
      /\ NoZeros(b, b.shape)
  BY <1>1, <1>3
<1>5. /\ Result(call) = RunBinary(call.op, a, b, c)
      /\ Propagated(call, Args(call), Result(call), g) = ElementwiseBackward(call.op, a, b, g)
      /\ Accepts(call, call.shapes) = Broadcastable(call.shapes[1], call.shapes[2])
  <2>1. Result(call) = RunBinary(call.op, a, b, c)
    BY DEF Result, Computed, Binary, Elementwise, Unary
  <2>2. Propagated(call, Args(call), Result(call), g) = ElementwiseBackward(call.op, a, b, g)
    BY DEF Propagated, Elementwise, Unary, Constants
  <2>3. Accepts(call, call.shapes) = Broadcastable(call.shapes[1], call.shapes[2])
    BY DEF Accepts, Elementwise
  <2>4. QED
    BY <2>1, <2>2, <2>3
<1>6. /\ c \in Seq(Nat) /\ RepeatsTo(a.shape, c) /\ RepeatsTo(b.shape, c)
      /\ a.shape = b.shape => c = a.shape
  <2> HIDE DEF a, b
  <2>1. Broadcastable(a.shape, b.shape)
    BY <1>1, <1>4, <1>5
  <2>2. QED
    BY <1>4, <2>1, BroadcastIs, RepeatsToItself
<1>7. output.shape = c /\ g = Filled(c, 4)
  <2>1. Result(call).shape = c
    BY <1>5 DEF RunBinary, Tensor
  <2>2. QED
    BY <1>1, <2>1 DEF Seed
<1> HIDE DEF a, b, c, g
<1>8. g.shape = c /\ \A o \in Offsets(c) : g.data[o] \in Elements
  BY <1>6, <1>7, FilledIs DEF NoZeros
<1>9. Operands(a, b, g)
  BY <1>4, <1>6, <1>8 DEF Operands, NoZeros
<1>10. Reduces(call.op, a, b, g, k)
  <2>1. CASE call.op = "add"
    BY <1>3, <1>9, <2>1, AddReduces
  <2>2. CASE call.op = "sub"
    BY <1>3, <1>9, <2>2, SubReduces
  <2>3. CASE call.op = "mul"
    BY <1>3, <1>9, <2>3, MulReduces
  <2>4. CASE call.op = "div"
    <3>1. k = 2 => Numel(g.shape) <= Numel(b.shape)
      <4>1. Numel(c) \in Nat /\ Numel(b.shape) \in Nat
        BY <1>4, <1>6, OffsetsFinite
      <4>2. k = 2 => ~(Numel(b.shape) < Numel(c))
        BY <1>1, <1>7, <2>4 DEF RepeatedDivisor, b
      <4>3. QED
        BY <1>8, <4>1, <4>2
    <3>2. QED
      BY <1>3, <1>9, <2>4, <3>1, DivReduces
  <2>5. CASE call.op = "pow"
    BY <1>3, <1>9, <2>5, PowReduces
  <2>6. QED
    BY <2>1, <2>2, <2>3, <2>4, <2>5 DEF Elementwise
<1> DEFINE x == inputs[k]
<1>11. x = <<a, b>>[k] /\ inputs[1] = a /\ inputs[2] = b
  BY <1>1, <1>3 DEF a, b
<1>12. grads[k] = ElementwiseBackward(call.op, a, b, g)[k]
  BY <1>1, <1>3, <1>5
<1>13. ASSUME NEW i \in Offsets(x.shape) PROVE grads[k].data[i] = ElementwiseGrad(k, i)
  <2> DEFINE s == <<a, b>>[k].shape
  <2>1. x.shape = s
    BY <1>11
  <2>2. ElementwiseBackward(call.op, a, b, g)[k].data[i] = OwedTo(call.op, a, b, g, s, k, i)
    <3> HIDE DEF x
    <3>1. i \in Offsets(s)
      BY <2>1
    <3>2. QED
      BY <1>3, <1>9, <1>10, <3>1, ElementwiseGradIs
  <2>3. ElementwiseGrad(k, i) = OwedTo(call.op, a, b, g, s, k, i)
    <3>1. output.shape = g.shape
      BY <1>7, <1>8
    <3>2. ElementwiseGrad(k, i) = OwedTo(call.op, inputs[1], inputs[2], og, x.shape, k, i)
      BY <1>1, <3>1 DEF ElementwiseGrad, OwedTo
    <3> HIDE DEF x, s
    <3>3. QED
      BY <1>1, <1>11, <2>1, <3>2
  <2>4. QED
    BY <1>12, <2>2, <2>3
<1>14. IsDerivative(k) = \A i \in Offsets(inputs[k].shape) : grads[k].data[i] = ElementwiseGrad(k, i)
  BY DEF IsDerivative, Elementwise, Unary
<1>15. QED
  BY <1>13, <1>14

-----------------------------------------------------------------------------
(* The field: inverses, exp and log. *)

LEMMA OfIntegers ==
    ASSUME NEW x \in Int, NEW y \in Int
    PROVE  /\ x % P \in Elements
           /\ Plus(x % P, y % P) = (x + y) % P
           /\ Minus(x % P, y % P) = (x - y) % P
           /\ Times(x % P, y % P) = (x * y) % P
<1>1. P \in Nat /\ P > 0
  BY PrimeAssumption
<1>2. x % P \in Elements /\ y % P \in Elements
  BY ElementsAre
<1>3. Plus(x % P, y % P) = (x + y) % P
  <2>1. \A i, j \in Int : ((i % P) + (j % P)) % P = (i + j) % P
    BY <1>1, RemainderSum
  <2>2. QED
    BY <1>2, <2>1, OperationsAre
<1>4. Minus(x % P, y % P) = (x - y) % P
  <2>1. \A i, j \in Int : ((i % P) - (j % P)) % P = (i - j) % P
    BY <1>1, RemainderMinus
  <2>2. QED
    BY <1>2, <2>1, OperationsAre
<1>5. Times(x % P, y % P) = (x * y) % P
  <2>1. Times(x % P, y % P) = ((x % P) * (y % P)) % P
    BY <1>2, OperationsAre
  <2>2. y % P \in Int
    BY <1>2, ElementsAre
  <2>3. \A i, j \in Int : ((i % P) * j) % P = (i * j) % P
    BY <1>1, RemainderTimes
  <2>4. \A i, j \in Int : (i * (j % P)) % P = (i * j) % P
    BY <1>1, RemainderProduct
  <2>5. ((x % P) * (y % P)) % P = (x * (y % P)) % P
    BY <2>2, <2>3
  <2>6. (x * (y % P)) % P = (x * y) % P
    BY <2>4
  <2>7. QED
    BY <2>1, <2>5, <2>6
<1>6. QED
  BY <1>2, <1>3, <1>4, <1>5

\* Subtraction and multiplication modulo P distribute and cancel.
LEMMA RingLaws ==
    ASSUME NEW x \in Elements, NEW y \in Elements, NEW z \in Elements
    PROVE  /\ Times(x, Plus(y, z)) = Plus(Times(x, y), Times(x, z))
           /\ Times(x, Minus(y, z)) = Minus(Times(x, y), Times(x, z))
           /\ Minus(x, x) = 0 /\ Plus(x, 0) = x /\ Minus(x, 0) = x
           /\ Minus(x, y) = 0 => x = y
           /\ Plus(x, y) = Plus(y, x)
           /\ Minus(Plus(x, y), x) = y
           /\ Minus(0, Minus(0, x)) = x
<1>1. x \in Int /\ y \in Int /\ z \in Int /\ x % P = x /\ y % P = y /\ z % P = z /\ 0 % P = 0
  BY ElementsAre
<1>2. /\ \A i, j \in Int : Plus(i % P, j % P) = (i + j) % P
      /\ \A i, j \in Int : Minus(i % P, j % P) = (i - j) % P
      /\ \A i, j \in Int : Times(i % P, j % P) = (i * j) % P
  BY OfIntegers
<1>3. /\ x * y \in Int /\ x * z \in Int /\ y + z \in Int /\ y - z \in Int
      /\ x * (y + z) = x * y + x * z /\ x * (y - z) = x * y - x * z
  BY <1>1
<1>4. Times(x, y) = (x * y) % P /\ Times(x, z) = (x * z) % P
  BY <1>1, <1>2
<1>5. Times(x, Plus(y, z)) = Plus(Times(x, y), Times(x, z))
  <2>1. Plus(y, z) = (y + z) % P
    BY <1>1, <1>2
  <2>2. Times(x % P, (y + z) % P) = (x * (y + z)) % P
    BY <1>1, <1>2, <1>3
  <2>3. Plus((x * y) % P, (x * z) % P) = (x * y + x * z) % P
    BY <1>2, <1>3
  <2>4. QED
    BY <1>1, <1>3, <1>4, <2>1, <2>2, <2>3
<1>6. Times(x, Minus(y, z)) = Minus(Times(x, y), Times(x, z))
  <2>1. Minus(y, z) = (y - z) % P
    BY <1>1, <1>2
  <2>2. Times(x % P, (y - z) % P) = (x * (y - z)) % P
    BY <1>1, <1>2, <1>3
  <2>3. Minus((x * y) % P, (x * z) % P) = (x * y - x * z) % P
    BY <1>2, <1>3
  <2>4. QED
    BY <1>1, <1>3, <1>4, <2>1, <2>2, <2>3
<1>7. Minus(x, x) = 0 /\ Plus(x, 0) = x /\ Minus(x, 0) = x
  <2>1. x - x = 0 /\ x + 0 = x /\ x - 0 = x
    BY <1>1
  <2>2. Minus(x % P, x % P) = (x - x) % P /\ Plus(x % P, 0 % P) = (x + 0) % P
        /\ Minus(x % P, 0 % P) = (x - 0) % P
    BY <1>1, <1>2
  <2>3. QED
    BY <1>1, <2>1, <2>2
<1>8. Plus(x, y) = Plus(y, x)
  <2>1. x + y = y + x
    BY <1>1
  <2>2. QED
    BY <2>1, OperationsAre
<1>9. Minus(Plus(x, y), x) = y
  <2>1. x + y \in Int /\ (x + y) - x = y
    BY <1>1
  <2>2. Plus(x, y) = (x + y) % P
    BY OperationsAre
  <2>3. Minus((x + y) % P, x % P) = ((x + y) - x) % P
    BY <1>1, <1>2, <2>1
  <2>4. QED
    BY <1>1, <2>1, <2>2, <2>3
<1>10. Minus(0, Minus(0, x)) = x
  <2>1. 0 - x \in Int /\ 0 - (0 - x) = x
    BY <1>1
  <2>2. Minus(0 % P, x % P) = (0 - x) % P /\ Minus(0 % P, (0 - x) % P) = (0 - (0 - x)) % P
    BY <1>1, <1>2, <2>1
  <2>3. QED
    BY <1>1, <2>1, <2>2
<1>11. Minus(x, y) = 0 => x = y
  <2> SUFFICES ASSUME (x - y) % P = 0 PROVE x = y
    BY OperationsAre
  <2>1. P \in Nat /\ P > 0 /\ x < P /\ y < P /\ x >= 0 /\ y >= 0
    BY ElementsAre
  <2>2. (((x - y) % P) + y) % P = ((x - y) + y) % P
    BY <1>1, <2>1, RemainderPlus
  <2>3. (x - y) + y = x /\ 0 + y = y
    BY <1>1
  <2>4. QED
    BY <1>1, <2>2, <2>3
<1>12. QED
  BY <1>5, <1>6, <1>7, <1>8, <1>9, <1>10, <1>11

\* Powers[x][n] is the n-th power of x.
LEMMA PowersAre ==
    ASSUME NEW x \in Elements
    PROVE  /\ Powers[x][0] = 1
           /\ \A n \in Nat : /\ Powers[x][n] \in Elements
                             /\ Powers[x][n + 1] = Times(x, Powers[x][n])
<1>1. Powers[x] = [k \in Nat |-> IF k = 0 THEN 1 % P ELSE (x * Powers[x][k - 1]) % P]
  BY PowersFollow
<1>2. \A n \in Nat : Powers[x][n] \in Elements
  BY PowersInRange
<1> DEFINE f == Powers[x]
<1> HIDE DEF f
<1>3. f[0] = 1
  BY <1>1, ElementsAre DEF f
<1>4. ASSUME NEW n \in Nat PROVE f[n + 1] = Times(x, f[n])
  <2>1. n + 1 \in Nat /\ n + 1 # 0 /\ (n + 1) - 1 = n
    OBVIOUS
  <2>2. f[n + 1] = (x * f[n]) % P
    BY <1>1, <2>1 DEF f
  <2>3. QED
    BY <1>2, <2>2, OperationsAre DEF f
<1>5. QED
  BY <1>2, <1>3, <1>4 DEF f

\* Exponents add.
LEMMA PowersAdd ==
    ASSUME NEW x \in Elements, NEW m \in Nat, NEW n \in Nat
    PROVE  Powers[x][m + n] = Times(Powers[x][m], Powers[x][n])
<1> DEFINE f == Powers[x]
           C == {k \in Nat : f[k + n] = Times(f[k], f[n])}
<1>1. f[0] = 1 /\ \A k \in Nat : f[k] \in Elements /\ f[k + 1] = Times(x, f[k])
  BY PowersAre
<1> HIDE DEF f
<1>2. 0 \in C
  <2>1. Times(1, f[n]) = f[n]
    BY <1>1, TimesCommutes, TimesOne, ElementsAre
  <2>2. 0 + n = n
    OBVIOUS
  <2>3. QED
    BY <1>1, <2>1, <2>2
<1>3. ASSUME NEW k \in Nat, k \in C PROVE k + 1 \in C
  <2>1. k + n \in Nat /\ (k + 1) + n = (k + n) + 1 /\ k + 1 \in Nat
    OBVIOUS
  <2>2. f[(k + 1) + n] = Times(x, Times(f[k], f[n]))
    BY <1>1, <1>3, <2>1
  <2>3. Times(Times(x, f[k]), f[n]) = Times(x, Times(f[k], f[n]))
    BY <1>1, TimesAssociates
  <2>4. QED
    BY <1>1, <2>1, <2>2, <2>3
<1>4. Nat \subseteq C
  <2> HIDE DEF C
  <2>1. QED
    BY <1>2, <1>3, AllNat
<1>5. QED
  BY <1>4 DEF f

\* log and exp undo each other on a period, so exp takes no value twice there.
LEMMA LogInverts ==
    /\ \A n \in 0 .. P - 2 : /\ Exp(n) \in Elements /\ Exp(n) # 0 /\ Log(Exp(n)) = n
                             /\ Exp(n) = Powers[Generator][n]
    /\ \A x \in Elements \ {0} : Log(x) \in 0 .. P - 2 /\ Exp(Log(x)) = x
<1> DEFINE S == Elements \ {0}
           T == 0 .. P - 2
           f == [x \in S |-> Log(x)]
<1>1. ASSUME NEW x \in S PROVE Log(x) \in T /\ Exp(Log(x)) = x
  <2>1. \E n \in 0 .. P - 2 : Exp(n) = x
    BY GeneratorAssumption
  <2>2. x \notin {0, NaN}
    BY ElementsAre
  <2>3. QED
    BY <2>1, <2>2 DEF Log
<1>2. IsFiniteSet(S) /\ IsFiniteSet(T) /\ Cardinality(S) = Cardinality(T)
  <2>1. P \in Nat /\ P > 2
    BY PrimeAssumption
  <2>2. S = 1 .. P - 1
    BY <2>1 DEF Elements
  <2>3. IsFiniteSet(1 .. P - 1) /\ Cardinality(1 .. P - 1) = (P - 1) - 1 + 1
    BY <2>1, FS_Interval
  <2>4. IsFiniteSet(0 .. P - 2) /\ Cardinality(0 .. P - 2) = (P - 2) - 0 + 1
    BY <2>1, FS_Interval
  <2>5. (P - 1) - 1 + 1 = (P - 2) - 0 + 1
    BY <2>1
  <2>6. QED
    BY <2>2, <2>3, <2>4, <2>5
<1>3. f \in Injection(S, T)
  <2>1. f \in [S -> T]
    BY <1>1
  <2>2. \A x, y \in S : f[x] = f[y] => x = y
    BY <1>1
  <2> HIDE DEF f, S, T
  <2>3. QED
    BY <2>1, <2>2 DEF Injection, IsInjective
<1>4. f \in Surjection(S, T)
  <2> HIDE DEF f, S, T
  <2>1. QED
    BY <1>2, <1>3, FS_Injection
<1>5. ASSUME NEW n \in T PROVE \E x \in S : Log(x) = n
  <2>1. \E x \in S : f[x] = n
    BY <1>4 DEF Surjection
  <2>2. QED
    BY <2>1
<1>6. ASSUME NEW n \in T
      PROVE  /\ Exp(n) \in Elements /\ Exp(n) # 0 /\ Log(Exp(n)) = n
             /\ Exp(n) = Powers[Generator][n]
  <2>1. PICK x \in S : Log(x) = n
    BY <1>5
  <2>2. Exp(n) = x
    BY <1>1, <2>1
  <2>3. n % (P - 1) = n
    <3>1. P - 1 \in Nat /\ P - 1 > 0 /\ n \in 0 .. (P - 1) - 1
      BY PrimeAssumption
    <3>2. QED
      BY <3>1, RemainderSmall
  <2>4. QED
    BY <2>1, <2>2, <2>3 DEF Exp
<1>7. QED
  BY <1>1, <1>6

\* No power of the generator is 0 or comes back before the last.
LEMMA GeneratorTurns ==
    /\ Generator \in Elements /\ Powers[Generator][P - 1] = 1
    /\ \A y \in Elements \ {0} : Times(Generator, y) # 0
<1> DEFINE G == Generator
           f == Powers[Generator]
           N == P - 2
<1>1. /\ G \in Elements /\ f[0] = 1
      /\ \A n \in Nat : f[n] \in Elements /\ f[n + 1] = Times(G, f[n])
  BY GeneratorAssumption, PowersAre
<1>2. /\ \A n \in 0 .. N : f[n] # 0 /\ Log(f[n]) = n
      /\ \A x \in Elements \ {0} : Log(x) \in 0 .. N /\ f[Log(x)] = x
  BY LogInverts
<1>3. N \in Nat /\ N > 0 /\ N + 1 = P - 1
  BY PrimeAssumption
<1>4. \A m, n \in 0 .. N : f[m] = f[n] => m = n
  BY <1>2
<1> HIDE DEF f, N
<1>5. f[1] = G /\ G # 0
  <2>1. 1 \in 0 .. N /\ 0 + 1 = 1
    BY <1>3
  <2>2. f[0 + 1] = Times(G, f[0])
    BY <1>1
  <2>3. Times(G, 1) = G
    BY <1>1, TimesOne
  <2>4. QED
    BY <1>1, <1>2, <2>1, <2>2, <2>3
<1>6. f[N + 1] # 0
  <2> SUFFICES ASSUME f[N + 1] = 0 PROVE FALSE
    OBVIOUS
  <2> DEFINE x == f[N]
             z == Plus(1, x)
  <2>1. x \in Elements /\ x # 0 /\ z \in Elements /\ Times(G, x) = 0
    <3>1. N \in 0 .. N /\ x \in Elements
      BY <1>1, <1>3
    <3>2. x # 0 /\ Times(G, x) = 0
      BY <1>1, <1>2, <1>3, <3>1
    <3> HIDE DEF x
    <3>3. z \in Elements
      BY <3>1, OperationsAre, ElementsAre
    <3>4. QED
      BY <3>1, <3>2, <3>3
  <2> HIDE DEF x
  <2>2. Times(G, z) = G
    <3>1. Times(G, z) = Plus(Times(G, 1), Times(G, x))
      BY <1>1, <2>1, RingLaws, ElementsAre
    <3>2. Times(G, 1) = G /\ Plus(G, 0) = G
      BY <1>1, TimesOne, RingLaws, ElementsAre
    <3>3. QED
      BY <2>1, <3>1, <3>2
  <2> HIDE DEF z
  <2>3. z # 0
    BY <1>1, <1>5, <2>2, TimesOne
  <2>4. PICK j \in 0 .. N : f[j] = z
    BY <1>2, <2>1, <2>3
  <2>5. f[j + 1] = f[1]
    BY <1>1, <1>5, <2>2, <2>4
  <2>6. j # N
    BY <1>5, <2>5
  <2>7. j + 1 \in 0 .. N /\ 1 \in 0 .. N
    BY <1>3, <2>6
  <2>8. j = 0
    <3>1. j + 1 = 1
      BY <1>4, <2>5, <2>7
    <3>2. QED
      BY <3>1
  <2>9. Plus(1, x) = 1
    BY <1>1, <2>4, <2>8 DEF z
  <2>10. Minus(Plus(1, x), 1) = x /\ Minus(1, 1) = 0
    BY <2>1, RingLaws, ElementsAre
  <2>11. QED
    BY <2>1, <2>9, <2>10
<1>7. \A y \in Elements \ {0} : Times(G, y) # 0
  <2> SUFFICES ASSUME NEW y \in Elements \ {0} PROVE Times(G, y) # 0
    OBVIOUS
  <2>1. PICK i \in 0 .. N : f[i] = y
    BY <1>2
  <2>2. f[i + 1] = Times(G, y)
    BY <1>1, <2>1
  <2>3. i + 1 \in 0 .. N \/ i + 1 = N + 1
    BY <1>3
  <2>4. QED
    BY <1>2, <1>6, <2>2, <2>3
<1>8. f[N + 1] = 1
  <2>1. f[N + 1] \in Elements
    BY <1>1, <1>3
  <2>2. PICK j \in 0 .. N : f[j] = f[N + 1]
    BY <1>2, <1>6, <2>1
  <2>3. CASE j = 0
    BY <1>1, <2>2, <2>3
  <2>4. CASE j # 0
    <3>1. j - 1 \in 0 .. N /\ j - 1 \in Nat /\ (j - 1) + 1 = j /\ j - 1 # N
      BY <1>3, <2>4
    <3> DEFINE u == f[N]
               v == f[j - 1]
    <3>2. u \in Elements /\ v \in Elements /\ Times(G, u) = f[N + 1] /\ Times(G, v) = f[j]
      <4>1. f[(j - 1) + 1] = Times(G, v)
        BY <1>1, <3>1
      <4>2. QED
        BY <1>1, <1>3, <3>1, <4>1
    <3>3. Times(G, Minus(u, v)) = Minus(Times(G, u), Times(G, v))
      BY <1>1, <3>2, RingLaws
    <3>4. Times(G, u) \in Elements /\ Times(G, u) = Times(G, v)
      BY <1>1, <2>2, <3>2, OperationsAre
    <3>5. Times(G, Minus(u, v)) = 0
      <4>1. Minus(Times(G, u), Times(G, u)) = 0
        BY <3>4, RingLaws
      <4>2. QED
        BY <3>3, <3>4, <4>1
    <3>6. Minus(u, v) \in Elements
      BY <3>2, OperationsAre
    <3>7. Minus(u, v) = 0
      BY <1>7, <3>5, <3>6
    <3>8. u = v
      BY <3>2, <3>7, RingLaws
    <3>9. N = j - 1
      BY <1>3, <1>4, <3>1, <3>8
    <3>10. QED
      BY <3>1, <3>9
  <2>5. QED
    BY <2>3, <2>4
<1>9. QED
  BY <1>1, <1>3, <1>7, <1>8 DEF f

\* exp of any number of turns more.
LEMMA ExpIs ==
    /\ \A n \in Nat : Exp(n) = Powers[Generator][n]
    /\ \A n \in Int : Exp(n) \in Elements /\ Exp(n) # 0
    /\ Exp(0) = 1
<1> DEFINE f == Powers[Generator]
           N == P - 1
<1>1. /\ Generator \in Elements /\ f[N] = 1 /\ f[0] = 1
      /\ \A n \in Nat : f[n] \in Elements
      /\ \A m, n \in Nat : f[m + n] = Times(f[m], f[n])
  BY GeneratorTurns, PowersAre, PowersAdd
<1>2. N \in Nat /\ N > 0
  BY PrimeAssumption
<1>3. \A n \in Int : Exp(n) = f[n % N]
  BY DEF Exp
<1>4. ASSUME NEW n \in Int PROVE Exp(n) \in Elements /\ Exp(n) # 0
  <2>1. n % N \in 0 .. N - 1
    BY <1>2
  <2>2. n % N \in 0 .. P - 2
    <3>1. N - 1 = P - 2
      BY PrimeAssumption
    <3>2. QED
      BY <2>1, <3>1
  <2>3. Exp(n % N) = f[n % N] /\ Exp(n % N) \in Elements /\ Exp(n % N) # 0
    BY <2>2, LogInverts
  <2>4. QED
    BY <1>3, <2>3
<1> HIDE DEF f, N
<1> DEFINE C == {k \in Nat : f[k * N] = 1}
<1>5. 0 \in C
  <2>1. 0 * N = 0
    BY <1>2
  <2>2. QED
    BY <1>1, <2>1
<1>6. ASSUME NEW k \in Nat, k \in C PROVE k + 1 \in C
  <2>1. k * N \in Nat /\ (k + 1) * N = k * N + N
    BY <1>2, MultiplesGrow
  <2>2. f[k * N + N] = Times(f[k * N], f[N])
    BY <1>1, <1>2, <2>1
  <2>3. Times(1, 1) = 1
    BY TimesOne, ElementsAre
  <2>4. f[k * N] = 1
    BY <1>6
  <2>5. f[(k + 1) * N] = 1
    BY <1>1, <2>1, <2>2, <2>3, <2>4
  <2>6. QED
    BY <2>5
<1>7. Nat \subseteq C
  <2> HIDE DEF C
  <2>1. QED
    BY <1>5, <1>6, AllNat
<1>8. ASSUME NEW n \in Nat PROVE Exp(n) = f[n]
  <2> DEFINE q == n \div N
             r == n % N
  <2>1. q \in Nat /\ r \in Nat /\ n = q * N + r
    <3>1. n = N * q + r /\ q \in Int /\ r \in 0 .. N - 1
      BY <1>2
    <3>2. q >= 0
      BY <1>2
    <3> HIDE DEF q, r
    <3>3. QED
      BY <1>2, <3>1, <3>2
  <2>2. Exp(n) = f[r]
    BY <1>3
  <2> HIDE DEF q, r
  <2>3. q * N \in Nat
    BY <1>2, <2>1, MultiplesGrow
  <2>4. f[q * N + r] = Times(f[q * N], f[r])
    BY <1>1, <2>1, <2>3
  <2>5. f[q * N] = 1
    BY <1>7, <2>1
  <2>6. Times(1, f[r]) = f[r]
    BY <1>1, <2>1, TimesCommutes, TimesOne, ElementsAre
  <2>7. QED
    BY <2>1, <2>2, <2>4, <2>5, <2>6
<1>9. QED
  BY <1>1, <1>4, <1>8 DEF f

\* exp turns sums into products.
LEMMA ExpAdds ==
    ASSUME NEW m \in Int, NEW n \in Int
    PROVE  Exp(m + n) = Times(Exp(m), Exp(n))
<1> DEFINE N == P - 1
           a == m % N
           b == n % N
<1>1. N \in Nat /\ N > 0
  BY PrimeAssumption
<1>2. a \in Nat /\ b \in Nat /\ a + b \in Nat
  <2>1. a \in 0 .. N - 1 /\ b \in 0 .. N - 1
    BY <1>1
  <2> HIDE DEF a, b
  <2>2. QED
    BY <2>1
<1>3. (m + n) % N = (a + b) % N
  BY <1>1, RemainderSum
<1>4. Exp(m + n) = Exp(a + b)
  BY <1>3 DEF Exp
<1>5. Exp(m) = Powers[Generator][a] /\ Exp(n) = Powers[Generator][b]
  BY DEF Exp
<1> HIDE DEF a, b, N
<1>6. Exp(a + b) = Powers[Generator][a + b]
  BY <1>2, ExpIs
<1>7. Generator \in Elements
  BY GeneratorTurns
<1>8. QED
  BY <1>2, <1>4, <1>5, <1>6, <1>7, PowersAdd

\* Fermat: x times the power that Over takes for its inverse is 1.
LEMMA Inverses ==
    ASSUME NEW x \in Elements, x # 0
    PROVE  Over(1, x) \in Elements /\ Times(x, Over(1, x)) = 1
<1> DEFINE m == Log(x)
           f == Powers[x]
           N == P - 1
           C == {n \in Nat : f[n] = Exp(m * n)}
<1>1. m \in Nat /\ Exp(m) = x
  BY LogInverts
<1>2. f[0] = 1 /\ \A n \in Nat : f[n] \in Elements /\ f[n + 1] = Times(x, f[n])
  BY PowersAre
<1>3. N \in Nat /\ N > 0 /\ P - 2 \in Nat /\ (P - 2) + 1 = N
  BY PrimeAssumption
<1>4. Over(1, x) = f[P - 2]
  <2>1. Over(1, x) = (1 * f[P - 2]) % P /\ f[P - 2] \in Elements
    BY QuotientsAre, ElementsAre
  <2> HIDE DEF f
  <2>2. 1 * f[P - 2] = f[P - 2] /\ f[P - 2] % P = f[P - 2]
    BY <2>1, ElementsAre
  <2>3. QED
    BY <2>1, <2>2
<1> HIDE DEF m, f, N
<1>5. 0 \in C
  <2>1. m * 0 = 0
    BY <1>1
  <2>2. QED
    BY <1>2, <2>1, ExpIs
<1>6. ASSUME NEW n \in Nat, n \in C PROVE n + 1 \in C
  <2> DEFINE t == m * n
  <2>1. t \in Int /\ m * (n + 1) = m + t /\ m \in Int
    BY <1>1
  <2>2. f[n] = Exp(t)
    BY <1>6
  <2> HIDE DEF t
  <2>3. Exp(m + t) = Times(Exp(m), Exp(t))
    BY <2>1, ExpAdds
  <2>4. f[n + 1] = Exp(m * (n + 1))
    BY <1>1, <1>2, <2>1, <2>2, <2>3
  <2>5. QED
    BY <2>4
<1>7. Nat \subseteq C
  <2> HIDE DEF C
  <2>1. QED
    BY <1>5, <1>6, AllNat
<1>8. f[N] = Times(x, Over(1, x)) /\ Over(1, x) \in Elements
  BY <1>2, <1>3, <1>4
<1>9. f[N] = 1
  <2>1. f[N] = Exp(m * N)
    BY <1>3, <1>7
  <2>2. (m * N) % N = 0
    <3>1. m * N \in Int /\ m * N = N * m + 0 /\ 0 \in 0 .. N - 1
      BY <1>1, <1>3
    <3>2. QED
      BY <1>1, <1>3, <3>1, RemainderIs
  <2>3. 0 % N = 0
    BY <1>3
  <2>4. Exp(m * N) = Exp(0)
    BY <2>2, <2>3 DEF Exp, N
  <2>5. QED
    BY <2>1, <2>4, ExpIs
<1>10. QED
  BY <1>8, <1>9

\* What Over returns is the one number whose product with the divisor is the
\* dividend.
LEMMA OverIs ==
    ASSUME NEW x \in Elements, NEW y \in Elements, y # 0
    PROVE  /\ Over(x, y) \in Elements /\ Times(y, Over(x, y)) = x
           /\ \A z \in Elements : Times(y, z) = x => Over(x, y) = z
<1> DEFINE v == Over(1, y)
<1>1. v \in Elements /\ Times(y, v) = 1
  BY Inverses
<1>2. Over(x, y) = Times(x, v)
  BY OverIsTimes
<1> HIDE DEF v
<1>3. Over(x, y) \in Elements
  BY <1>1, <1>2, OperationsAre
<1>4. Times(y, Over(x, y)) = x
  <2>1. Times(x, v) = Times(v, x)
    BY <1>1, TimesCommutes
  <2>2. Times(Times(y, v), x) = Times(y, Times(v, x))
    BY <1>1, TimesAssociates
  <2>3. Times(1, x) = x
    BY TimesCommutes, TimesOne, ElementsAre
  <2>4. QED
    BY <1>1, <1>2, <2>1, <2>2, <2>3
<1>5. ASSUME NEW z \in Elements, Times(y, z) = x PROVE Over(x, y) = z
  <2>1. Times(y, z) = Times(z, y)
    BY TimesCommutes
  <2>2. Times(Times(z, y), v) = Times(z, Times(y, v))
    BY <1>1, TimesAssociates
  <2>3. Times(z, 1) = z
    BY TimesOne
  <2>4. QED
    BY <1>1, <1>2, <1>5, <2>1, <2>2, <2>3
<1>6. QED
  BY <1>3, <1>4, <1>5

\* There are no zero divisors.
LEMMA NoZeroProducts ==
    ASSUME NEW x \in Elements, NEW y \in Elements, x # 0, y # 0
    PROVE  Times(x, y) # 0
<1> SUFFICES ASSUME Times(x, y) = 0 PROVE FALSE
  OBVIOUS
<1> DEFINE v == Over(1, x)
<1>1. v \in Elements /\ Times(x, v) = 1
  BY Inverses
<1> HIDE DEF v
<1>2. Times(v, x) = 1
  BY <1>1, TimesCommutes
<1>3. Times(Times(v, x), y) = Times(v, Times(x, y))
  BY <1>1, TimesAssociates
<1>4. Times(1, y) = y /\ Times(v, 0) = 0
  BY <1>1, TimesCommutes, TimesOne, ElementsAre
<1>5. QED
  BY <1>2, <1>3, <1>4

-----------------------------------------------------------------------------
(* The derivatives of the unary ops. *)

\* A slope that involves no exp.
LEMMA SimpleGradIs ==
    ASSUME NEW op \in {"neg", "exp", "log", "abs", "relu"},
           NEW x \in Elements, x # 0, NEW g \in Elements
    PROVE  UnaryGrad(op, x, g) = Times(g, UnarySlope(op, x))
<1>1. CASE op = "neg"
  <2>1. Minus(0, g) = Times(g, P - 1)
    BY MinusOne
  <2>2. QED
    BY <1>1, <2>1 DEF UnaryGrad, UnarySlope
<1>2. CASE op = "exp"
  <2>1. Exp(x) \in Elements
    BY ElementsAre, ExpIs
  <2>2. Times(Exp(x), g) = Times(g, Exp(x))
    BY <2>1, TimesCommutes
  <2>3. QED
    BY <1>2, <2>2 DEF UnaryGrad, UnarySlope
<1>3. CASE op = "log"
  <2>1. Over(g, x) = Times(g, Over(1, x))
    BY OverIsTimes
  <2>2. QED
    BY <1>3, <2>1 DEF UnaryGrad, UnarySlope
<1>4. CASE op = "abs"
  <2>1. CASE Positive(x)
    <3>1. Over(x, x) = 1
      BY OverIs, TimesOne, ElementsAre
    <3>2. Times(g, 1) = g
      BY TimesOne
    <3>3. UnarySlope(op, x) = Over(x, x) /\ UnaryGrad(op, x, g) = g
      BY <1>4, <2>1 DEF UnaryGrad, UnarySlope, UnaryScalar
    <3>4. QED
      BY <3>1, <3>2, <3>3
  <2>2. CASE ~Positive(x)
    <3> DEFINE y == Minus(0, x)
    <3>1. y \in Elements /\ Minus(0, y) = x
      BY OperationsAre, RingLaws, ElementsAre
    <3>2. UnarySlope(op, x) = Over(x, y) /\ UnaryGrad(op, x, g) = Minus(0, g)
      BY <1>4, <2>2 DEF UnaryGrad, UnarySlope, UnaryScalar
    <3> HIDE DEF y
    <3>3. y # 0
      BY <3>1, RingLaws, ElementsAre
    <3>4. P - 1 \in Elements /\ Times(y, P - 1) = x
      BY <3>1, MinusOne
    <3>5. Over(x, y) = P - 1
      BY <3>1, <3>3, <3>4, OverIs
    <3>6. Minus(0, g) = Times(g, P - 1)
      BY MinusOne
    <3>7. QED
      BY <3>2, <3>5, <3>6
  <2>3. QED
    BY <2>1, <2>2
<1>5. CASE op = "relu"
  <2>1. Times(g, 1) = g /\ Times(g, 0) = 0
    BY TimesOne
  <2>2. QED
    BY <1>5, <2>1 DEF UnaryGrad, UnarySlope
<1>6. QED
  BY <1>1, <1>2, <1>3, <1>4, <1>5

\* NaN goes through.
LEMMA NaNSpreads ==
    \A x : /\ Plus(x, NaN) = NaN /\ Times(x, NaN) = NaN /\ Times(NaN, x) = NaN
           /\ Minus(x, NaN) = NaN /\ Minus(NaN, x) = NaN /\ Over(NaN, x) = NaN
           /\ Over(x, 0) = NaN
BY DEF Plus, Times, Minus, Over

\* og * y * (1 - y) is the slope of sigmoid, by its formula in exp.
LEMMA SigmoidGradIs ==
    ASSUME NEW x \in Elements, NEW g \in Elements
    PROVE  UnaryGrad("sigmoid", x, g) = Times(g, UnarySlope("sigmoid", x))
<1> DEFINE e == Exp(-x)
           d == Plus(1, e)
           s == Over(1, d)
           k == Times(s, Minus(1, s))
<1>1. /\ UnaryGrad("sigmoid", x, g) = Times(k, g)
      /\ UnarySlope("sigmoid", x) = Over(e, Times(d, d))
  BY DEF UnaryGrad, UnarySlope, Sigmoid
<1>2. e \in Elements /\ d \in Elements /\ Minus(d, 1) = e
  <2>1. -x \in Int
    BY ElementsAre
  <2>2. e \in Elements
    BY <2>1, ExpIs
  <2> HIDE DEF e
  <2>3. QED
    BY <2>2, OperationsAre, RingLaws, ElementsAre
<1> HIDE DEF e, d
<1>3. CASE d = 0
  <2>1. s = NaN
    BY <1>3, NaNSpreads
  <2>2. Times(d, d) = 0
    BY <1>3, TimesOne, ElementsAre
  <2>3. QED
    BY <1>1, <2>1, <2>2, NaNSpreads
<1>4. CASE d # 0
  <2>1. s \in Elements /\ Times(d, s) = 1
    BY <1>2, <1>4, Inverses
  <2> HIDE DEF s
  <2> DEFINE t == Minus(1, s)
  <2>2. t \in Elements /\ k = Times(s, t)
    BY <2>1, OperationsAre, ElementsAre
  <2>3. Times(d, t) = e
    <3>1. Times(d, t) = Minus(Times(d, 1), Times(d, s))
      BY <1>2, <2>1, RingLaws, ElementsAre
    <3>2. Times(d, 1) = d
      BY <1>2, TimesOne
    <3>3. QED
      BY <1>2, <2>1, <3>1, <3>2
  <2> HIDE DEF t, k
  <2>4. k \in Elements /\ Times(d, d) \in Elements /\ Times(d, d) # 0
    BY <1>2, <1>4, <2>1, <2>2, OperationsAre, NoZeroProducts
  <2>5. Times(Times(d, d), k) = e
    <3>1. Times(Times(d, d), k) = Times(d, Times(d, Times(s, t)))
      BY <1>2, <2>2, <2>4, TimesAssociates
    <3>2. Times(d, Times(s, t)) = Times(Times(d, s), t)
      BY <1>2, <2>1, <2>2, TimesAssociates
    <3>3. Times(1, t) = t
      BY <2>2, TimesCommutes, TimesOne, ElementsAre
    <3>4. QED
      BY <2>1, <2>3, <3>1, <3>2, <3>3
  <2>6. Over(e, Times(d, d)) = k
    BY <1>2, <2>4, <2>5, OverIs
  <2>7. QED
    BY <1>1, <2>4, <2>6, TimesCommutes
<1>5. QED
  BY <1>3, <1>4

\* The factors of a product of products, regrouped.
LEMMA ProductsCross ==
    ASSUME NEW a \in Elements, NEW b \in Elements, NEW c \in Elements, NEW d \in Elements
    PROVE  Times(Times(a, b), Times(c, d)) = Times(Times(a, c), Times(b, d))
<1>1. /\ a \in Int /\ b \in Int /\ c \in Int /\ d \in Int
      /\ a % P = a /\ b % P = b /\ c % P = c /\ d % P = d
  BY ElementsAre
<1>2. \A i, j \in Int : Times(i % P, j % P) = (i * j) % P
  BY OfIntegers
<1>3. /\ Times(a, b) = (a * b) % P /\ Times(c, d) = (c * d) % P
      /\ Times(a, c) = (a * c) % P /\ Times(b, d) = (b * d) % P
  BY <1>1, <1>2
<1>4. a * b \in Int /\ c * d \in Int /\ a * c \in Int /\ b * d \in Int
  BY <1>1
<1>5. (a * b) * (c * d) = (a * c) * (b * d)
  BY <1>1
<1>6. /\ Times((a * b) % P, (c * d) % P) = ((a * b) * (c * d)) % P
      /\ Times((a * c) % P, (b * d) % P) = ((a * c) * (b * d)) % P
  BY <1>2, <1>4
<1>7. QED
  BY <1>3, <1>5, <1>6

\* A factor other than 0 cancels.
LEMMA Cancelled ==
    ASSUME NEW x \in Elements, x # 0, NEW y \in Elements, NEW z \in Elements,
           Times(x, y) = Times(x, z)
    PROVE  y = z
<1>1. Times(x, y) \in Elements
  BY OperationsAre
<1>2. Over(Times(x, y), x) = y /\ Over(Times(x, y), x) = z
  BY <1>1, OverIs
<1>3. QED
  BY <1>2

\* (q + 1)^2 - (q - 1)^2 = 4 q.
LEMMA SquaresDiffer ==
    ASSUME NEW q \in Elements
    PROVE  Minus(Times(Plus(q, 1), Plus(q, 1)), Times(Minus(q, 1), Minus(q, 1))) = Times(q, 4 % P)
<1>1. q \in Int /\ q % P = q /\ 1 % P = 1
  BY ElementsAre
<1>2. Plus(q, 1) = (q + 1) % P /\ Minus(q, 1) = (q - 1) % P
  BY OperationsAre, ElementsAre
<1> DEFINE s == (q + 1) * (q + 1)
           t == (q - 1) * (q - 1)
<1>3. s \in Int /\ t \in Int /\ s - t = q * 4 /\ q + 1 \in Int /\ q - 1 \in Int
  BY <1>1
<1>4. Times((q + 1) % P, (q + 1) % P) = s % P /\ Times((q - 1) % P, (q - 1) % P) = t % P
  BY <1>3, OfIntegers
<1> HIDE DEF s, t
<1>5. Minus(s % P, t % P) = (s - t) % P
  BY <1>3, OfIntegers
<1>6. Times(q % P, 4 % P) = (q * 4) % P
  BY <1>1, OfIntegers
<1>7. QED
  BY <1>1, <1>2, <1>3, <1>4, <1>5, <1>6

\* A 4 of the formula is 4 modulo P.
LEMMA OverFour ==
    ASSUME NEW y \in Elements, y # 0
    PROVE  Over(4, y) = Over(4 % P, y) /\ 4 % P \in Elements
<1> DEFINE v == Powers[y][P - 2]
<1>1. v \in Int /\ 4 % P \in Elements /\ P \in Nat /\ P > 0
  <2>1. v \in Elements
    BY QuotientsAre
  <2>2. P \in Nat /\ P > 0 /\ 4 % P \in Elements
    BY ElementsAre
  <2>3. QED
    BY <2>1, <2>2, ElementsAre
<1>2. NaN \notin {4, y} /\ NaN \notin {4 % P, y}
  BY <1>1, ElementsAre DEF NaN
<1>3. Over(4, y) = (4 * v) % P /\ Over(4 % P, y) = ((4 % P) * v) % P
  BY <1>2 DEF Over
<1> HIDE DEF v
<1>4. ((4 % P) * v) % P = (4 * v) % P
  BY <1>1, RemainderTimes
<1>5. QED
  BY <1>1, <1>3, <1>4

\* og * (1 - y^2) is the slope of tanh, by its formula in exp.
LEMMA TanhGradIs ==
    ASSUME NEW x \in Elements, NEW g \in Elements
    PROVE  UnaryGrad("tanh", x, g) = Times(g, UnarySlope("tanh", x))
<1> DEFINE e == Exp(x)
           f == Exp(-x)
           q == Times(e, e)
           n == Minus(q, 1)
           d == Plus(q, 1)
           s == Plus(e, f)
           t == Over(n, d)
           k == Minus(1, Times(t, t))
<1>1. x \in Int /\ -x \in Int /\ x + (-x) = 0 /\ x + x = 2 * x
  BY ElementsAre
<1>2. e \in Elements /\ f \in Elements /\ e # 0
  BY <1>1, ExpIs
<1>3. Times(e, f) = 1
  <2>1. Exp(x + (-x)) = Times(Exp(x), Exp(-x))
    BY <1>1, ExpAdds
  <2>2. QED
    BY <1>1, <2>1, ExpIs
<1>4. Exp(2 * x) = q
  <2>1. Exp(x + x) = Times(Exp(x), Exp(x))
    BY <1>1, ExpAdds
  <2>2. QED
    BY <1>1, <2>1
<1>5. UnaryGrad("tanh", x, g) = Times(k, g) /\ UnarySlope("tanh", x) = Over(4, Times(s, s))
  <2>1. Tanh(x) = t
    BY <1>4 DEF Tanh
  <2>2. QED
    BY <2>1 DEF UnaryGrad, UnarySlope
<1> HIDE DEF e, f
<1>6. q \in Elements /\ s \in Elements /\ q # 0
  BY <1>2, OperationsAre, NoZeroProducts
<1>7. d = Times(e, s)
  BY <1>2, <1>3, RingLaws
<1> HIDE DEF s
<1>8. d \in Elements /\ n \in Elements
  <2> HIDE DEF q
  <2>1. QED
    BY <1>6, OperationsAre, ElementsAre
<1>9. CASE s = 0
  <2>1. d = 0
    BY <1>2, <1>7, <1>9, TimesOne
  <2> HIDE DEF d, n
  <2>2. k = NaN
    BY <2>1, NaNSpreads
  <2>3. Times(s, s) = 0
    BY <1>9, TimesOne, ElementsAre
  <2>4. QED
    BY <1>5, <2>2, <2>3, NaNSpreads
<1>10. CASE s # 0
  <2>1. d # 0
    BY <1>2, <1>6, <1>7, <1>10, NoZeroProducts
  <2>2. Minus(Times(d, d), Times(n, n)) = Times(q, 4 % P)
    BY <1>6, SquaresDiffer
  <2>3. Times(d, d) = Times(q, Times(s, s))
    BY <1>2, <1>6, <1>7, ProductsCross
  <2> HIDE DEF d, n, q
  <2>4. t \in Elements /\ Times(d, t) = n
    BY <1>8, <2>1, OverIs
  <2> HIDE DEF t
  <2> DEFINE dd == Times(d, d)
             ss == Times(s, s)
             tt == Times(t, t)
  <2>5. dd \in Elements /\ ss \in Elements /\ tt \in Elements /\ ss # 0
    BY <1>6, <1>8, <1>10, <2>4, OperationsAre, NoZeroProducts
  <2>6. Times(dd, tt) = Times(n, n)
    BY <1>8, <2>4, ProductsCross
  <2> HIDE DEF dd, ss, tt
  <2>7. k \in Elements /\ Times(dd, k) = Times(q, 4 % P)
    <3>1. k = Minus(1, tt)
      BY DEF tt
    <3>2. k \in Elements
      BY <2>5, <3>1, OperationsAre, ElementsAre
    <3>3. Times(dd, Minus(1, tt)) = Minus(Times(dd, 1), Times(dd, tt))
      BY <2>5, RingLaws, ElementsAre
    <3>4. Times(dd, 1) = dd
      BY <2>5, TimesOne
    <3>5. QED
      BY <2>2, <2>6, <3>1, <3>2, <3>3, <3>4 DEF dd
  <2> HIDE DEF k
  <2>8. Times(q, Times(ss, k)) = Times(q, 4 % P)
    <3>1. dd = Times(q, ss)
      BY <2>3 DEF dd, ss
    <3>2. Times(Times(q, ss), k) = Times(q, Times(ss, k))
      BY <1>6, <2>5, <2>7, TimesAssociates
    <3>3. QED
      BY <2>7, <3>1, <3>2
  <2>9. Times(ss, k) \in Elements /\ Over(4, ss) = Over(4 % P, ss) /\ 4 % P \in Elements
    BY <2>5, <2>7, OperationsAre, OverFour
  <2>10. Times(ss, k) = 4 % P
    BY <1>6, <2>8, <2>9, Cancelled
  <2>11. Over(4 % P, ss) = k
    BY <2>5, <2>7, <2>9, <2>10, OverIs
  <2>12. QED
    BY <1>5, <2>7, <2>9, <2>11, TimesCommutes DEF ss
<1>11. QED
  BY <1>9, <1>10

\* What the backward of a unary op leaves, element by element, is the slope.
LEMMA UnaryGradIs ==
    ASSUME NEW op \in Unary, NEW x \in Elements, x # 0, NEW g \in Elements
    PROVE  UnaryGrad(op, x, g) = Times(g, UnarySlope(op, x))
<1>1. op \in {"neg", "exp", "log", "abs", "relu"} \/ op = "sigmoid" \/ op = "tanh"
  BY DEF Unary
<1>2. QED
  BY <1>1, SimpleGradIs, SigmoidGradIs, TanhGradIs

\* The gradients of a unary op are its derivatives.
LEMMA UnaryGrads ==
    ASSUME CallInv, GradsInv, call.op \in Unary, pc = "done", NEW k \in Differentiable
    PROVE  IsDerivative(k)
<1> DEFINE a == Args(call)[1]
           g == Seed(call)
<1>1. /\ call \in Calls
      /\ Len(call.shapes) \in Nat /\ DOMAIN call.shapes = 1 .. Len(call.shapes)
      /\ inputs = Args(call) /\ output = Result(call) /\ og = g
      /\ \A j \in DOMAIN call.shapes :
            /\ grads[j] = Propagated(call, Args(call), Result(call), g)[j]
            /\ call.shapes[j] \in Seq(Nat)
            /\ Args(call)[j].shape = call.shapes[j]
            /\ NoZeros(Args(call)[j], call.shapes[j])
  BY DirectDone DEF Direct
<1>2. Len(call.shapes) = 1
  BY <1>1, CallsAssumption
<1>3. k = 1 /\ 1 \in DOMAIN call.shapes
  BY <1>1, <1>2 DEF Differentiable, Inputs
<1>4. a.shape \in Seq(Nat) /\ NoZeros(a, a.shape) /\ inputs[k] = a
  BY <1>1, <1>3
<1>5. Result(call).shape = a.shape
  BY DEF Result, Computed, Elementwise, Unary, UnaryForward, Tensor
<1>6. Propagated(call, Args(call), Result(call), g) = UnaryBackward(call.op, a, g)
  BY DEF Propagated, Elementwise, Unary, Constants
<1>7. grads[k] = UnaryBackward(call.op, a, g)[1]
  BY <1>1, <1>3, <1>6
<1>8. g = Filled(a.shape, 4)
  BY <1>5 DEF Seed
<1> HIDE DEF a, g
<1>9. \A i \in Offsets(a.shape) : g.data[i] \in Elements
  BY <1>4, <1>8, FilledIs DEF NoZeros
<1>10. \A i \in Offsets(a.shape) : grads[k].data[i] = UnaryGrad(call.op, a.data[i], g.data[i])
  BY <1>7 DEF UnaryBackward, Tensor
<1>11. \A i \in Offsets(a.shape) :
          grads[k].data[i] = Times(og.data[i], UnarySlope(call.op, a.data[i]))
  BY <1>1, <1>4, <1>9, <1>10, UnaryGradIs DEF NoZeros
<1>12. IsDerivative(k) = \A i \in Offsets(inputs[k].shape) :
          grads[k].data[i] = Times(og.data[i], UnarySlope(call.op, inputs[k].data[i]))
  BY DEF IsDerivative, Elementwise, Unary
<1>13. QED
  BY <1>4, <1>11, <1>12

-----------------------------------------------------------------------------
(* Totals of numbers. *)

LEMMA TotalNumbers ==
    ASSUME NEW f, NEW S, DOMAIN f = S, IsFiniteSet(S), \A x \in S : f[x] \in Elements
    PROVE  /\ TotalOf(f) = SumFunctionOnSet(f, S) % P
           /\ TotalOf(f) \in Elements
           /\ SumFunctionOnSet(f, S) \in Int
<1>1. NaN \notin Range(f)
  BY ElementsAre DEF Range
<1>2. \A x \in S : f[x] \in Int
  BY ElementsAre
<1>3. SumFunctionOnSet(f, S) \in Int
  BY <1>2, SumRemove
<1>4. TotalOf(f) = SumFunctionOnSet(f, S) % P
  BY <1>1 DEF TotalOf
<1>5. QED
  BY <1>3, <1>4, ElementsAre

\* The total of differences is the difference of the totals.
LEMMA TotalMinus ==
    ASSUME NEW S, IsFiniteSet(S), NEW f, NEW g, NEW d,
           DOMAIN f = S, DOMAIN g = S, DOMAIN d = S,
           \A x \in S : f[x] \in Elements /\ g[x] \in Elements /\ d[x] = Minus(f[x], g[x])
    PROVE  TotalOf(d) = Minus(TotalOf(f), TotalOf(g))
<1> DEFINE F(A) == SumFunctionOnSet(f, A)
           G(A) == SumFunctionOnSet(g, A)
           D(A) == SumFunctionOnSet(d, A)
           C == {A \in SUBSET S : D(A) % P = (F(A) - G(A)) % P}
<1>0. /\ P \in Nat /\ P > 0
      /\ \A x \in S : f[x] \in Int /\ g[x] \in Int /\ d[x] \in Int /\ d[x] \in Elements
  <2>1. \A x \in S : d[x] \in Elements
    BY OperationsAre
  <2>2. QED
    BY <2>1, ElementsAre
<1>1. {} \in C
  <2>1. F({}) = 0 /\ G({}) = 0 /\ D({}) = 0 /\ 0 - 0 = 0
    BY SumEmpty
  <2>2. QED
    BY <2>1
<1>2. ASSUME NEW A \in C, NEW x \in S \ A PROVE A \cup {x} \in C
  <2>1. A \subseteq S /\ IsFiniteSet(A) /\ A \cup {x} \subseteq S /\ D(A) % P = (F(A) - G(A)) % P
    BY <1>2, FS_Subset
  <2>2. F(A) \in Int /\ G(A) \in Int /\ D(A) \in Int
    <3>1. \A h : (\A y \in A : h[y] \in Int) => SumFunctionOnSet(h, A) \in Int
      BY <2>1, SumRemove
    <3>2. QED
      BY <1>0, <2>1, <3>1
  <2>3. /\ F(A \cup {x}) = f[x] + F(A) /\ G(A \cup {x}) = g[x] + G(A)
        /\ D(A \cup {x}) = d[x] + D(A)
    <3>1. \A h : (\A y \in A \cup {x} : h[y] \in Int) =>
                    SumFunctionOnSet(h, A \cup {x}) = h[x] + SumFunctionOnSet(h, A)
      BY <2>1, SumAdd
    <3>2. QED
      BY <1>0, <2>1, <3>1
  <2> DEFINE u == f[x] - g[x]
             s == D(A)
             t == F(A) - G(A)
  <2>4. u \in Int /\ s \in Int /\ t \in Int /\ s % P = t % P
    BY <1>0, <2>1, <2>2
  <2>5. d[x] = u % P
    BY OperationsAre
  <2>6. F(A \cup {x}) - G(A \cup {x}) = u + t
    <3> HIDE DEF F, G
    <3>1. f[x] \in Int /\ g[x] \in Int
      BY <1>0
    <3>2. QED
      BY <2>2, <2>3, <3>1
  <2>7. D(A \cup {x}) = (u % P) + s
    BY <2>3, <2>5
  <2> HIDE DEF u, s, t, D, F, G
  <2>8. ((u % P) + s) % P = (u + s) % P
    BY <1>0, <2>4, RemainderPlus
  <2>9. (u + s) % P = (u + t) % P
    <3>1. \A i, j \in Int : (i + (j % P)) % P = (i + j) % P
      BY <1>0, RemainderSum
    <3>2. (u + (s % P)) % P = (u + s) % P /\ (u + (t % P)) % P = (u + t) % P
      BY <2>4, <3>1
    <3>3. QED
      BY <2>4, <3>2
  <2>10. QED
    BY <2>1, <2>6, <2>7, <2>8, <2>9
<1>3. S \in C
  <2> HIDE DEF C
  <2>1. QED
    BY <1>1, <1>2, SubsetInduction
<1>4. /\ TotalOf(f) = F(S) % P /\ F(S) \in Int
      /\ TotalOf(g) = G(S) % P /\ G(S) \in Int
      /\ TotalOf(d) = D(S) % P
  BY <1>0, TotalNumbers
<1> HIDE DEF F, G, D
<1>5. Minus(F(S) % P, G(S) % P) = (F(S) - G(S)) % P
  BY <1>4, OfIntegers
<1>6. QED
  BY <1>3, <1>4, <1>5

\* Zeros can be left out.
LEMMA TotalSupport ==
    ASSUME NEW S, IsFiniteSet(S), NEW T, T \subseteq S, NEW f, NEW g,
           DOMAIN f = S, DOMAIN g = T, \A x \in S : f[x] \in Elements,
           \A x \in T : g[x] = f[x], \A x \in S \ T : f[x] = 0
    PROVE  TotalOf(f) = TotalOf(g)
<1> DEFINE F(A) == SumFunctionOnSet(f, A)
           C == {A \in SUBSET (S \ T) : F(T \cup A) = F(T)}
<1>1. IsFiniteSet(T) /\ IsFiniteSet(S \ T) /\ \A x \in S : f[x] \in Int
  BY FS_Subset, ElementsAre
<1>2. {} \in C
  <2>1. T \cup {} = T
    OBVIOUS
  <2>2. QED
    BY <2>1
<1>3. ASSUME NEW A \in C, NEW x \in (S \ T) \ A PROVE A \cup {x} \in C
  <2>1. /\ A \cup {x} \subseteq S \ T /\ T \cup (A \cup {x}) = (T \cup A) \cup {x}
        /\ T \cup A \subseteq S /\ IsFiniteSet(T \cup A) /\ x \notin T \cup A
        /\ F(T \cup A) = F(T)
    <3>1. T \cup A \subseteq S
      BY <1>3
    <3>2. QED
      BY <1>3, <3>1, FS_Subset
  <2>2. F((T \cup A) \cup {x}) = f[x] + F(T \cup A)
    <3>1. \A y \in (T \cup A) \cup {x} : f[y] \in Int
      BY <1>1, <2>1
    <3> DEFINE B == T \cup A
    <3>2. IsFiniteSet(B) /\ x \notin B /\ \A y \in B \cup {x} : f[y] \in Int
      BY <2>1, <3>1
    <3> HIDE DEF B
    <3>3. SumFunctionOnSet(f, B \cup {x}) = f[x] + SumFunctionOnSet(f, B)
      BY <3>2, SumAdd
    <3>4. QED
      BY <3>3 DEF B
  <2>3. f[x] = 0 /\ F(T) \in Int
    <3>1. \A y \in T : f[y] \in Int
      BY <1>1
    <3>2. QED
      BY <1>1, <3>1, SumRemove
  <2> HIDE DEF F
  <2>4. F(T \cup (A \cup {x})) = F(T)
    <3>1. F((T \cup A) \cup {x}) = f[x] + F(T \cup A) /\ F(T \cup A) = F(T)
      BY <2>1, <2>2
    <3>2. F((T \cup A) \cup {x}) = F(T)
      BY <2>3, <3>1
    <3>3. T \cup (A \cup {x}) = (T \cup A) \cup {x}
      OBVIOUS
    <3>4. QED
      BY <3>2, <3>3
  <2>5. A \cup {x} \in SUBSET (S \ T)
    BY <2>1
  <2>6. QED
    BY <2>4, <2>5
<1>4. S \ T \in C
  <2> HIDE DEF C
  <2>1. QED
    BY <1>1, <1>2, <1>3, SubsetInduction
<1>5. F(S) = F(T)
  <2>1. T \cup (S \ T) = S
    OBVIOUS
  <2>2. QED
    BY <1>4, <2>1
<1>6. SumFunctionOnSet(g, T) = F(T)
  BY <1>1, SumEqual
<1>7. TotalOf(f) = F(S) % P /\ TotalOf(g) = SumFunctionOnSet(g, T) % P
  BY <1>1, TotalNumbers
<1>8. QED
  BY <1>5, <1>6, <1>7

\* A total with one element other than 0 is that element.
LEMMA TotalOfOne ==
    ASSUME NEW S, IsFiniteSet(S), NEW f, DOMAIN f = S, NEW y \in S,
           f[y] \in Elements, \A x \in S \ {y} : f[x] = 0
    PROVE  TotalOf(f) = f[y]
<1>1. f[y] \in Int /\ f[y] % P = f[y]
  BY ElementsAre
<1>2. SumFunctionOnSet(f, S) = f[y]
  BY <1>1, SumSingle
<1>3. \A x \in S : f[x] \in Elements
  BY ElementsAre
<1>4. QED
  BY <1>1, <1>2, <1>3, TotalNumbers

-----------------------------------------------------------------------------
(* The gradients of the linear ops. *)

\* The output weighted with the gradient put there.
Weighted(y) == TotalOf([o \in DOMAIN y.data |-> Times(og.data[o], y.data[o])])

\* The inputs with element i of input k grown by one.
Raised(k, i) == [inputs EXCEPT ![k].data[i] = Plus(@, 1)]

\* t with element i grown by one is u.
GrownBy(t, u, i) ==
    /\ u.shape = t.shape /\ DOMAIN u.data = DOMAIN t.data
    /\ u.data[i] = Plus(t.data[i], 1)
    /\ \A j \in DOMAIN t.data \ {i} : u.data[j] = t.data[j]

\* The derivative of a linear op, as the change of the weighted output.
LEMMA LinearIs ==
    ASSUME call.op \in {"sum", "mean", "matmul"}, NEW k, NEW t, t = Computed(call, inputs),
           NEW i, NEW u, u = Computed(call, Raised(k, i))
    PROVE  LinearGrad(k, i, Loss(inputs)) = Minus(Weighted(u), Weighted(t))
<1>1. \A in : Loss(in) = Weighted(Computed(call, in))
  BY DEF Loss, Weighted, Total, TotalOf
<1>2. LinearGrad(k, i, Loss(inputs)) = Minus(Loss(Raised(k, i)), Loss(inputs))
  BY DEF LinearGrad, Raised
<1>3. QED
  BY <1>1, <1>2

\* Raising an element changes that element only.
LEMMA RaisedIs ==
    ASSUME NEW c \in Calls, inputs = Args(c), NEW k \in DOMAIN c.shapes,
           NEW i \in Offsets(c.shapes[k])
    PROVE  /\ GrownBy(Args(c)[k], Raised(k, i)[k], i)
           /\ \A j \in DOMAIN c.shapes \ {k} : Raised(k, i)[j] = Args(c)[j]
<1>1. Args(c) = [j \in DOMAIN c.shapes |-> Filled(c.shapes[j], j)]
  BY DEF Args
<1> DEFINE a == Filled(c.shapes[k], k)
<1>2. a = [shape |-> c.shapes[k], data |-> a.data] /\ DOMAIN a.data = Offsets(c.shapes[k])
  BY DEF Filled, Tensor
<1>3. Args(c)[k] = a
  BY <1>1
<1> HIDE DEF a
<1>4. /\ Raised(k, i)[k] = [a EXCEPT !.data[i] = Plus(@, 1)]
      /\ \A j \in DOMAIN c.shapes \ {k} : Raised(k, i)[j] = Args(c)[j]
  BY <1>1, <1>3 DEF Raised
<1>5. GrownBy(a, Raised(k, i)[k], i)
  BY <1>2, <1>4 DEF GrownBy
<1>6. QED
  BY <1>3, <1>4, <1>5

\* The sum grows by one with an element.
LEMMA SumGrows ==
    ASSUME NEW t, NEW u, NEW S, IsFiniteSet(S), DOMAIN t.data = S,
           \A j \in S : t.data[j] \in Elements, NEW i \in S, GrownBy(t, u, i)
    PROVE  /\ SumOf(t) \in Elements /\ SumOf(u) \in Elements
           /\ Minus(SumOf(u), SumOf(t)) = 1
<1> DEFINE f == [j \in S |-> t.data[j]]
           g == [j \in S |-> u.data[j]]
           d == [j \in S |-> Minus(g[j], f[j])]
<1>1. /\ u.shape = t.shape /\ DOMAIN u.data = S
      /\ u.data[i] = Plus(t.data[i], 1)
      /\ \A j \in S \ {i} : u.data[j] = t.data[j]
  BY DEF GrownBy
<1>2. SumOf(t) = TotalOf(f) /\ SumOf(u) = TotalOf(g)
  BY <1>1 DEF SumOf, Total, TotalOf
<1>3. \A j \in S : f[j] \in Elements /\ g[j] \in Elements
  BY <1>1, OperationsAre, ElementsAre
<1>4. /\ \A j \in S : d[j] = Minus(g[j], f[j])
      /\ d[i] = 1 /\ \A j \in S \ {i} : d[j] = 0
  <2>1. Minus(Plus(t.data[i], 1), t.data[i]) = 1
    BY RingLaws, ElementsAre
  <2>2. \A j \in S : Minus(t.data[j], t.data[j]) = 0
    BY RingLaws
  <2>3. QED
    BY <1>1, <2>1, <2>2
<1>5. DOMAIN f = S /\ DOMAIN g = S /\ DOMAIN d = S
  OBVIOUS
<1> HIDE DEF f, g, d
<1>6. TotalOf(f) \in Elements /\ TotalOf(g) \in Elements
  BY <1>3, <1>5, TotalNumbers
<1>7. TotalOf(d) = Minus(TotalOf(g), TotalOf(f))
  BY <1>3, <1>4, <1>5, TotalMinus
<1>8. TotalOf(d) = 1
  BY <1>4, <1>5, TotalOfOne, ElementsAre
<1>9. QED
  BY <1>2, <1>6, <1>7, <1>8

\* A number has one element.
LEMMA NoAxes ==
    /\ <<>> \in Seq(Nat) /\ Numel(<<>>) = 1 /\ Offsets(<<>>) = {0}
<1>1. <<>> \in Seq(Nat) /\ Len(<<>>) = 0
  OBVIOUS
<1>2. Numel(<<>>) = 1
  <2>1. \A s \in Seq(Nat) : Numel(s) = Rest(s, 0) /\ Rest(s, Len(s)) = 1
    BY StridesAre, RestIs
  <2>2. QED
    BY <1>1, <2>1
<1>3. QED
  BY <1>1, <1>2 DEF Offsets

\* The gradients of sum and mean are their derivatives.
LEMMA SumGrads ==
    ASSUME CallInv, GradsInv, call.op \in {"sum", "mean"}, pc = "done", NEW k \in Differentiable
    PROVE  IsDerivative(k)
<1> DEFINE a == Args(call)[1]
           g == Seed(call)
           n == Numel(a.shape) % P
           r(s) == IF call.op = "sum" THEN s ELSE Over(s, n)
<1>1. /\ call \in Calls
      /\ Len(call.shapes) \in Nat /\ DOMAIN call.shapes = 1 .. Len(call.shapes)
      /\ inputs = Args(call) /\ output = Result(call) /\ og = g
      /\ \A j \in DOMAIN call.shapes :
            /\ grads[j] = Propagated(call, Args(call), Result(call), g)[j]
            /\ call.shapes[j] \in Seq(Nat)
            /\ Args(call)[j].shape = call.shapes[j]
            /\ NoZeros(Args(call)[j], call.shapes[j])
  BY DirectDone DEF Direct
<1>2. Len(call.shapes) = 1
  BY <1>1, CallsAssumption
<1>3. k = 1 /\ 1 \in DOMAIN call.shapes
  BY <1>1, <1>2 DEF Differentiable, Inputs
<1>4. /\ a.shape \in Seq(Nat) /\ a.shape = call.shapes[1] /\ inputs[1] = a
      /\ \A i \in Offsets(a.shape) : a.data[i] \in Elements
  BY <1>1, <1>3 DEF NoZeros
<1>5. DOMAIN a.data = Offsets(a.shape) /\ IsFiniteSet(Offsets(a.shape)) /\ n \in Elements
  <2>1. a = Filled(call.shapes[1], 1)
    BY <1>3 DEF Args
  <2>2. DOMAIN a.data = Offsets(call.shapes[1])
    BY <2>1 DEF Filled, Tensor
  <2>3. IsFiniteSet(Offsets(a.shape)) /\ Numel(a.shape) \in Nat
    BY <1>4, OffsetsFinite
  <2>4. QED
    BY <1>4, <2>2, <2>3, ElementsAre
<1>6. /\ \A in : in[1].shape = a.shape =>
            Computed(call, in) = [shape |-> <<>>, data |-> [o \in {0} |-> r(SumOf(in[1]))]]
      /\ Propagated(call, Args(call), Result(call), g)[1].data
           = [i \in Offsets(a.shape) |-> IF call.op = "sum" THEN g.data[0] ELSE Over(g.data[0], n)]
  <2>1. CASE call.op = "sum"
    BY <2>1, NoAxes DEF Computed, Propagated, Elementwise, Unary, Constants, SumForward, SumBackward, Tensor
  <2>2. CASE call.op = "mean"
    BY <2>2, NoAxes DEF Computed, Propagated, Elementwise, Unary, Constants, MeanForward, MeanBackward, Tensor
  <2>3. QED
    BY <2>1, <2>2
<1>7. g.data[0] \in Elements
  <2>1. Result(call).shape = <<>>
    BY <1>6 DEF Result
  <2>2. g = Filled(<<>>, 4)
    BY <2>1 DEF Seed
  <2>3. QED
    BY <2>2, NoAxes, FilledIs DEF NoZeros
<1> HIDE DEF a, g, n
<1>8. ASSUME NEW i \in Offsets(a.shape)
      PROVE  grads[1].data[i] = LinearGrad(1, i, Loss(inputs))
  <2> DEFINE u == Raised(1, i)[1]
             s == SumOf(a)
             t == SumOf(u)
             w == g.data[0]
  <2>1. GrownBy(a, u, i)
    BY <1>1, <1>3, <1>4, RaisedIs DEF a
  <2>2. s \in Elements /\ t \in Elements /\ Minus(t, s) = 1
    BY <1>4, <1>5, <2>1, SumGrows
  <2>3. /\ Computed(call, inputs) = [shape |-> <<>>, data |-> [o \in {0} |-> r(s)]]
        /\ Computed(call, Raised(1, i)) = [shape |-> <<>>, data |-> [o \in {0} |-> r(t)]]
    <3>1. inputs[1].shape = a.shape /\ Raised(1, i)[1].shape = a.shape
      BY <1>4, <2>1 DEF GrownBy
    <3>2. QED
      BY <1>4, <1>6, <3>1
  <2> HIDE DEF s, t
  <2>4. r(s) \in Floats /\ r(t) \in Floats
    BY <1>5, <2>2, QuotientsAre DEF Floats
  <2> HIDE DEF r
  <2>5. \A x \in Floats : Weighted([shape |-> <<>>, data |-> [o \in {0} |-> x]]) = Times(w, x)
    <3> SUFFICES ASSUME NEW x \in Floats
                 PROVE  Weighted([shape |-> <<>>, data |-> [o \in {0} |-> x]]) = Times(w, x)
      OBVIOUS
    <3> DEFINE f == [o \in {0} |-> Times(w, x)]
    <3>1. Weighted([shape |-> <<>>, data |-> [o \in {0} |-> x]]) = TotalOf(f)
      BY <1>1 DEF Weighted
    <3>2. Times(w, x) \in Floats
      BY <1>7, OperationsAre, NaNSpreads DEF Floats
    <3>3. DOMAIN f = {0} /\ f[0] = Times(w, x)
      OBVIOUS
    <3> HIDE DEF f
    <3>4. TotalOf(f) = Times(w, x)
      BY <3>2, <3>3, TotalSingle
    <3>5. QED
      BY <3>1, <3>4
  <2>6. LinearGrad(1, i, Loss(inputs)) = Minus(Times(w, r(t)), Times(w, r(s)))
    <3>1. LinearGrad(1, i, Loss(inputs))
            = Minus(Weighted(Computed(call, Raised(1, i))), Weighted(Computed(call, inputs)))
      BY LinearIs
    <3>2. QED
      BY <2>3, <2>4, <2>5, <3>1
  <2>7. grads[1].data[i] = IF call.op = "sum" THEN w ELSE Over(w, n)
    BY <1>1, <1>3, <1>6
  <2> HIDE DEF w, u
  <2>8. w \in Elements
    BY <1>7 DEF w
  <2>9. CASE call.op = "sum"
    <3>1. Times(w, Minus(t, s)) = Minus(Times(w, t), Times(w, s)) /\ Times(w, 1) = w
      BY <2>2, <2>8, RingLaws, TimesOne
    <3>2. QED
      BY <2>2, <2>6, <2>7, <2>9, <3>1 DEF r
  <2>10. CASE call.op = "mean" /\ n = 0
    <3>1. r(t) = NaN /\ r(s) = NaN /\ Over(w, n) = NaN
      BY <2>10, NaNSpreads DEF r
    <3>2. QED
      BY <2>6, <2>7, <2>10, <3>1, NaNSpreads
  <2>11. CASE call.op = "mean" /\ n # 0
    <3> DEFINE v == Over(1, n)
    <3>1. /\ v \in Elements /\ r(t) = Times(t, v) /\ r(s) = Times(s, v)
          /\ Over(w, n) = Times(w, v)
      BY <1>5, <2>2, <2>8, <2>11, OverIsTimes DEF r
    <3> HIDE DEF v
    <3>2. Times(v, Minus(t, s)) = Minus(Times(v, t), Times(v, s)) /\ Times(v, 1) = v
      BY <2>2, <3>1, RingLaws, TimesOne
    <3>3. Times(v, t) = Times(t, v) /\ Times(v, s) = Times(s, v)
      BY <2>2, <3>1, TimesCommutes
    <3>4. Times(t, v) \in Elements /\ Times(s, v) \in Elements
      BY <2>2, <3>1, OperationsAre
    <3>5. Times(w, Minus(Times(t, v), Times(s, v)))
            = Minus(Times(w, Times(t, v)), Times(w, Times(s, v)))
      BY <2>8, <3>4, RingLaws
    <3>6. QED
      BY <2>2, <2>6, <2>7, <2>11, <3>1, <3>2, <3>3, <3>5
  <2>12. QED
    BY <2>9, <2>10, <2>11
<1>9. IsDerivative(k) = \A i \in Offsets(inputs[k].shape) :
                            grads[k].data[i] = LinearGrad(k, i, Loss(inputs))
  BY DEF IsDerivative, Elementwise, Unary
<1>10. QED
  BY <1>3, <1>4, <1>8, <1>9

\* A total may be taken over any set that is mapped one to one to the nonzero elements.
LEMMA TotalElsewhere ==
    ASSUME NEW S, IsFiniteSet(S), NEW R, IsFiniteSet(R),
           NEW h, \A x \in R : h[x] \in S, \A x, y \in R : h[x] = h[y] => x = y,
           NEW d, DOMAIN d = S, \A o \in S : d[o] \in Elements,
           \A o \in S : (\A x \in R : h[x] # o) => d[o] = 0,
           NEW f, DOMAIN f = R, \A x \in R : f[x] = d[h[x]]
    PROVE  TotalOf(f) = TotalOf(d)
<1> DEFINE T == {h[x] : x \in R}
           e == [o \in T |-> d[o]]
<1>1. T \subseteq S /\ \A o \in S \ T : d[o] = 0
  OBVIOUS
<1>2. DOMAIN e = T /\ \A o \in T : e[o] = d[o]
  OBVIOUS
<1>3. \A x \in R : f[x] \in Elements
  OBVIOUS
<1>4. SumFunctionOnSet(f, R) = SumFunctionOnSet(d, T)
  <2>1. \A o \in S : d[o] \in Int
    BY ElementsAre
  <2>2. QED
    BY <2>1, SumReindexed
<1> HIDE DEF T, e
<1>5. IsFiniteSet(T) /\ \A o \in T : d[o] \in Int /\ e[o] \in Elements
  BY <1>1, <1>2, FS_Subset, ElementsAre
<1>6. SumFunctionOnSet(e, T) = SumFunctionOnSet(d, T)
  BY <1>2, <1>5, SumEqual
<1>7. TotalOf(e) = SumFunctionOnSet(e, T) % P /\ TotalOf(f) = SumFunctionOnSet(f, R) % P
  BY <1>2, <1>3, <1>5, TotalNumbers
<1>8. TotalOf(d) = TotalOf(e)
  BY <1>1, <1>2, TotalSupport
<1>9. QED
  BY <1>4, <1>6, <1>7, <1>8

\* Rows and columns of a matrix with N columns.
LEMMA RowColumn ==
    ASSUME NEW M \in Nat, NEW N \in Nat
    PROVE  /\ \A i \in 0 .. M - 1, j \in 0 .. N - 1 :
                 /\ i * N + j \in 0 .. M * N - 1
                 /\ (i * N + j) \div N = i /\ (i * N + j) % N = j
           /\ \A o \in 0 .. M * N - 1 :
                 /\ o \div N \in 0 .. M - 1 /\ o % N \in 0 .. N - 1
                 /\ (o \div N) * N + (o % N) = o
<1>1. ASSUME NEW i \in 0 .. M - 1, NEW j \in 0 .. N - 1
      PROVE  /\ i * N + j \in 0 .. M * N - 1
             /\ (i * N + j) \div N = i /\ (i * N + j) % N = j
  <2> DEFINE t == i * N
             m == M * N
             o == t + j
  <2>1. t \in Nat /\ t + N <= m /\ m \in Nat
    BY MultiplesGrow
  <2>2. N \in Nat /\ N > 0 /\ i \in Int /\ j \in 0 .. N - 1 /\ o = i * N + j
    OBVIOUS
  <2> HIDE DEF t, m
  <2>3. o \in 0 .. m - 1 /\ o \in Int
    BY <2>1
  <2> HIDE DEF o
  <2>4. \A n \in Nat : \A x, q \in Int : \A r \in 0 .. n - 1 :
           n > 0 /\ x = q * n + r => x \div n = q /\ x % n = r
    BY QuotientOf
  <2>5. o \div N = i /\ o % N = j
    BY <2>2, <2>3, <2>4, Zenon
  <2>6. QED
    BY <2>3, <2>5 DEF o, t, m
<1>2. ASSUME NEW o \in 0 .. M * N - 1
      PROVE  /\ o \div N \in 0 .. M - 1 /\ o % N \in 0 .. N - 1
             /\ (o \div N) * N + (o % N) = o
  <2>1. N > 0
    <3>1. N = 0 => M * N = 0
      OBVIOUS
    <3>2. M * N > 0
      <4>1. M * N \in Int
        OBVIOUS
      <4>2. QED
        BY <4>1
    <3>3. QED
      BY <3>1, <3>2
  <2>2. o \div N \in 0 .. M - 1 /\ o = (o \div N) * N + (o % N)
    BY <2>1, QuotientIs
  <2>3. o % N \in 0 .. N - 1
    <3>1. M * N \in Int
      OBVIOUS
    <3>2. o \in Int
      BY <3>1
    <3>3. QED
      BY <2>1, <3>2
  <2>4. QED
    BY <2>2, <2>3
<1>3. QED
  BY <1>1, <1>2

\* A has n numbers; B is A with element i grown by one.
Numbers(A, n) == \A o \in 0 .. n - 1 : A[o] \in Elements
Grown(A, B, n, i) == B[i] = Plus(A[i], 1) /\ \A j \in 0 .. n - 1 : j # i => B[j] = A[j]

\* Growing an element by one changes that element by 1, and no other.
LEMMA GrownIs ==
    ASSUME NEW A, NEW B, NEW n, NEW i \in 0 .. n - 1, Numbers(A, n), Grown(A, B, n, i)
    PROVE  /\ Numbers(B, n)
           /\ \A j \in 0 .. n - 1 : Minus(B[j], A[j]) = IF j = i THEN 1 ELSE 0
<1>1. A[i] \in Elements
  BY DEF Numbers
<1>2. Minus(Plus(A[i], 1), A[i]) = 1 /\ Plus(A[i], 1) \in Elements
  <2> DEFINE x == A[i]
  <2>1. x \in Elements /\ 1 \in Elements
    BY <1>1, ElementsAre
  <2> HIDE DEF x
  <2>2. Minus(Plus(x, 1), x) = 1 /\ Plus(x, 1) \in Elements
    BY <2>1, RingLaws, OperationsAre
  <2>3. QED
    BY <2>2 DEF x
<1>3. \A j \in 0 .. n - 1 : Minus(A[j], A[j]) = 0
  BY RingLaws DEF Numbers
<1>4. QED
  BY <1>2, <1>3 DEF Grown, Numbers

\* The products of row r of A with column s of B.
Products(A, B, K, N, r, s) == [k \in 0 .. K - 1 |-> Times(A[r * K + k], B[k * N + s])]

\* The places that the products of row r and column s read.
Places(A, B, M, K, N, r, s) ==
    \A k \in 0 .. K - 1 : /\ r * K + k \in 0 .. M * K - 1 /\ k * N + s \in 0 .. K * N - 1
                          /\ A[r * K + k] \in Elements /\ B[k * N + s] \in Elements

\* An element of a product of matrices is the total of its products.
LEMMA ProductTotals ==
    ASSUME NEW M \in Nat, NEW K \in Nat, NEW N \in Nat, NEW A, NEW B,
           Numbers(A, M * K), Numbers(B, K * N), NEW o \in 0 .. M * N - 1
    PROVE  /\ MatmulData(A, B, M, K, N)[o] = TotalOf(Products(A, B, K, N, o \div N, o % N))
           /\ MatmulData(A, B, M, K, N)[o] \in Elements
           /\ Places(A, B, M, K, N, o \div N, o % N)
<1> DEFINE r == o \div N
           s == o % N
           f == [k \in 0 .. K - 1 |-> Times(A[r * K + k], B[k * N + s])]
<1>1. r \in 0 .. M - 1 /\ s \in 0 .. N - 1
  BY RowColumn
<1>2. MatmulData(A, B, M, K, N)[o] = TotalOf(f)
  BY DEF MatmulData, Total, TotalOf
<1> HIDE DEF r, s
<1>3. ASSUME NEW k \in 0 .. K - 1
      PROVE  /\ r * K + k \in 0 .. M * K - 1 /\ k * N + s \in 0 .. K * N - 1
             /\ A[r * K + k] \in Elements /\ B[k * N + s] \in Elements
  <2>1. r * K + k \in 0 .. M * K - 1
    BY <1>1, RowColumn
  <2>2. k * N + s \in 0 .. K * N - 1
    BY <1>1, RowColumn
  <2>3. QED
    BY <2>1, <2>2 DEF Numbers
<1>4. \A k \in 0 .. K - 1 : f[k] \in Elements
  BY <1>3, OperationsAre
<1>5. TotalOf(f) \in Elements
  <2>1. DOMAIN f = 0 .. K - 1 /\ IsFiniteSet(0 .. K - 1)
    BY FS_Interval
  <2> HIDE DEF f
  <2>2. QED
    BY <1>4, <2>1, TotalNumbers
<1>6. f = Products(A, B, K, N, r, s) /\ Places(A, B, M, K, N, r, s)
  BY <1>3 DEF Products, Places
<1> HIDE DEF f
<1>7. QED
  BY <1>2, <1>5, <1>6 DEF r, s

\* Zeros total 0.
LEMMA TotalZero ==
    ASSUME NEW f, NEW S, DOMAIN f = S, IsFiniteSet(S), \A x \in S : f[x] = 0
    PROVE  TotalOf(f) = 0
<1>1. \A x \in S : f[x] \in Elements
  BY ElementsAre
<1>2. SumFunctionOnSet(f, S) = 0
  BY SumZero
<1>3. TotalOf(f) = 0 % P
  BY <1>1, <1>2, TotalNumbers
<1>4. QED
  BY <1>3, ElementsAre

\* An element of the left factor changes the products of its row.
LEMMA LeftChanges ==
    ASSUME NEW M \in Nat, NEW K \in Nat, NEW N \in Nat, NEW A, NEW B, NEW C,
           Numbers(A, M * K), Numbers(B, K * N),
           NEW i \in 0 .. M * K - 1, Grown(A, C, M * K, i), NEW o \in 0 .. M * N - 1
    PROVE  Minus(MatmulData(C, B, M, K, N)[o], MatmulData(A, B, M, K, N)[o])
             = IF o \div N = i \div K THEN B[(i % K) * N + (o % N)] ELSE 0
<1> DEFINE r == o \div N
           s == o % N
           m == i \div K
           q == i % K
           f == Products(A, B, K, N, r, s)
           g == Products(C, B, K, N, r, s)
           d == [k \in 0 .. K - 1 |-> Minus(g[k], f[k])]
<1>1. Numbers(C, M * K) /\ \A j \in 0 .. M * K - 1 : Minus(C[j], A[j]) = IF j = i THEN 1 ELSE 0
  BY GrownIs
<1>2. /\ MatmulData(A, B, M, K, N)[o] = TotalOf(f)
      /\ MatmulData(C, B, M, K, N)[o] = TotalOf(g)
      /\ \A k \in 0 .. K - 1 :
            /\ r * K + k \in 0 .. M * K - 1
            /\ A[r * K + k] \in Elements /\ C[r * K + k] \in Elements
            /\ B[k * N + s] \in Elements
  <2>0. ASSUME NEW X, NEW Y, Numbers(X, M * K), Numbers(Y, K * N)
        PROVE  /\ MatmulData(X, Y, M, K, N)[o] = TotalOf(Products(X, Y, K, N, o \div N, o % N))
               /\ Places(X, Y, M, K, N, o \div N, o % N)
    BY <2>0, ProductTotals
  <2>1. /\ MatmulData(A, B, M, K, N)[o] = TotalOf(f) /\ Places(A, B, M, K, N, r, s)
    BY <2>0
  <2>2. /\ MatmulData(C, B, M, K, N)[o] = TotalOf(g) /\ Places(C, B, M, K, N, r, s)
    BY <1>1, <2>0
  <2> HIDE DEF f, g, r, s
  <2>3. QED
    BY <2>1, <2>2 DEF Places
<1>3. m \in 0 .. M - 1 /\ q \in 0 .. K - 1 /\ m * K + q = i /\ r \in 0 .. M - 1
  BY RowColumn
<1> HIDE DEF r, s, m, q
<1>4. \A k \in 0 .. K - 1 : (r * K + k = i) = (r = m /\ k = q)
  <2>1. \A j \in 0 .. M - 1, k \in 0 .. K - 1 : (j * K + k) \div K = j /\ (j * K + k) % K = k
    BY RowColumn
  <2>2. \A k \in 0 .. K - 1 : r * K + k = i => r = m /\ k = q
    <3>1. \A k \in 0 .. K - 1 : (r * K + k) \div K = r /\ (r * K + k) % K = k
      BY <1>3, <2>1, Zenon
    <3>2. (m * K + q) \div K = m /\ (m * K + q) % K = q
      BY <1>3, <2>1, Zenon
    <3>3. QED
      BY <1>3, <3>1, <3>2, Zenon
  <2>3. \A k \in 0 .. K - 1 : r = m /\ k = q => r * K + k = i
    BY <1>3, Zenon
  <2>4. QED
    BY <2>2, <2>3, Zenon
<1>5. ASSUME NEW k \in 0 .. K - 1
      PROVE  /\ f[k] \in Elements /\ g[k] \in Elements
             /\ d[k] = IF r = m /\ k = q THEN B[k * N + s] ELSE 0
  <2> DEFINE a == A[r * K + k]
             c == C[r * K + k]
             b == B[k * N + s]
  <2>1. a \in Elements /\ b \in Elements /\ c \in Elements
    BY <1>2
  <2>2. Minus(c, a) = IF r = m /\ k = q THEN 1 ELSE 0
    BY <1>1, <1>2, <1>4
  <2>3. f[k] = Times(a, b) /\ g[k] = Times(c, b) /\ d[k] = Minus(Times(c, b), Times(a, b))
    BY DEF Products
  <2> HIDE DEF a, b, c, f, g, d
  <2>4. Times(a, b) = Times(b, a) /\ Times(c, b) = Times(b, c)
    BY <2>1, TimesCommutes
  <2>5. Times(b, Minus(c, a)) = Minus(Times(b, c), Times(b, a)) /\ Times(b, 1) = b /\ Times(b, 0) = 0
    BY <2>1, RingLaws, TimesOne
  <2>6. f[k] \in Elements /\ g[k] \in Elements
    BY <2>1, <2>3, OperationsAre
  <2>7. QED
    BY <2>2, <2>3, <2>4, <2>5, <2>6 DEF b
<1>6. /\ IsFiniteSet(0 .. K - 1) /\ DOMAIN f = 0 .. K - 1 /\ DOMAIN g = 0 .. K - 1
      /\ DOMAIN d = 0 .. K - 1 /\ \A k \in 0 .. K - 1 : d[k] = Minus(g[k], f[k])
  BY FS_Interval DEF Products
<1> HIDE DEF f, g, d
<1>7. Minus(TotalOf(g), TotalOf(f)) = TotalOf(d)
  BY <1>5, <1>6, TotalMinus
<1>8. CASE r = m
  <2>1. d[q] = B[q * N + s] /\ \A k \in (0 .. K - 1) \ {q} : d[k] = 0
    BY <1>3, <1>5, <1>8
  <2>2. d[q] \in Elements
    BY <1>2, <1>3, <2>1
  <2>3. TotalOf(d) = d[q]
    BY <1>3, <1>6, <2>1, <2>2, TotalOfOne
  <2>4. QED
    BY <1>2, <1>7, <1>8, <2>1, <2>3 DEF r, s, m, q
<1>9. CASE r # m
  <2>1. \A k \in 0 .. K - 1 : d[k] = 0
    BY <1>5, <1>9
  <2>2. TotalOf(d) = 0
    BY <1>6, <2>1, TotalZero
  <2>3. QED
    BY <1>2, <1>7, <1>9, <2>2 DEF r, m
<1>10. QED
  BY <1>8, <1>9

\* An element of the right factor changes the products of its column.
LEMMA RightChanges ==
    ASSUME NEW M \in Nat, NEW K \in Nat, NEW N \in Nat, NEW A, NEW B, NEW C,
           Numbers(A, M * K), Numbers(B, K * N),
           NEW i \in 0 .. K * N - 1, Grown(B, C, K * N, i), NEW o \in 0 .. M * N - 1
    PROVE  Minus(MatmulData(A, C, M, K, N)[o], MatmulData(A, B, M, K, N)[o])
             = IF o % N = i % N THEN A[(o \div N) * K + (i \div N)] ELSE 0
<1> DEFINE r == o \div N
           s == o % N
           q == i \div N
           n == i % N
           f == Products(A, B, K, N, r, s)
           g == Products(A, C, K, N, r, s)
           d == [k \in 0 .. K - 1 |-> Minus(g[k], f[k])]
<1>1. Numbers(C, K * N) /\ \A j \in 0 .. K * N - 1 : Minus(C[j], B[j]) = IF j = i THEN 1 ELSE 0
  BY GrownIs
<1>2. /\ MatmulData(A, B, M, K, N)[o] = TotalOf(f)
      /\ MatmulData(A, C, M, K, N)[o] = TotalOf(g)
      /\ \A k \in 0 .. K - 1 :
            /\ k * N + s \in 0 .. K * N - 1
            /\ B[k * N + s] \in Elements /\ C[k * N + s] \in Elements
            /\ A[r * K + k] \in Elements
  <2>0. ASSUME NEW X, NEW Y, Numbers(X, M * K), Numbers(Y, K * N)
        PROVE  /\ MatmulData(X, Y, M, K, N)[o] = TotalOf(Products(X, Y, K, N, o \div N, o % N))
               /\ Places(X, Y, M, K, N, o \div N, o % N)
    BY <2>0, ProductTotals
  <2>1. /\ MatmulData(A, B, M, K, N)[o] = TotalOf(f) /\ Places(A, B, M, K, N, r, s)
    BY <2>0
  <2>2. /\ MatmulData(A, C, M, K, N)[o] = TotalOf(g) /\ Places(A, C, M, K, N, r, s)
    BY <1>1, <2>0
  <2> HIDE DEF f, g, r, s
  <2>3. QED
    BY <2>1, <2>2 DEF Places
<1>3. q \in 0 .. K - 1 /\ n \in 0 .. N - 1 /\ q * N + n = i /\ s \in 0 .. N - 1
  BY RowColumn
<1> HIDE DEF r, s, n, q
<1>4. \A k \in 0 .. K - 1 : (k * N + s = i) = (s = n /\ k = q)
  <2>1. \A k \in 0 .. K - 1, j \in 0 .. N - 1 : (k * N + j) \div N = k /\ (k * N + j) % N = j
    BY RowColumn
  <2>2. QED
    BY <1>3, <2>1
<1>5. ASSUME NEW k \in 0 .. K - 1
      PROVE  /\ f[k] \in Elements /\ g[k] \in Elements
             /\ d[k] = IF s = n /\ k = q THEN A[r * K + k] ELSE 0
  <2> DEFINE a == A[r * K + k]
             c == C[k * N + s]
             b == B[k * N + s]
  <2>1. a \in Elements /\ b \in Elements /\ c \in Elements
    BY <1>2
  <2>2. Minus(c, b) = IF s = n /\ k = q THEN 1 ELSE 0
    BY <1>1, <1>2, <1>4
  <2>3. f[k] = Times(a, b) /\ g[k] = Times(a, c) /\ d[k] = Minus(Times(a, c), Times(a, b))
    BY DEF Products
  <2> HIDE DEF a, b, c, f, g, d
  <2>4. Times(a, Minus(c, b)) = Minus(Times(a, c), Times(a, b)) /\ Times(a, 1) = a /\ Times(a, 0) = 0
    BY <2>1, RingLaws, TimesOne
  <2>5. f[k] \in Elements /\ g[k] \in Elements
    BY <2>1, <2>3, OperationsAre
  <2>6. QED
    BY <2>2, <2>3, <2>4, <2>5 DEF a
<1>6. /\ IsFiniteSet(0 .. K - 1) /\ DOMAIN f = 0 .. K - 1 /\ DOMAIN g = 0 .. K - 1
      /\ DOMAIN d = 0 .. K - 1 /\ \A k \in 0 .. K - 1 : d[k] = Minus(g[k], f[k])
  BY FS_Interval DEF Products
<1> HIDE DEF f, g, d
<1>7. Minus(TotalOf(g), TotalOf(f)) = TotalOf(d)
  BY <1>5, <1>6, TotalMinus
<1>8. CASE s = n
  <2>1. d[q] = A[r * K + q] /\ \A k \in (0 .. K - 1) \ {q} : d[k] = 0
    BY <1>3, <1>5, <1>8
  <2>2. d[q] \in Elements
    BY <1>2, <1>3, <2>1
  <2>3. TotalOf(d) = d[q]
    BY <1>3, <1>6, <2>1, <2>2, TotalOfOne
  <2>4. QED
    BY <1>2, <1>7, <1>8, <2>1, <2>3 DEF r, s, n, q
<1>9. CASE s # n
  <2>1. \A k \in 0 .. K - 1 : d[k] = 0
    BY <1>5, <1>9
  <2>2. TotalOf(d) = 0
    BY <1>6, <2>1, TotalZero
  <2>3. QED
    BY <1>2, <1>7, <1>9, <2>2 DEF s, n
<1>10. QED
  BY <1>8, <1>9

\* The n numbers of y weighted with g.
Dotted(g, y, n) == TotalOf([o \in 0 .. n - 1 |-> Times(g[o], y[o])])

\* When y changes to z, its weighted total changes by the weighted changes.
LEMMA DottedChanges ==
    ASSUME NEW n \in Int, NEW g, NEW y, NEW z, Numbers(g, n), Numbers(y, n), Numbers(z, n),
           NEW d, DOMAIN d = 0 .. n - 1,
           \A o \in 0 .. n - 1 : d[o] = Times(g[o], Minus(z[o], y[o]))
    PROVE  /\ Minus(Dotted(g, z, n), Dotted(g, y, n)) = TotalOf(d)
           /\ \A o \in 0 .. n - 1 : d[o] \in Elements
<1> DEFINE S == 0 .. n - 1
           u == [o \in S |-> Times(g[o], y[o])]
           v == [o \in S |-> Times(g[o], z[o])]
<1>1. DOMAIN u = S /\ DOMAIN v = S /\ DOMAIN d = S /\ IsFiniteSet(S)
  BY FS_Interval
<1>2. \A o \in S : /\ g[o] \in Elements /\ y[o] \in Elements /\ z[o] \in Elements
                   /\ u[o] = Times(g[o], y[o]) /\ v[o] = Times(g[o], z[o])
                   /\ d[o] = Times(g[o], Minus(z[o], y[o]))
  BY DEF Numbers
<1>3. Dotted(g, z, n) = TotalOf(v) /\ Dotted(g, y, n) = TotalOf(u)
  BY DEF Dotted
<1> HIDE DEF S, u, v
<1>4. Minus(TotalOf(v), TotalOf(u)) = TotalOf(d)
  <2>1. ASSUME NEW o \in S
        PROVE  v[o] \in Elements /\ u[o] \in Elements /\ d[o] = Minus(v[o], u[o])
    <3>1. u[o] \in Elements /\ v[o] \in Elements
      BY <1>2, OperationsAre
    <3>2. Times(g[o], Minus(z[o], y[o])) = Minus(Times(g[o], z[o]), Times(g[o], y[o]))
      BY <1>2, RingLaws
    <3>3. QED
      BY <1>2, <3>1, <3>2
  <2>2. QED
    BY <1>1, <2>1, TotalMinus
<1>5. \A o \in S : d[o] \in Elements
  <2>1. \A o \in S : Minus(z[o], y[o]) \in Elements
    BY <1>2, OperationsAre
  <2>2. QED
    BY <1>2, <2>1, OperationsAre
<1>6. QED
  BY <1>3, <1>4, <1>5 DEF S

\* What cpu_matmul_T leaves for an element of the left factor.
LEMMA LeftOwed ==
    ASSUME NEW M \in Nat, NEW K \in Nat, NEW N \in Nat, NEW A, NEW B, NEW C, NEW g,
           Numbers(A, M * K), Numbers(B, K * N), Numbers(g, M * N),
           NEW i \in 0 .. M * K - 1, Grown(A, C, M * K, i)
    PROVE  Minus(Dotted(g, MatmulData(C, B, M, K, N), M * N),
                 Dotted(g, MatmulData(A, B, M, K, N), M * N))
             = MatmulTData(g, B, M, N, K)[i]
<1> DEFINE y == MatmulData(A, B, M, K, N)
           z == MatmulData(C, B, M, K, N)
           l == M * N
           S == 0 .. l - 1
           d == [o \in S |-> Times(g[o], Minus(z[o], y[o]))]
           m == i \div K
           q == i % K
           R == 0 .. N - 1
           h == [n \in R |-> m * N + n]
           f == [n \in R |-> Times(g[m * N + n], B[q * N + n])]
<1>1. Numbers(C, M * K)
  BY GrownIs
<1>2. Numbers(y, l) /\ Numbers(z, l) /\ l \in Int
  <2>1. \A o \in S : y[o] \in Elements
    BY ProductTotals
  <2>2. \A o \in S : z[o] \in Elements
    BY <1>1, ProductTotals
  <2>3. QED
    BY <2>1, <2>2 DEF Numbers
<1>3. \A o \in S : Minus(z[o], y[o]) = IF o \div N = m THEN B[q * N + (o % N)] ELSE 0
  BY LeftChanges
<1>4. m \in 0 .. M - 1 /\ q \in 0 .. K - 1
  BY RowColumn
<1>5. MatmulTData(g, B, M, N, K)[i] = TotalOf(f)
  BY DEF MatmulTData, Total, TotalOf
<1>6. \A j \in 0 .. M - 1, n \in R : /\ j * N + n \in S
                                     /\ (j * N + n) \div N = j /\ (j * N + n) % N = n
  BY RowColumn
<1>7. \A o \in S : o % N \in R /\ (o \div N) * N + (o % N) = o
  BY RowColumn
<1> HIDE DEF y, z, l, m, q
<1>8. Minus(Dotted(g, z, l), Dotted(g, y, l)) = TotalOf(d) /\ \A o \in S : d[o] \in Elements
  <2>1. Numbers(g, l)
    BY DEF l
  <2>2. QED
    <3>1. DOMAIN d = S /\ \A o \in S : d[o] = Times(g[o], Minus(z[o], y[o]))
      OBVIOUS
    <3> HIDE DEF d
    <3>2. QED
      BY <1>2, <2>1, <3>1, DottedChanges
<1>9. IsFiniteSet(S) /\ IsFiniteSet(R) /\ DOMAIN d = S /\ DOMAIN f = R /\ DOMAIN h = R
  <2>1. l - 1 \in Int /\ N - 1 \in Int /\ M - 1 \in Int
    BY <1>2
  <2> HIDE DEF l
  <2>2. IsFiniteSet(S) /\ IsFiniteSet(R)
    BY <2>1, FS_Interval
  <2>3. QED
    BY <2>2
<1>10. \A n \in R : h[n] = m * N + n /\ h[n] \in S /\ h[n] \div N = m /\ h[n] % N = n
  <2> HIDE DEF S, R
  <2>1. \A n \in R : h[n] = m * N + n
    OBVIOUS
  <2>2. QED
    BY <1>4, <1>6, <2>1, Zenon
<1>11. \A o \in S : d[o] = Times(g[o], Minus(z[o], y[o]))
  OBVIOUS
<1>12. \A n \in R : f[n] = Times(g[m * N + n], B[q * N + n])
  OBVIOUS
<1> HIDE DEF S, R, h, d, f
<1>13. \A n, k \in R : h[n] = h[k] => n = k
  BY <1>10, Zenon
<1>14. \A n \in R : f[n] = d[h[n]]
  <2> SUFFICES ASSUME NEW n \in R PROVE f[n] = d[h[n]]
    OBVIOUS
  <2>1. Minus(z[h[n]], y[h[n]]) = B[q * N + n]
    BY <1>3, <1>10
  <2>2. d[h[n]] = Times(g[h[n]], Minus(z[h[n]], y[h[n]]))
    BY <1>10, <1>11
  <2>3. QED
    BY <1>10, <1>12, <2>1, <2>2
<1>15. \A o \in S : (\A n \in R : h[n] # o) => d[o] = 0
  <2> SUFFICES ASSUME NEW o \in S, \A n \in R : h[n] # o PROVE d[o] = 0
    OBVIOUS
  <2>1. o \div N # m
    BY <1>7, <1>10, Zenon
  <2>2. Minus(z[o], y[o]) = 0
    BY <1>3, <2>1
  <2>3. Times(g[o], 0) = 0
    <3>1. g[o] \in Elements
      BY DEF Numbers, S, l
    <3>2. QED
      BY <3>1, TimesOne, RingLaws
  <2>4. QED
    BY <1>11, <2>2, <2>3
<1>16. TotalOf(f) = TotalOf(d)
  <2>1. \A n \in R : h[n] \in S
    BY <1>10, Zenon
  <2>2. \A o \in S : d[o] \in Elements
    BY <1>8, Zenon
  <2>3. QED
    BY <1>9, <1>13, <1>14, <1>15, <2>1, <2>2, TotalElsewhere
<1>17. QED
  BY <1>5, <1>8, <1>16 DEF y, z, l

\* at is A transposed.
Transposed(at, A, M, K) == \A o \in 0 .. K * M - 1 : at[o] = A[(o % M) * K + (o \div M)]

\* What cpu_matmul leaves for an element of the right factor, from the left
\* factor transposed.
LEMMA RightOwed ==
    ASSUME NEW M \in Nat, NEW K \in Nat, NEW N \in Nat, NEW A, NEW B, NEW C, NEW g,
           Numbers(A, M * K), Numbers(B, K * N), Numbers(g, M * N),
           NEW i \in 0 .. K * N - 1, Grown(B, C, K * N, i),
           NEW at, Transposed(at, A, M, K)
    PROVE  Minus(Dotted(g, MatmulData(A, C, M, K, N), M * N),
                 Dotted(g, MatmulData(A, B, M, K, N), M * N))
             = MatmulData(at, g, K, M, N)[i]
<1> DEFINE y == MatmulData(A, B, M, K, N)
           z == MatmulData(A, C, M, K, N)
           l == M * N
           S == 0 .. l - 1
           d == [o \in S |-> Times(g[o], Minus(z[o], y[o]))]
           q == i \div N
           s == i % N
           R == 0 .. M - 1
           h == [m \in R |-> m * N + s]
           f == [m \in R |-> Times(at[q * M + m], g[m * N + s])]
<1>1. Numbers(C, K * N)
  BY GrownIs
<1>2. Numbers(y, l) /\ Numbers(z, l) /\ l \in Int
  <2>1. \A o \in S : y[o] \in Elements
    BY ProductTotals
  <2>2. \A o \in S : z[o] \in Elements
    BY <1>1, ProductTotals
  <2>3. QED
    BY <2>1, <2>2 DEF Numbers
<1>3. \A o \in S : Minus(z[o], y[o]) = IF o % N = s THEN A[(o \div N) * K + q] ELSE 0
  BY RightChanges
<1>4. q \in 0 .. K - 1 /\ s \in 0 .. N - 1
  BY RowColumn
<1>5. MatmulData(at, g, K, M, N)[i] = TotalOf(f)
  BY DEF MatmulData, Total, TotalOf
<1>6. \A m \in R, n \in 0 .. N - 1 : /\ m * N + n \in S
                                     /\ (m * N + n) \div N = m /\ (m * N + n) % N = n
  BY RowColumn
<1>7. \A o \in S : o \div N \in R /\ (o \div N) * N + (o % N) = o
  BY RowColumn
<1> HIDE DEF y, z, l
<1>8. \A m \in R : at[q * M + m] = A[m * K + q]
  <2> DEFINE j == K * M
  <2>1. \A p \in 0 .. K - 1, m \in R : /\ p * M + m \in 0 .. j - 1
                                       /\ (p * M + m) \div M = p /\ (p * M + m) % M = m
    BY RowColumn
  <2>2. \A o \in 0 .. j - 1 : at[o] = A[(o % M) * K + (o \div M)]
    BY DEF Transposed
  <2> HIDE DEF j, q, R
  <2>3. QED
    BY <1>4, <2>1, <2>2, Zenon
<1> HIDE DEF q, s
<1>9. Minus(Dotted(g, z, l), Dotted(g, y, l)) = TotalOf(d) /\ \A o \in S : d[o] \in Elements
  <2>1. Numbers(g, l)
    BY DEF l
  <2>2. QED
    <3>1. DOMAIN d = S /\ \A o \in S : d[o] = Times(g[o], Minus(z[o], y[o]))
      OBVIOUS
    <3> HIDE DEF d
    <3>2. QED
      BY <1>2, <2>1, <3>1, DottedChanges
<1>10. IsFiniteSet(S) /\ IsFiniteSet(R) /\ DOMAIN d = S /\ DOMAIN f = R /\ DOMAIN h = R
  <2>1. l - 1 \in Int /\ N - 1 \in Int /\ M - 1 \in Int
    BY <1>2
  <2> HIDE DEF l
  <2>2. IsFiniteSet(S) /\ IsFiniteSet(R)
    BY <2>1, FS_Interval
  <2>3. QED
    BY <2>2
<1>11. \A m \in R : h[m] = m * N + s /\ h[m] \in S /\ h[m] \div N = m /\ h[m] % N = s
  <2> HIDE DEF S, R
  <2>1. \A m \in R : h[m] = m * N + s
    OBVIOUS
  <2>2. QED
    BY <1>4, <1>6, <2>1, Zenon
<1>12. \A o \in S : d[o] = Times(g[o], Minus(z[o], y[o]))
  OBVIOUS
<1>13. \A m \in R : f[m] = Times(at[q * M + m], g[m * N + s])
  OBVIOUS
<1> HIDE DEF S, R, h, d, f
<1>14. \A m, k \in R : h[m] = h[k] => m = k
  BY <1>11, Zenon
<1>15. \A m \in R : f[m] = d[h[m]]
  <2> SUFFICES ASSUME NEW m \in R PROVE f[m] = d[h[m]]
    OBVIOUS
  <2>1. Minus(z[h[m]], y[h[m]]) = A[m * K + q]
    BY <1>3, <1>11
  <2>2. d[h[m]] = Times(g[h[m]], A[m * K + q])
    BY <1>11, <1>12, <2>1
  <2>3. f[m] = Times(A[m * K + q], g[h[m]])
    BY <1>8, <1>11, <1>13
  <2>4. g[h[m]] \in Elements
    BY <1>11 DEF Numbers, S, l
  <2>5. A[m * K + q] \in Elements
    <3>1. m * K + q \in 0 .. M * K - 1
      BY <1>4, RowColumn DEF R
    <3>2. QED
      BY <3>1 DEF Numbers
  <2>6. QED
    BY <2>2, <2>3, <2>4, <2>5, TimesCommutes
<1>16. \A o \in S : (\A m \in R : h[m] # o) => d[o] = 0
  <2> SUFFICES ASSUME NEW o \in S, \A m \in R : h[m] # o PROVE d[o] = 0
    OBVIOUS
  <2>1. o % N # s
    BY <1>7, <1>11, Zenon
  <2>2. Minus(z[o], y[o]) = 0
    BY <1>3, <2>1
  <2>3. Times(g[o], 0) = 0
    <3>1. g[o] \in Elements
      BY DEF Numbers, S, l
    <3>2. QED
      BY <3>1, TimesOne, RingLaws
  <2>4. QED
    BY <1>12, <2>2, <2>3
<1>17. TotalOf(f) = TotalOf(d)
  <2>1. \A m \in R : h[m] \in S
    BY <1>11, Zenon
  <2>2. \A o \in S : d[o] \in Elements
    BY <1>9, Zenon
  <2>3. QED
    BY <1>10, <1>14, <1>15, <1>16, <2>1, <2>2, TotalElsewhere
<1>18. QED
  BY <1>5, <1>9, <1>17 DEF y, z, l

\* The gradients of a product of matrices are its derivatives.
LEMMA MatmulGrads ==
    ASSUME CallInv, GradsInv, call.op = "matmul", pc = "done", NEW k \in Differentiable
    PROVE  IsDerivative(k)
<1> DEFINE a == Args(call)[1]
           b == Args(call)[2]
           g == Seed(call)
           M == a.shape[1]
           K == a.shape[2]
           N == b.shape[2]
           y(A, B) == MatmulData(A, B, M, K, N)
           at == [o \in 0 .. K * M - 1 |-> a.data[(o % M) * K + (o \div M)]]
<1>1. /\ call \in Calls /\ Accepts(call, call.shapes)
      /\ Len(call.shapes) \in Nat /\ DOMAIN call.shapes = 1 .. Len(call.shapes)
      /\ inputs = Args(call) /\ output = Result(call) /\ og = g
      /\ \A j \in DOMAIN call.shapes :
            /\ grads[j] = Propagated(call, Args(call), Result(call), g)[j]
            /\ call.shapes[j] \in Seq(Nat)
            /\ Args(call)[j].shape = call.shapes[j]
            /\ NoZeros(Args(call)[j], call.shapes[j])
  BY DirectDone DEF Direct
<1>2. Len(call.shapes) = 2
  BY <1>1, CallsAssumption
<1>3. k \in {1, 2} /\ 1 \in DOMAIN call.shapes /\ 2 \in DOMAIN call.shapes
  BY <1>1, <1>2 DEF Differentiable, Inputs
<1>4. /\ a.shape \in Seq(Nat) /\ b.shape \in Seq(Nat)
      /\ a.shape = call.shapes[1] /\ b.shape = call.shapes[2]
      /\ NoZeros(a, a.shape) /\ NoZeros(b, b.shape)
      /\ inputs[1] = a /\ inputs[2] = b
  BY <1>1, <1>3
<1>5. M \in Nat /\ K \in Nat /\ N \in Nat /\ a.shape = <<M, K>> /\ b.shape = <<K, N>>
  <2>1. Len(a.shape) = 2 /\ Len(b.shape) = 2 /\ K = b.shape[1]
    BY <1>1, <1>4 DEF Accepts, Elementwise, MatmulAccepts
  <2> HIDE DEF a, b
  <2>2. /\ 1 \in 1 .. Len(a.shape) /\ 2 \in 1 .. Len(a.shape)
        /\ 1 \in 1 .. Len(b.shape) /\ 2 \in 1 .. Len(b.shape)
    BY <2>1
  <2>3. M \in Nat /\ K \in Nat /\ N \in Nat
    BY <1>4, <2>2, StridesAre
  <2>4. a.shape = <<M, K>> /\ b.shape = <<K, N>>
    <3>1. a.shape = <<a.shape[1], a.shape[2]>> /\ b.shape = <<b.shape[1], b.shape[2]>>
      BY <1>4, <2>1, PairIs, Zenon
    <3>2. QED
      BY <2>1, <3>1
  <2>5. QED
    BY <2>3, <2>4
<1>6. /\ a = Filled(call.shapes[1], 1) /\ b = Filled(call.shapes[2], 2)
      /\ DOMAIN a.data = Offsets(a.shape) /\ DOMAIN b.data = Offsets(b.shape)
  <2>1. a = Filled(call.shapes[1], 1) /\ b = Filled(call.shapes[2], 2)
    BY <1>3 DEF Args
  <2>2. DOMAIN a.data = Offsets(call.shapes[1]) /\ DOMAIN b.data = Offsets(call.shapes[2])
    BY <2>1 DEF Filled, Tensor
  <2>3. QED
    BY <1>4, <2>1, <2>2
<1>7. /\ \A in : in[1].shape = a.shape /\ in[2].shape = b.shape =>
            Computed(call, in) = [shape |-> <<M, N>>, data |-> y(in[1].data, in[2].data)]
      /\ Propagated(call, Args(call), Result(call), g)
           = <<[shape |-> a.shape, data |-> MatmulTData(g.data, b.data, M, N, K)],
               [shape |-> b.shape, data |-> MatmulData(at, g.data, K, M, N)]>>
  <2>1. \A in : in[1].shape = a.shape /\ in[2].shape = b.shape =>
            Computed(call, in) = [shape |-> <<M, N>>, data |-> y(in[1].data, in[2].data)]
    BY DEF Computed, Elementwise, Unary, MatmulForward
  <2>2. Propagated(call, Args(call), Result(call), g)
           = <<[shape |-> a.shape, data |-> MatmulTData(g.data, b.data, M, N, K)],
               [shape |-> b.shape, data |-> MatmulData(at, g.data, K, M, N)]>>
    BY DEF Propagated, Elementwise, Unary, Constants, MatmulBackward
  <2>3. QED
    BY <2>1, <2>2
<1>8. g = Filled(<<M, N>>, 4)
  <2>1. Args(call)[1].shape = a.shape /\ Args(call)[2].shape = b.shape
    OBVIOUS
  <2>2. Result(call) = Computed(call, Args(call))
    BY DEF Result
  <2> HIDE DEF a, b, y, M, K, N
  <2>3. Result(call).shape = <<M, N>>
    <3>1. Computed(call, Args(call))
            = [shape |-> <<M, N>>, data |-> y(Args(call)[1].data, Args(call)[2].data)]
      BY <1>7, <2>1
    <3>2. QED
      BY <2>2, <3>1
  <2>4. QED
    BY <2>3 DEF Seed, g
<1> DEFINE mk == M * K
           kn == K * N
           mn == M * N
<1>9. /\ DOMAIN y(a.data, b.data) = 0 .. mn - 1 /\ \A A, B : DOMAIN y(A, B) = 0 .. mn - 1
      /\ Transposed(at, a.data, M, K)
  BY DEF MatmulData, Transposed
<1> HIDE DEF a, b, g, at, y, M, K, N, mk, kn, mn
<1>10. /\ Offsets(a.shape) = 0 .. mk - 1 /\ Offsets(b.shape) = 0 .. kn - 1
       /\ <<M, N>> \in Seq(Nat) /\ Offsets(<<M, N>>) = 0 .. mn - 1
  <2>1. \A m, n \in Nat : <<m, n>> \in Seq(Nat) /\ Numel(<<m, n>>) = m * n
    BY MatrixOffset
  <2>2. QED
    BY <1>5, <2>1 DEF Offsets, mk, kn, mn
<1>11. Numbers(a.data, mk) /\ Numbers(b.data, kn) /\ Numbers(g.data, mn)
  <2>1. NoZeros(g, <<M, N>>)
    BY <1>8, <1>10, FilledIs
  <2>2. QED
    BY <1>4, <1>10, <2>1 DEF NoZeros, Numbers
<1>12. \A A, B : Weighted([shape |-> <<M, N>>, data |-> y(A, B)]) = Dotted(g.data, y(A, B), mn)
  BY <1>1, <1>9 DEF Weighted, Dotted
<1>13. \A t, u, i, n : GrownBy(t, u, i) /\ DOMAIN t.data = 0 .. n - 1 =>
                          Grown(t.data, u.data, n, i) /\ u.shape = t.shape
  BY DEF GrownBy, Grown
<1>14. \A j \in {1, 2} : \A i :
          LinearGrad(j, i, Loss(inputs))
            = Minus(Weighted(Computed(call, Raised(j, i))), Weighted(Computed(call, inputs)))
  BY LinearIs
<1>15. Weighted(Computed(call, inputs)) = Dotted(g.data, y(a.data, b.data), mn)
  BY <1>4, <1>7, <1>12
<1>16. ASSUME NEW i \in Offsets(a.shape)
       PROVE  grads[1].data[i] = LinearGrad(1, i, Loss(inputs))
  <2> DEFINE u == Raised(1, i)
             C == u[1].data
  <2>1. GrownBy(a, u[1], i) /\ u[2] = b
    BY <1>1, <1>2, <1>3, <1>4, RaisedIs DEF a, b
  <2> HIDE DEF u
  <2>2. Grown(a.data, C, mk, i) /\ u[1].shape = a.shape
    BY <1>6, <1>10, <1>13, <2>1
  <2>3. Weighted(Computed(call, u)) = Dotted(g.data, y(C, b.data), mn)
    BY <1>7, <1>12, <2>1, <2>2
  <2> HIDE DEF C
  <2>4. Minus(Dotted(g.data, y(C, b.data), mn), Dotted(g.data, y(a.data, b.data), mn))
          = MatmulTData(g.data, b.data, M, N, K)[i]
    <3>1. i \in 0 .. mk - 1
      BY <1>10
    <3>2. QED
      BY <1>5, <1>11, <2>2, <3>1, LeftOwed DEF y, mk, kn, mn
  <2>5. grads[1].data[i] = MatmulTData(g.data, b.data, M, N, K)[i]
    BY <1>1, <1>3, <1>7
  <2>6. QED
    BY <1>14, <1>15, <2>3, <2>4, <2>5 DEF u
<1>17. ASSUME NEW i \in Offsets(b.shape)
       PROVE  grads[2].data[i] = LinearGrad(2, i, Loss(inputs))
  <2> DEFINE u == Raised(2, i)
             C == u[2].data
  <2>1. GrownBy(b, u[2], i) /\ u[1] = a
    BY <1>1, <1>2, <1>3, <1>4, RaisedIs DEF a, b
  <2> HIDE DEF u
  <2>2. Grown(b.data, C, kn, i) /\ u[2].shape = b.shape
    BY <1>6, <1>10, <1>13, <2>1
  <2>3. Weighted(Computed(call, u)) = Dotted(g.data, y(a.data, C), mn)
    BY <1>7, <1>12, <2>1, <2>2
  <2> HIDE DEF C
  <2>4. Minus(Dotted(g.data, y(a.data, C), mn), Dotted(g.data, y(a.data, b.data), mn))
          = MatmulData(at, g.data, K, M, N)[i]
    <3>1. i \in 0 .. kn - 1
      BY <1>10
    <3>2. Transposed(at, a.data, M, K)
      BY <1>9
    <3>3. QED
      BY <1>5, <1>11, <2>2, <3>1, <3>2, RightOwed DEF y, mk, kn, mn
  <2>5. grads[2].data[i] = MatmulData(at, g.data, K, M, N)[i]
    BY <1>1, <1>3, <1>7
  <2>6. QED
    BY <1>14, <1>15, <2>3, <2>4, <2>5 DEF u
<1>18. IsDerivative(k) = \A i \in Offsets(inputs[k].shape) :
                             grads[k].data[i] = LinearGrad(k, i, Loss(inputs))
  BY DEF IsDerivative, Elementwise, Unary
<1>19. QED
  BY <1>3, <1>4, <1>16, <1>17, <1>18

-----------------------------------------------------------------------------
(* The rows of the last axis. *)

\* The position in the row of p, along axis n, with coordinate c.
InRow(p, n, c) == [p EXCEPT ![n] = c]

\* It is as far behind p as its coordinate is.
LEMMA RowOffset ==
    ASSUME NEW s \in Seq(Nat), NEW n, n = Len(s), n >= 1, NEW p \in Positions(s),
           NEW c \in 0 .. s[n] - 1
    PROVE  /\ InRow(p, n, c) \in Positions(s)
           /\ OffsetOf(InRow(p, n, c), s) = OffsetOf(p, s) + (c - p[n])
           /\ p[n] \in 0 .. s[n] - 1
<1> DEFINE q == InRow(p, n, c)
           X(k) == OffsetFrom(p, s, k)
           Y(k) == OffsetFrom(q, s, k)
           R(k) == Rest(s, k)
<1>1. n \in Nat /\ n - 1 \in Nat /\ n \in 1 .. n /\ \A i \in 1 .. n : s[i] \in Nat
  BY StridesAre
<1>2. p \in [1 .. n -> Nat] /\ \A i \in 1 .. n : p[i] < s[i]
  BY PositionsAre
<1>3. q \in [1 .. n -> Nat] /\ q[n] = c /\ \A i \in 1 .. n : i # n => q[i] = p[i]
  <2>1. c \in Nat
    BY <1>1
  <2>2. QED
    BY <1>1, <1>2, <2>1 DEF InRow
<1> HIDE DEF q
<1>4. q \in Positions(s)
  <2>1. \A i \in 1 .. n : q[i] < s[i]
    BY <1>1, <1>2, <1>3
  <2>2. QED
    BY <1>3, <2>1, PositionsAre
<1>5. R(n) = 1
  BY RestIs
<1>6. /\ X(n) = 0 /\ \A k \in 0 .. n : X(k) \in Nat
      /\ \A k \in 1 .. n : p[k] * R(k) \in Nat /\ X(k - 1) = p[k] * R(k) + X(k)
  BY OffsetFromIs
<1>7. /\ Y(n) = 0 /\ \A k \in 0 .. n : Y(k) \in Nat
      /\ \A k \in 1 .. n : q[k] * R(k) \in Nat /\ Y(k - 1) = q[k] * R(k) + Y(k)
  <2>1. \A r \in Positions(s) :
           /\ OffsetFrom(r, s, Len(s)) = 0
           /\ \A k \in 0 .. Len(s) : OffsetFrom(r, s, k) \in Nat
           /\ \A k \in 1 .. Len(s) :
                 /\ r[k] * Rest(s, k) \in Nat
                 /\ OffsetFrom(r, s, k - 1) = r[k] * Rest(s, k) + OffsetFrom(r, s, k)
    BY OffsetFromIs
  <2>2. QED
    BY <1>4, <2>1, Zenon
<1> HIDE DEF X, Y, R
<1>8. c \in Int /\ p[n] \in Int
  BY <1>1, <1>2
<1> DEFINE D == {j \in 0 .. n - 1 : Y((n - 1) - j) = X((n - 1) - j) + (c - p[n])}
<1>9. 0 \in D
  <2>1. X(n - 1) = p[n] * 1 + 0 /\ Y(n - 1) = c * 1 + 0
    BY <1>1, <1>3, <1>5, <1>6, <1>7
  <2>2. (n - 1) - 0 = n - 1 /\ 0 \in 0 .. n - 1
    BY <1>1
  <2>3. p[n] * 1 + 0 = p[n] /\ c * 1 + 0 = c /\ c = p[n] + (c - p[n])
    BY <1>8
  <2>4. QED
    BY <2>1, <2>2, <2>3
<1>10. ASSUME NEW j \in 0 .. (n - 1) - 1, j \in D PROVE j + 1 \in D
  <2> DEFINE k == (n - 1) - j
  <2>1. /\ k \in 1 .. n /\ k # n /\ k \in 0 .. n /\ k - 1 \in 0 .. n
        /\ (n - 1) - (j + 1) = k - 1 /\ j + 1 \in 0 .. n - 1
    BY <1>1
  <2>2. Y(k) = X(k) + (c - p[n])
    BY <1>10
  <2> HIDE DEF k
  <2>3. X(k - 1) = p[k] * R(k) + X(k) /\ Y(k - 1) = p[k] * R(k) + Y(k)
    BY <1>3, <1>6, <1>7, <2>1
  <2> DEFINE t == p[k] * R(k)
  <2>4. t \in Int /\ X(k) \in Int
    <3>1. t \in Nat /\ X(k) \in Nat
      BY <1>6, <2>1, Zenon
    <3> HIDE DEF t
    <3>2. QED
      BY <3>1
  <2> HIDE DEF t
  <2>5. t + (X(k) + (c - p[n])) = (t + X(k)) + (c - p[n])
    BY <1>8, <2>4
  <2>6. Y(k - 1) = X(k - 1) + (c - p[n])
    BY <2>2, <2>3, <2>5 DEF t
  <2>7. QED
    BY <2>1, <2>6
<1>11. n - 1 \in D
  <2> HIDE DEF D
  <2>1. 0 .. n - 1 \subseteq D
    BY <1>1, <1>9, <1>10, UpTo
  <2>2. QED
    BY <1>1, <2>1
<1>12. Y(0) = X(0) + (c - p[n])
  <2>1. (n - 1) - (n - 1) = 0
    BY <1>1
  <2>2. QED
    BY <1>11, <2>1
<1>13. OffsetOf(p, s) = X(0) /\ OffsetOf(q, s) = Y(0)
  BY <1>4, OffsetIs DEF X, Y
<1>14. p[n] \in 0 .. s[n] - 1
  BY <1>1, <1>2
<1>15. QED
  BY <1>4, <1>12, <1>13, <1>14 DEF q

\* The last coordinate is what is left by the rows before.
LEMMA RowStart ==
    ASSUME NEW s \in Seq(Nat), NEW n, n = Len(s), n >= 1, NEW p \in Positions(s),
           NEW o, o = OffsetOf(p, s)
    PROVE  /\ o \in Nat /\ s[n] \in Nat /\ s[n] > 0 /\ p[n] \in Nat
           /\ o % s[n] = p[n] /\ (o \div s[n]) * s[n] = o - p[n]
<1>1. n \in Nat /\ n - 1 \in 0 .. n /\ n \in 1 .. n /\ \A i \in 1 .. n : s[i] \in Nat
  BY StridesAre
<1>2. o \in Offsets(s) /\ Decode(o, s) = p /\ Numel(s) \in Nat
  BY OffsetIs, OffsetsFinite
<1>3. Rest(s, n) = 1 /\ Rest(s, n - 1) = s[n] * Rest(s, n)
  BY <1>1, RestIs
<1>4. /\ Behind(o, s, n) \in 0 .. Rest(s, n) - 1
      /\ Behind(o, s, n - 1) \in 0 .. Rest(s, n - 1) - 1
      /\ s[n] > 0 /\ p[n] \in 0 .. s[n] - 1
      /\ p[n] * Rest(s, n) + Behind(o, s, n) = Behind(o, s, n - 1)
  BY <1>1, <1>2, CoordinatesAre
<1>5. o \in Nat /\ s[n] \in Nat /\ p[n] \in Nat
  BY <1>1, <1>2, <1>4 DEF Offsets
<1>6. Rest(s, n - 1) = s[n] /\ Behind(o, s, n) = 0 /\ Behind(o, s, n - 1) = p[n]
  <2>1. Behind(o, s, n) = 0
    BY <1>3, <1>4
  <2>2. s[n] * 1 = s[n] /\ p[n] * 1 + 0 = p[n]
    BY <1>5
  <2>3. QED
    BY <1>3, <1>4, <2>1, <2>2
<1>7. o % s[n] = p[n]
  <2>1. CASE n = 1
    <3>1. o = p[n]
      BY <1>6, <2>1 DEF Behind
    <3>2. QED
      BY <1>4, <1>5, <3>1, RemainderSmall
  <2>2. CASE n # 1
    BY <1>1, <1>6, <2>2 DEF Behind
  <2>3. QED
    BY <2>1, <2>2
<1>8. (o \div s[n]) * s[n] = o - p[n]
  <2> DEFINE m == s[n]
  <2>1. m \in Nat /\ m > 0 /\ o % m = p[n] /\ p[n] \in 0 .. m - 1
    BY <1>4, <1>5, <1>7
  <2> HIDE DEF m
  <2>2. PICK q \in Int : o = m * q + (o % m)
    <3>1. \A x \in Int : \E q \in Int : x = m * q + (x % m)
      BY <2>1, DivisionIs
    <3>2. o \in Int
      BY <1>5
    <3>3. QED
      BY <3>1, <3>2, Zenon
  <2> DEFINE t == q * m
  <2>3. t = m * q /\ t \in Int
    BY <2>1, <2>2
  <2>4. o = t + p[n]
    BY <2>1, <2>2, <2>3
  <2>5. o \div m = q
    <3>1. \A x \in Int, k \in Int, r \in 0 .. m - 1 : x = k * m + r => x \div m = k
      BY <2>1, QuotientOf
    <3>2. o \in Int
      BY <1>5
    <3>3. QED
      BY <2>1, <2>2, <2>4, <3>1, <3>2, Zenon
  <2> HIDE DEF t
  <2>6. t = o - p[n]
    BY <1>5, <2>3, <2>4
  <2>7. QED
    BY <2>5, <2>6 DEF t, m
<1>9. QED
  BY <1>4, <1>5, <1>7, <1>8

\* h goes from R to S, one to one.
Across(h, R, S) ==
    /\ \A x \in R : h[x] \in S
    /\ \A x, y \in R : h[x] = h[y] => x = y
    /\ \A o \in S : \E x \in R : h[x] = o

\* A total may be taken over either of two sets mapped one to one.
LEMMA TotalAcross ==
    ASSUME NEW R, IsFiniteSet(R), NEW S, NEW h, Across(h, R, S),
           NEW d, DOMAIN d = S, \A o \in S : d[o] \in Elements,
           NEW f, DOMAIN f = R, \A x \in R : f[x] = d[h[x]]
    PROVE  TotalOf(f) = TotalOf(d)
<1>1. /\ \A x \in R : h[x] \in S
      /\ \A x, y \in R : h[x] = h[y] => x = y
      /\ \A o \in S : \E x \in R : h[x] = o
  BY DEF Across
<1>2. IsFiniteSet(S)
  <2> DEFINE e == [x \in R |-> h[x]]
  <2>1. e \in Surjection(R, S)
    BY <1>1 DEF Surjection
  <2> HIDE DEF e
  <2>2. QED
    BY <2>1, FS_Surjection
<1>3. \A o \in S : (\A x \in R : h[x] # o) => d[o] = 0
  BY <1>1
<1>4. QED
  BY <1>1, <1>2, <1>3, TotalElsewhere

\* The positions of the row of p, and the offsets the loop over it visits.
LEMMA RowLine ==
    ASSUME NEW s \in Seq(Nat), NEW n, n = Len(s), n >= 1, NEW p \in Positions(s),
           NEW t, t.shape = s, NEW L, L = LineAround(t, p, n),
           NEW R, R = RowOf(OffsetOf(p, s), s[n])
    PROVE  /\ IsFiniteSet(L) /\ L \subseteq Positions(s) /\ p \in L
           /\ IsFiniteSet(R) /\ R \subseteq Offsets(s) /\ OffsetOf(p, s) \in R
           /\ Across([q \in L |-> OffsetOf(q, s)], L, R)
           /\ \A q \in L : RowOf(OffsetOf(q, s), s[n]) = R
<1> DEFINE o == OffsetOf(p, s)
           m == s[n]
           b == (o \div m) * m
           h == [q \in L |-> OffsetOf(q, s)]
<1>1. n \in Nat /\ n \in 1 .. n /\ DOMAIN s = 1 .. n /\ \A i \in 1 .. n : s[i] \in Nat
  BY StridesAre
<1>2. o \in Nat /\ m \in Nat /\ m > 0 /\ p[n] \in Nat /\ b = o - p[n]
  BY RowStart
<1>3. p \in [1 .. n -> Nat] /\ \A i \in 1 .. n : p[i] < s[i]
  BY PositionsAre
<1>4. L = {q \in Positions(s) : \A i \in 1 .. n : i # n => q[i] = p[i]}
  BY <1>3 DEF LineAround
<1>5. ASSUME NEW c \in 0 .. m - 1
      PROVE  /\ InRow(p, n, c) \in L
             /\ OffsetOf(InRow(p, n, c), s) = b + c
  <2>1. /\ InRow(p, n, c) \in Positions(s)
        /\ OffsetOf(InRow(p, n, c), s) = o + (c - p[n])
    BY RowOffset
  <2>2. \A i \in 1 .. n : i # n => InRow(p, n, c)[i] = p[i]
    BY <1>3 DEF InRow
  <2>3. c \in Int /\ b \in Int
    BY <1>2
  <2> HIDE DEF o, b, m
  <2>4. o + (c - p[n]) = b + c
    BY <1>2, <2>3
  <2>5. QED
    BY <1>4, <2>1, <2>2, <2>4 DEF o
<1>6. ASSUME NEW q \in L
      PROVE  q[n] \in 0 .. m - 1 /\ q = InRow(p, n, q[n])
  <2>1. q \in [1 .. n -> Nat] /\ q[n] < s[n] /\ \A i \in 1 .. n : i # n => q[i] = p[i]
    BY <1>1, <1>4, PositionsAre
  <2>2. q[n] \in 0 .. m - 1
    BY <1>1, <1>2, <2>1
  <2>3. q = InRow(p, n, q[n])
    BY <1>1, <1>3, <2>1 DEF InRow
  <2>4. QED
    BY <2>2, <2>3
<1>7. \A q \in L : h[q] = b + q[n] /\ q[n] \in 0 .. m - 1
  BY <1>5, <1>6
<1>8. R = {b + c : c \in 0 .. m - 1}
  BY DEF RowOf
<1>9. \A q \in L : h[q] \in R
  BY <1>7, <1>8
<1>10. \A j \in R : \E q \in L : h[q] = j
  <2> SUFFICES ASSUME NEW c \in 0 .. m - 1 PROVE \E q \in L : h[q] = b + c
    BY <1>8
  <2>1. QED
    BY <1>5
<1>11. \A q, r \in L : h[q] = h[r] => q = r
  <2> SUFFICES ASSUME NEW q \in L, NEW r \in L, OffsetOf(q, s) = OffsetOf(r, s) PROVE q = r
    OBVIOUS
  <2>1. q \in Positions(s) /\ r \in Positions(s)
    BY <1>4
  <2>2. QED
    BY <2>1, OffsetIs
<1>12. Across(h, L, R)
  BY <1>9, <1>10, <1>11 DEF Across
<1>13. L \subseteq Positions(s) /\ p \in L
  BY <1>4
<1>14. R \subseteq Offsets(s)
  <2>1. ASSUME NEW j \in R PROVE j \in Offsets(s)
    <3>1. PICK q \in L : h[q] = j
      BY <1>10
    <3>2. QED
      BY <1>13, <3>1, OffsetIs
  <2>2. QED
    BY <2>1
<1>15. IsFiniteSet(R) /\ IsFiniteSet(L)
  <2>1. IsFiniteSet(Offsets(s))
    BY OffsetsFinite
  <2>2. IsFiniteSet(R)
    BY <1>14, <2>1, FS_Subset
  <2> DEFINE d == [j \in R |-> CHOOSE q \in L : h[q] = j]
  <2>3. \A j \in R : d[j] \in L /\ h[d[j]] = j
    BY <1>10
  <2>4. \A q \in L : h[q] \in R /\ d[h[q]] = q
    BY <1>9, <1>11, <2>3
  <2>5. d \in Surjection(R, L)
    <3>1. d \in [R -> L]
      BY <2>3
    <3> HIDE DEF d, h
    <3>2. \A q \in L : \E j \in R : d[j] = q
      BY <2>4
    <3>3. QED
      BY <3>1, <3>2 DEF Surjection
  <2> HIDE DEF d
  <2>6. QED
    BY <2>2, <2>5, FS_Surjection
<1>16. o \in R
  BY <1>9, <1>13
<1>17. ASSUME NEW q \in L PROVE RowOf(OffsetOf(q, s), m) = R
  <2>1. OffsetOf(q, s) = b + q[n] /\ q[n] \in 0 .. m - 1 /\ o \div m \in Int
    BY <1>2, <1>7
  <2>0. m \in Nat /\ m > 0
    BY <1>2
  <2> DEFINE d == o \div m
  <2>2. OffsetOf(q, s) \in Int
    BY <1>2, <2>1
  <2>3. OffsetOf(q, s) = d * m + q[n] /\ d \in Int
    BY <2>1
  <2> HIDE DEF d, m
  <2>4. OffsetOf(q, s) \div m = d
    <3>1. \A x \in Int, k \in Int, r \in 0 .. m - 1 : x = k * m + r => x \div m = k
      BY <2>0, QuotientOf
    <3>2. q[n] \in 0 .. m - 1
      BY <2>1 DEF m
    <3>3. QED
      BY <2>2, <2>3, <3>1, <3>2, Zenon
  <2>5. QED
    BY <2>4 DEF RowOf, d, m
<1>18. QED
  BY <1>12, <1>13, <1>14, <1>15, <1>16, <1>17

-----------------------------------------------------------------------------
(* A row divided by its total. *)

\* The remainder of a sum of remainders is that of the sum.
LEMMA SumRemainders ==
    ASSUME NEW S, IsFiniteSet(S), NEW f, NEW g,
           \A x \in S : f[x] \in Int /\ g[x] = f[x] % P
    PROVE  SumFunctionOnSet(g, S) % P = SumFunctionOnSet(f, S) % P
<1>1. P \in Nat /\ P > 0
  BY ElementsAre
<1> DEFINE q == [x \in S |-> CHOOSE k \in Int : f[x] = P * k + (f[x] % P)]
           m == [x \in S |-> P * q[x]]
           F == SumFunctionOnSet(f, S)
           G == SumFunctionOnSet(g, S)
           Q == SumFunctionOnSet(q, S)
           M == SumFunctionOnSet(m, S)
<1>2. \A x \in S : q[x] \in Int /\ f[x] = P * q[x] + (f[x] % P)
  <2>1. \A i \in Int : \E k \in Int : i = P * k + (i % P)
    BY <1>1, DivisionIs
  <2>2. \A x \in S : \E k \in Int : f[x] = P * k + (f[x] % P)
    BY <2>1, Zenon
  <2>3. QED
    BY <2>2, Zenon
<1> HIDE DEF q
<1>3. \A x \in S : m[x] = P * q[x] /\ m[x] \in Int
  BY <1>1, <1>2
<1> HIDE DEF m
<1>4. \A x \in S : g[x] \in Int /\ f[x] = m[x] + g[x]
  <2>1. \A i \in Int : i % P \in Int
    BY <1>1
  <2>2. QED
    BY <1>2, <1>3, <2>1, Zenon
<1>5. F = M + G
  BY <1>3, <1>4, SumPlus
<1>6. M = P * Q
  <2>1. P \in Int
    BY <1>1
  <2>2. QED
    BY <1>2, <1>3, <2>1, SumTimes
<1>7. Q \in Int /\ G \in Int
  BY <1>2, <1>4, SumRemove
<1> HIDE DEF F, G, Q, M
<1>8. PICK r \in Int : G = P * r + (G % P)
  BY <1>1, <1>7, DivisionIs
<1>9. F = P * (Q + r) + (G % P)
  <2>1. P * (Q + r) = P * Q + P * r /\ P * Q \in Int /\ P * r \in Int
    BY <1>1, <1>7, <1>8
  <2> DEFINE a == P * Q
             b == P * r
  <2>2. a \in Int /\ b \in Int /\ G % P \in Int
    BY <1>1, <1>7, <2>1
  <2>3. F = a + (b + (G % P))
    BY <1>5, <1>6, <1>8
  <2>4. P * (Q + r) = a + b
    BY <2>1
  <2> HIDE DEF a, b
  <2>5. QED
    BY <2>2, <2>3, <2>4
<1>10. F \in Int /\ Q + r \in Int /\ G % P \in 0 .. P - 1
  <2>1. \A x \in S : f[x] \in Int
    OBVIOUS
  <2>2. F \in Int
    BY <2>1, SumRemove DEF F
  <2>3. QED
    BY <1>1, <1>7, <1>8, <2>2, DivisionIs
<1>11. F % P = G % P
  BY <1>1, <1>9, <1>10, RemainderIs
<1>12. QED
  BY <1>11 DEF F, G

\* A common factor goes out of a total.
LEMMA TotalScaled ==
    ASSUME NEW S, IsFiniteSet(S), NEW k \in Elements, NEW f, NEW g,
           DOMAIN f = S, DOMAIN g = S,
           \A x \in S : f[x] \in Elements /\ g[x] = Times(k, f[x])
    PROVE  TotalOf(g) = Times(k, TotalOf(f))
<1>1. P \in Nat /\ P > 0 /\ k \in Int
  BY ElementsAre
<1>2. \A x \in S : f[x] \in Int /\ g[x] \in Elements /\ g[x] = (k * f[x]) % P
  BY ElementsAre, OperationsAre
<1> DEFINE h == [x \in S |-> k * f[x]]
           F == SumFunctionOnSet(f, S)
           G == SumFunctionOnSet(g, S)
           H == SumFunctionOnSet(h, S)
<1>3. \A x \in S : f[x] \in Int /\ h[x] = k * f[x] /\ h[x] \in Int
  BY <1>1, <1>2
<1>4. \A x \in S : g[x] = h[x] % P
  BY <1>2
<1>5. /\ TotalOf(f) = F % P /\ TotalOf(f) \in Elements /\ F \in Int
      /\ TotalOf(g) = G % P
  BY <1>2, TotalNumbers
<1> HIDE DEF h
<1>6. H = k * F
  BY <1>1, <1>3, SumTimes
<1>7. G % P = H % P
  BY <1>3, <1>4, SumRemainders
<1>8. Times(k, TotalOf(f)) = (k * F) % P
  <2>1. Times(k, TotalOf(f)) = (k * TotalOf(f)) % P
    BY <1>5, OperationsAre
  <2>2. (k * (F % P)) % P = (k * F) % P
    BY <1>1, <1>5, RemainderProduct
  <2>3. QED
    BY <1>5, <2>1, <2>2
<1>9. QED
  BY <1>5, <1>6, <1>7, <1>8

\* A common factor goes out of a quotient.
LEMMA QuotientScaled ==
    ASSUME NEW k \in Elements, k # 0, NEW a \in Elements, NEW b \in Elements
    PROVE  Over(Times(k, a), Times(k, b)) = Over(a, b)
<1>1. Times(k, a) \in Elements /\ Times(k, b) \in Elements
  BY OperationsAre
<1>2. CASE b = 0
  <2>1. Times(k, b) = 0
    BY <1>2, TimesOne
  <2>2. QED
    BY <1>2, <2>1, NaNSpreads
<1>3. CASE b # 0
  <2>1. Times(k, b) # 0
    BY <1>3, NoZeroProducts
  <2>2. Over(a, b) \in Elements /\ Times(b, Over(a, b)) = a
    BY <1>3, OverIs
  <2>3. Times(Times(k, b), Over(a, b)) = Times(k, a)
    BY <2>2, TimesAssociates
  <2>4. QED
    BY <1>1, <2>1, <2>2, <2>3, OverIs
<1>4. QED
  BY <1>2, <1>3

\* The largest number of a row.
Peak(v, R) == CHOOSE m \in {v[j] : j \in R} : \A j \in R : v[j] <= m

\* The largest number of a row is a number.
LEMMA RowMaximum ==
    ASSUME NEW R, R # {}, NEW v, \A j \in R : v[j] \in Elements
    PROVE  Peak(v, R) \in Elements
<1> DEFINE T == {P - v[j] : j \in R}
<1>1. T \subseteq Nat /\ T # {}
  BY ElementsAre
<1> HIDE DEF T
<1>2. PICK x \in T : \A y \in T : x <= y
  BY <1>1, LeastNat
<1>3. PICK j \in R : x = P - v[j]
  BY <1>2 DEF T
<1>4. \A i \in R : v[i] <= v[j]
  <2> SUFFICES ASSUME NEW i \in R PROVE v[i] <= v[j]
    OBVIOUS
  <2>1. P - v[i] \in T
    BY DEF T
  <2>2. P - v[j] <= P - v[i]
    BY <1>2, <1>3, <2>1
  <2>3. v[i] \in Int /\ v[j] \in Int /\ P \in Int
    BY ElementsAre
  <2>4. QED
    BY <2>2, <2>3
<1>5. v[j] \in {v[i] : i \in R}
  OBVIOUS
<1>6. (CHOOSE m \in {v[i] : i \in R} : \A i \in R : v[i] <= m) \in {v[i] : i \in R}
  BY <1>4, <1>5
<1>7. QED
  BY <1>6 DEF Peak

\* What the loops of softmax keep of an element: its exp, shifted by the
\* largest number of its row.
Weight(v, C, i) == Exp(v[i] - Peak(v, RowOf(i, C)))
Weights(v, C, R) == [j \in R |-> Weight(v, C, j)]

\* What the loops of softmax compute for one element.
LEMMA SoftmaxIs ==
    ASSUME NEW a, NEW C, C = a.shape[Len(a.shape)], NEW o \in Offsets(a.shape)
    PROVE  /\ SoftmaxForward(a).shape = a.shape
           /\ SoftmaxForward(a).data[o]
                = Over(Weight(a.data, C, o), TotalOf(Weights(a.data, C, RowOf(o, C))))
<1>1. \A i : Weight(a.data, C, i)
               = Exp(a.data[i] - (CHOOSE m \in {a.data[j] : j \in RowOf(i, C)} :
                                     \A j \in RowOf(i, C) : a.data[j] <= m))
  BY DEF Weight, Peak
<1>2. SoftmaxForward(a)
        = [shape |-> a.shape,
           data  |-> [i \in Offsets(a.shape) |->
                        Over(Weight(a.data, C, i),
                             Total(RowOf(i, C), LAMBDA j : Weight(a.data, C, j)))]]
  BY DEF SoftmaxForward, Tensor, Weight, Peak
<1>3. Total(RowOf(o, C), LAMBDA j : Weight(a.data, C, j)) = TotalOf(Weights(a.data, C, RowOf(o, C)))
  BY DEF Total, TotalOf, Weights
<1>4. QED
  BY <1>2, <1>3

\* Shifting a row does not change what its elements are of its total.
LEMMA ShiftedRow ==
    ASSUME NEW v, NEW C, NEW R, IsFiniteSet(R), NEW o \in R,
           \A j \in R : v[j] \in Elements /\ RowOf(j, C) = R,
           NEW e, DOMAIN e = R, \A j \in R : e[j] = Exp(v[j])
    PROVE  /\ \A j \in R : e[j] \in Elements
           /\ Over(Weight(v, C, o), TotalOf(Weights(v, C, R))) = Over(e[o], TotalOf(e))
           /\ \A j \in R : Weight(v, C, j) \in Elements
<1> DEFINE m == Peak(v, R)
           k == Exp(m)
           w == Weights(v, C, R)
<1>1. m \in Elements /\ m \in Int
  <2>1. m \in Elements
    BY RowMaximum
  <2> HIDE DEF m
  <2>2. QED
    BY <2>1, ElementsAre
<1>2. \A j \in R : v[j] \in Int /\ v[j] - m \in Int /\ m + (v[j] - m) = v[j]
  BY <1>1, ElementsAre
<1>3. DOMAIN w = R /\ \A j \in R : w[j] = Weight(v, C, j) /\ w[j] = Exp(v[j] - m)
  BY DEF Weights, Weight
<1> HIDE DEF w
<1> HIDE DEF m
<1>4. \A j \in R : e[j] \in Elements /\ w[j] \in Elements
  BY <1>2, <1>3, ExpIs
<1>5. k \in Elements /\ k # 0
  BY <1>1, ExpIs
<1>6. \A j \in R : e[j] = Times(k, w[j])
  <2> SUFFICES ASSUME NEW j \in R PROVE e[j] = Times(k, w[j])
    OBVIOUS
  <2>1. Exp(m + (v[j] - m)) = Times(Exp(m), Exp(v[j] - m))
    BY <1>1, <1>2, ExpAdds
  <2>2. QED
    BY <1>2, <1>3, <2>1
<1> HIDE DEF k
<1>7. TotalOf(e) = Times(k, TotalOf(w))
  BY <1>3, <1>4, <1>5, <1>6, TotalScaled
<1>8. TotalOf(w) \in Elements
  BY <1>3, <1>4, TotalNumbers
<1>9. Over(Times(k, w[o]), Times(k, TotalOf(w))) = Over(w[o], TotalOf(w))
  BY <1>4, <1>5, <1>8, QuotientScaled
<1>10. Over(w[o], TotalOf(w)) = Over(e[o], TotalOf(e))
  BY <1>6, <1>7, <1>9
<1>11. QED
  BY <1>3, <1>4, <1>10 DEF w

\* Every element of a softmax is its exp over the total of its line.
LEMMA SoftmaxAtIs ==
    ASSUME NEW a, a.shape \in Seq(Nat), NEW n, n = Len(a.shape), n >= 1,
           \A o \in Offsets(a.shape) : a.data[o] \in Elements,
           NEW p \in Positions(a.shape)
    PROVE  SoftmaxForward(a).data[OffsetOf(p, a.shape)] = SoftmaxAt(a, p, n)
<1> DEFINE s == a.shape
           C == s[n]
           o == OffsetOf(p, s)
           L == LineAround(a, p, n)
           R == RowOf(o, C)
           h == [q \in L |-> OffsetOf(q, s)]
           e == [j \in R |-> Exp(a.data[j])]
           f == [q \in L |-> Exp(At(a, q))]
<1>1. /\ IsFiniteSet(L) /\ L \subseteq Positions(s) /\ p \in L
      /\ IsFiniteSet(R) /\ R \subseteq Offsets(s) /\ o \in R
      /\ Across(h, L, R)
      /\ \A q \in L : RowOf(OffsetOf(q, s), C) = R
  BY RowLine
<1>2. \A j \in R : RowOf(j, C) = R
  <2>1. \A q \in L : RowOf(h[q], C) = R
    BY <1>1
  <2>2. \A j \in R : \E q \in L : h[q] = j
    BY <1>1 DEF Across
  <2>3. QED
    BY <2>1, <2>2
<1>3. \A j \in R : a.data[j] \in Elements
  BY <1>1
<1>4. DOMAIN e = R /\ \A j \in R : e[j] = Exp(a.data[j])
  OBVIOUS
<1>5. \A q \in L : At(a, q) = a.data[OffsetOf(q, s)]
  BY <1>1, ReadsInPlace DEF At
<1>6. DOMAIN f = L /\ \A q \in L : f[q] = e[h[q]]
  <2>1. \A q \in L : h[q] \in R /\ h[q] = OffsetOf(q, s)
    BY <1>1 DEF Across
  <2> HIDE DEF h, R, L
  <2>2. QED
    BY <1>5, <2>1
<1>7. SoftmaxForward(a).data[o] = Over(Weight(a.data, C, o), TotalOf(Weights(a.data, C, R)))
  BY <1>1, SoftmaxIs
<1> HIDE DEF e, R
<1>8. /\ \A j \in R : e[j] \in Elements
      /\ Over(Weight(a.data, C, o), TotalOf(Weights(a.data, C, R))) = Over(e[o], TotalOf(e))
  BY <1>1, <1>2, <1>3, <1>4, ShiftedRow
<1>9. TotalOf(f) = TotalOf(e)
  <2> HIDE DEF f, h, L
  <2>1. QED
    BY <1>1, <1>4, <1>6, <1>8, TotalAcross
<1>10. SoftmaxAt(a, p, n) = Over(Exp(At(a, p)), TotalOf(f))
  BY DEF SoftmaxAt, Total, TotalOf
<1>11. e[o] = Exp(At(a, p))
  BY <1>1, <1>4, <1>5
<1>12. QED
  BY <1>7, <1>8, <1>9, <1>10, <1>11

\* A softmax throws for a number and for nothing else.
LEMMA SoftmaxRight ==
    ASSUME NEW c, c.op = "softmax", NEW in, in[1].shape \in Seq(Nat),
           c.shapes[1] = in[1].shape,
           \A o \in Offsets(in[1].shape) : in[1].data[o] \in Elements
    PROVE  /\ ~Accepts(c, c.shapes) => RightShapes(c) = {}
           /\ Accepts(c, c.shapes) =>
                 /\ Computed(c, in).shape \in RightShapes(c)
                 /\ \A p \in Positions(Computed(c, in).shape) :
                       Computed(c, in).data[OffsetOf(p, Computed(c, in).shape)]
                         = RightElement(c, in, p)
<1> DEFINE a == in[1]
           n == Len(a.shape)
<1>1. Accepts(c, c.shapes) = (n >= 1)
  BY DEF Accepts, Elementwise
<1>2. RightShapes(c) = {a.shape} \ {<<>>}
  BY DEF RightShapes, Elementwise, Losses, Unary
<1>3. Computed(c, in) = SoftmaxForward(a)
  BY DEF Computed, Elementwise, Unary
<1>4. \A p : RightElement(c, in, p) = SoftmaxAt(a, p, Len(p))
  BY DEF RightElement, Elementwise, Unary, Losses
<1>5. SoftmaxForward(a).shape = a.shape
  BY DEF SoftmaxForward, Tensor
<1>6. n \in Nat /\ (n >= 1 <=> a.shape # <<>>)
  BY LenProperties
<1>7. ASSUME n >= 1, NEW p \in Positions(a.shape)
      PROVE  /\ Len(p) = n
             /\ SoftmaxForward(a).data[OffsetOf(p, a.shape)] = SoftmaxAt(a, p, n)
  <2>1. p \in [1 .. n -> Nat]
    BY PositionsAre
  <2>2. Len(p) = n
    BY <1>6, <2>1, ShapeOf
  <2>3. QED
    BY <1>7, <2>2, SoftmaxAtIs
<1>8. QED
  BY <1>1, <1>2, <1>3, <1>4, <1>5, <1>6, <1>7

\* In e, what the loop over row R adds up; in d, what each element of the row
\* owes element o of the input: y is the output, g its gradient.
RowTerms(e, d, R, y, g, o) ==
    /\ o \in R /\ DOMAIN e = R /\ DOMAIN d = R
    /\ \A j \in R :
          /\ y[j] \in Elements /\ g[j] \in Elements
          /\ e[j] = Times(g[j], y[j])
          /\ d[j] = Times(g[j], Times(y[j], Minus(IF j = o THEN 1 ELSE 0, y[o])))

\* What the loop over a row leaves for one of its elements is the sum of what
\* every element of the row owes it.
LEMMA RowGradient ==
    ASSUME NEW R, IsFiniteSet(R), NEW o, NEW y, NEW g, NEW e, NEW d, RowTerms(e, d, R, y, g, o)
    PROVE  /\ TotalOf(d) = Times(y[o], Minus(g[o], TotalOf(e)))
           /\ \A j \in R : d[j] \in Elements
<1>0. /\ o \in R /\ DOMAIN e = R /\ DOMAIN d = R
      /\ \A j \in R :
            /\ y[j] \in Elements /\ g[j] \in Elements
            /\ e[j] = Times(g[j], y[j])
            /\ d[j] = Times(g[j], Times(y[j], Minus(IF j = o THEN 1 ELSE 0, y[o])))
  BY DEF RowTerms
<1> DEFINE u == [j \in R |-> IF j = o THEN Times(g[o], y[o]) ELSE 0]
           v == [j \in R |-> Times(y[o], e[j])]
<1>1. y[o] \in Elements /\ g[o] \in Elements /\ 0 \in Elements /\ 1 \in Elements
  BY <1>0, ElementsAre
<1>2. \A j \in R : e[j] \in Elements
  BY <1>0, OperationsAre
<1>3. DOMAIN u = R /\ DOMAIN v = R /\ \A j \in R : /\ u[j] = IF j = o THEN Times(g[o], y[o]) ELSE 0
                                                   /\ v[j] = Times(y[o], e[j])
  OBVIOUS
<1> HIDE DEF u, v
<1>4. \A j \in R : u[j] \in Elements /\ v[j] \in Elements
  BY <1>1, <1>2, <1>3, OperationsAre
<1>5. ASSUME NEW j \in R PROVE d[j] = Minus(u[j], v[j])
  <2> DEFINE i == IF j = o THEN 1 ELSE 0
             x == Times(g[j], y[j])
  <2>1. i \in Elements /\ y[j] \in Elements /\ g[j] \in Elements /\ x \in Elements
    BY <1>0, <1>1, OperationsAre
  <2>2. Times(x, i) = u[j]
    <3>1. Times(x, 1) = x /\ Times(x, 0) = 0
      BY <2>1, TimesOne
    <3>2. QED
      BY <1>3, <3>1
  <2>3. d[j] = Times(g[j], Times(y[j], Minus(i, y[o])))
    BY <1>0
  <2> HIDE DEF i, x
  <2>4. Minus(i, y[o]) \in Elements
    BY <1>1, <2>1, OperationsAre
  <2>5. d[j] = Times(x, Minus(i, y[o]))
    BY <2>1, <2>3, <2>4, TimesAssociates DEF x
  <2>6. Times(x, Minus(i, y[o])) = Minus(Times(x, i), Times(x, y[o]))
    BY <1>1, <2>1, RingLaws
  <2>7. Times(x, y[o]) = v[j]
    <3>1. Times(x, y[o]) = Times(y[o], x)
      BY <1>1, <2>1, TimesCommutes
    <3>2. QED
      BY <1>0, <1>3, <3>1 DEF x
  <2>8. QED
    BY <2>2, <2>5, <2>6, <2>7
<1>6. TotalOf(d) = Minus(TotalOf(u), TotalOf(v))
  BY <1>0, <1>3, <1>4, <1>5, TotalMinus
<1>7. TotalOf(u) = Times(g[o], y[o])
  <2>1. u[o] = Times(g[o], y[o]) /\ \A j \in R \ {o} : u[j] = 0
    BY <1>0, <1>3
  <2>2. TotalOf(u) = u[o]
    BY <1>0, <1>3, <1>4, <2>1, TotalOfOne
  <2>3. QED
    BY <2>1, <2>2
<1>8. TotalOf(v) = Times(y[o], TotalOf(e)) /\ TotalOf(e) \in Elements
  BY <1>0, <1>1, <1>2, <1>3, TotalScaled, TotalNumbers
<1>9. Times(y[o], Minus(g[o], TotalOf(e))) = Minus(Times(g[o], y[o]), Times(y[o], TotalOf(e)))
  <2>1. Times(y[o], Minus(g[o], TotalOf(e))) = Minus(Times(y[o], g[o]), Times(y[o], TotalOf(e)))
    BY <1>1, <1>8, RingLaws
  <2>2. QED
    BY <1>1, <2>1, TimesCommutes
<1>10. \A j \in R : d[j] \in Elements
  BY <1>4, <1>5, OperationsAre
<1>11. QED
  BY <1>6, <1>7, <1>8, <1>9, <1>10

AllOrNone(v, R) == \/ \A j \in R : v[j] \in Elements
                   \/ \A j \in R : v[j] = NaN

\* The elements of a row of a softmax are all numbers or none is.
LEMMA RowIsNumbers ==
    ASSUME NEW a, a.shape \in Seq(Nat), NEW n, n = Len(a.shape), n >= 1,
           \A i \in Offsets(a.shape) : a.data[i] \in Elements,
           NEW p \in Positions(a.shape),
           NEW R, R = RowOf(OffsetOf(p, a.shape), a.shape[n]),
           NEW y, y = SoftmaxForward(a)
    PROVE  AllOrNone(y.data, R)
<1> DEFINE s == a.shape
           C == s[n]
           o == OffsetOf(p, s)
           L == LineAround(a, p, n)
           e == [j \in R |-> Exp(a.data[j])]
           T == TotalOf(Weights(a.data, C, R))
<1>1. /\ IsFiniteSet(R) /\ R \subseteq Offsets(s) /\ o \in R
      /\ Across([q \in L |-> OffsetOf(q, s)], L, R)
      /\ \A q \in L : RowOf(OffsetOf(q, s), C) = R
  BY RowLine
<1>2. \A j \in R : RowOf(j, C) = R
  <2> DEFINE h == [q \in L |-> OffsetOf(q, s)]
  <2>1. \A q \in L : RowOf(h[q], C) = R
    BY <1>1
  <2>2. \A j \in R : \E q \in L : h[q] = j
    BY <1>1 DEF Across
  <2>3. QED
    BY <2>1, <2>2
<1>3. \A j \in R : Weight(a.data, C, j) \in Elements
  <2>1. DOMAIN e = R /\ \A j \in R : e[j] = Exp(a.data[j])
    OBVIOUS
  <2>2. \A j \in R : a.data[j] \in Elements
    BY <1>1
  <2> HIDE DEF e
  <2>3. QED
    BY <1>1, <1>2, <2>1, <2>2, ShiftedRow
<1>4. T \in Elements
  <2> DEFINE w == Weights(a.data, C, R)
  <2>1. DOMAIN w = R /\ \A j \in R : w[j] \in Elements
    BY <1>3 DEF Weights
  <2> HIDE DEF w
  <2>2. TotalOf(w) \in Elements
    BY <1>1, <2>1, TotalNumbers
  <2>3. QED
    BY <2>2 DEF w
<1>5. \A j \in R : y.data[j] = Over(Weight(a.data, C, j), T)
  <2> SUFFICES ASSUME NEW j \in R PROVE y.data[j] = Over(Weight(a.data, C, j), T)
    OBVIOUS
  <2>1. j \in Offsets(s)
    BY <1>1
  <2>2. y.data[j] = Over(Weight(a.data, C, j), TotalOf(Weights(a.data, C, RowOf(j, C))))
    BY <2>1, SoftmaxIs
  <2>3. QED
    BY <1>2, <2>2
<1> HIDE DEF T
<1>6. QED
  BY <1>3, <1>4, <1>5, OverIs, NaNSpreads DEF AllOrNone

\* What the backward of softmax leaves is the derivative.
LEMMA SoftmaxGrads ==
    ASSUME CallInv, GradsInv, call.op = "softmax", pc = "done", NEW k \in Differentiable
    PROVE  IsDerivative(k)
<1> DEFINE a == Args(call)[1]
           g == Seed(call)
           y == Result(call)
           s == a.shape
           n == Len(s)
<1>1. /\ call \in Calls /\ Accepts(call, call.shapes)
      /\ Len(call.shapes) \in Nat /\ DOMAIN call.shapes = 1 .. Len(call.shapes)
      /\ inputs = Args(call) /\ output = y /\ og = g
      /\ \A j \in DOMAIN call.shapes :
            /\ grads[j] = Propagated(call, Args(call), y, g)[j]
            /\ call.shapes[j] \in Seq(Nat)
            /\ Args(call)[j].shape = call.shapes[j]
            /\ NoZeros(Args(call)[j], call.shapes[j])
  BY DirectDone DEF Direct
<1>2. Len(call.shapes) = 1
  BY <1>1, CallsAssumption
<1>3. k = 1 /\ 1 \in DOMAIN call.shapes
  BY <1>1, <1>2 DEF Differentiable, Inputs
<1>4. /\ s \in Seq(Nat) /\ inputs[k] = a /\ s = call.shapes[1]
      /\ \A i \in Offsets(s) : a.data[i] \in Elements
  BY <1>1, <1>3 DEF NoZeros
<1>5. n \in Nat /\ n >= 1
  BY <1>1, <1>4, LenProperties DEF Accepts, Elementwise
<1>6. y = SoftmaxForward(a)
  BY DEF Result, Computed, Elementwise, Unary
<1>7. y.shape = s
  BY <1>6 DEF SoftmaxForward, Tensor
<1>8. grads[k] = SoftmaxBackward(y, g)[1]
  <2>1. Propagated(call, Args(call), y, g) = SoftmaxBackward(y, g)
    BY DEF Propagated, Elementwise, Unary, Constants
  <2>2. QED
    BY <1>1, <1>3, <2>1
<1>9. g.shape = s /\ \A i \in Offsets(s) : g.data[i] \in Elements
  BY <1>4, <1>7, FilledIs DEF Seed, NoZeros
<1> HIDE DEF a, g, y
<1> DEFINE Row(i) == [j \in RowOf(i, s[n]) |-> Times(g.data[j], y.data[j])]
<1>10. /\ grads[k].shape = s
       /\ \A i \in Offsets(s) :
             grads[k].data[i] = Times(y.data[i], Minus(g.data[i], TotalOf(Row(i))))
  <2>1. SoftmaxBackward(y, g)[1]
          = [shape |-> s,
             data  |-> [i \in Offsets(s) |->
                          Times(y.data[i],
                                Minus(g.data[i],
                                      Total(RowOf(i, s[n]), LAMBDA j : Times(g.data[j], y.data[j]))))]]
    BY <1>7 DEF SoftmaxBackward, Tensor
  <2>2. grads[k].shape = s
    BY <1>8, <2>1
  <2>3. ASSUME NEW i \in Offsets(s)
        PROVE  grads[k].data[i] = Times(y.data[i], Minus(g.data[i], TotalOf(Row(i))))
    <3>1. Total(RowOf(i, s[n]), LAMBDA j : Times(g.data[j], y.data[j])) = TotalOf(Row(i))
      BY DEF Total, TotalOf
    <3>2. QED
      BY <1>8, <2>1, <3>1
  <2>4. QED
    BY <2>2, <2>3
<1>11. ASSUME NEW p \in Positions(s) PROVE At(grads[k], p) = SoftmaxGrad(p)
  <2> DEFINE o == OffsetOf(p, s)
             R == RowOf(o, s[n])
             L == LineAround(y, p, n)
             h == [q \in L |-> OffsetOf(q, s)]
             f == [q \in L |-> Times(At(g, q), Times(At(y, q), Minus(IF p = q THEN 1 ELSE 0, At(y, p))))]
             e == [j \in R |-> Times(g.data[j], y.data[j])]
             d == [j \in R |-> Times(g.data[j], Times(y.data[j],
                                     Minus(IF j = o THEN 1 ELSE 0, y.data[o])))]
  <2>1. /\ IsFiniteSet(L) /\ L \subseteq Positions(s) /\ p \in L
        /\ IsFiniteSet(R) /\ R \subseteq Offsets(s) /\ o \in R
        /\ Across(h, L, R)
    BY <1>4, <1>5, <1>7, RowLine
  <2>2. \A t, q : t.shape = s /\ q \in L => At(t, q) = t.data[h[q]]
    BY <1>4, <2>1, ReadsInPlace DEF At
  <2>3. h[p] = o
    BY <2>1
  <2>4. At(grads[k], p) = Times(y.data[o], Minus(g.data[o], TotalOf(e)))
    <3>1. At(grads[k], p) = grads[k].data[o]
      BY <1>10, <2>1, <2>2, <2>3
    <3>2. e = Row(o)
      OBVIOUS
    <3>3. QED
      BY <1>10, <2>1, <3>1, <3>2
  <2>5. SoftmaxGrad(p) = TotalOf(f)
    <3>1. RowAround(output, p) = L
      BY <1>1, <1>7 DEF RowAround
    <3>2. QED
      BY <1>1, <3>1 DEF SoftmaxGrad, Total, TotalOf
  <2>6. \A q \in L : f[q] = Times(g.data[h[q]], Times(y.data[h[q]], Minus(IF p = q THEN 1 ELSE 0, y.data[o])))
    BY <1>7, <1>9, <2>1, <2>2, <2>3
  <2>7. \A q \in L : h[q] \in R /\ (p = q <=> h[q] = o)
    BY <2>1, <2>3 DEF Across
  <2>8. DOMAIN f = L /\ DOMAIN d = R /\ \A q \in L : f[q] = d[h[q]]
    <3>1. \A j \in R : d[j] = Times(g.data[j], Times(y.data[j], Minus(IF j = o THEN 1 ELSE 0, y.data[o])))
      OBVIOUS
    <3>2. DOMAIN f = L /\ DOMAIN d = R
      OBVIOUS
    <3> HIDE DEF f, d, h, R, L, o
    <3>3. \A q \in L : f[q] = d[h[q]]
      BY <2>6, <2>7, <3>1
    <3>4. QED
      BY <3>2, <3>3
  <2>9. CASE \A j \in R : y.data[j] \in Elements
    <3>1. \A j \in R : y.data[j] \in Elements /\ g.data[j] \in Elements
      BY <1>9, <2>1, <2>9
    <3>2. o \in R
      BY <2>1
    <3>3. RowTerms(e, d, R, y.data, g.data, o)
      <4> HIDE DEF R, o
      <4>1. QED
        BY <3>1, <3>2 DEF RowTerms
    <3> HIDE DEF e, d, f, h, R, L, o
    <3>4. TotalOf(d) = Times(y.data[o], Minus(g.data[o], TotalOf(e))) /\ \A j \in R : d[j] \in Elements
      BY <2>1, <3>3, RowGradient
    <3>5. TotalOf(f) = TotalOf(d)
      BY <2>1, <2>8, <3>4, TotalAcross
    <3>6. QED
      BY <2>4, <2>5, <3>4, <3>5
  <2>10. CASE \A j \in R : y.data[j] = NaN
    <3>1. y.data[o] = NaN
      BY <2>1, <2>10
    <3>2. At(grads[k], p) = NaN
      BY <2>4, <3>1, NaNSpreads
    <3>3. f[p] = NaN
      BY <2>1, <2>3, <2>6, <3>1, NaNSpreads
    <3> HIDE DEF f
    <3>4. TotalOf(f) = NaN
      BY <2>1, <2>8, <3>3 DEF TotalOf, Range
    <3>5. QED
      BY <2>5, <3>2, <3>4
  <2>11. QED
    <3> HIDE DEF e, d, f, h, L
    <3>1. AllOrNone(y.data, R)
      BY <1>4, <1>5, <1>6, RowIsNumbers
    <3> HIDE DEF R
    <3>2. QED
      BY <2>9, <2>10, <3>1 DEF AllOrNone
<1>12. IsDerivative(k) = \A p \in Positions(inputs[k].shape) : At(grads[k], p) = SoftmaxGrad(p)
  BY DEF IsDerivative, Elementwise, Unary
<1>13. QED
  BY <1>4, <1>11, <1>12

\* Every call of an elementwise op, a unary op, a softmax, a product of
\* matrices, a sum or a mean returns the array that the op is named after, for
\* every choice of shapes, and throws exactly when there is no such array.
THEOREM ForwardsAreRight ==
    Spec => [](call.op \in Direct => ForwardIsRight)
<1>1. Init => CallInv
  BY CallInvInit
<1>2. CallInv /\ [Next]_vars => CallInv'
  BY CallInvStep
<1>3. CallInv => (call.op \in Direct => ForwardIsRight)
  <2> SUFFICES ASSUME CallInv, call.op \in Direct PROVE ForwardIsRight
    OBVIOUS
  <2> DEFINE g == Args(call)
             y == Computed(call, g)
             n == Len(call.shapes)
  <2>1. call \in Calls
    BY DEF CallInv
  <2>2. /\ n \in Nat /\ DOMAIN call.shapes = 1 .. n /\ Len(g) = n
        /\ g \in Seq({g[k] : k \in 1 .. n})
        /\ \A k \in DOMAIN call.shapes : call.shapes[k] \in Seq(Nat) /\ g[k].shape = call.shapes[k]
    BY <2>1, ArgsAre
  <2>3. /\ ~Accepts(call, call.shapes) => RightShapes(call) = {}
        /\ Accepts(call, call.shapes) =>
              /\ y.shape \in RightShapes(call)
              /\ \A p \in Positions(y.shape) :
                    y.data[OffsetOf(p, y.shape)] = RightElement(call, g, p)
    <3> HIDE DEF g, n
    <3>1. CASE call.op \in Elementwise \cup {"matmul"}
      <4>1. n = 2
        BY <2>1, <3>1, CallsAssumption DEF n
      <4>2. 1 \in DOMAIN call.shapes /\ 2 \in DOMAIN call.shapes
        BY <2>2, <4>1
      <4>3. /\ g[1].shape \in Seq(Nat) /\ call.shapes[1] = g[1].shape
            /\ g[2].shape \in Seq(Nat) /\ call.shapes[2] = g[2].shape
        BY <2>2, <4>2
      <4>4. CASE call.op \in Elementwise
        BY <4>3, <4>4, ElementwiseRight
      <4>5. CASE call.op = "matmul"
        BY <4>3, <4>5, MatmulRight
      <4>6. QED
        BY <3>1, <4>4, <4>5
    <3>2. CASE call.op \in Unary \cup {"sum", "mean"}
      <4>1. n = 1
        BY <2>1, <3>2, CallsAssumption DEF n
      <4>2. 1 \in DOMAIN call.shapes
        BY <2>2, <4>1
      <4>3. g[1].shape \in Seq(Nat) /\ call.shapes[1] = g[1].shape
        BY <2>2, <4>2
      <4>4. QED
        BY <3>2, <4>3, OneTensorRight
    <3>3. CASE call.op = "softmax"
      <4>1. n = 1
        BY <2>1, <3>3, CallsAssumption DEF n
      <4>2. 1 \in DOMAIN call.shapes
        BY <2>2, <4>1
      <4>3. g[1].shape \in Seq(Nat) /\ call.shapes[1] = g[1].shape
        BY <2>2, <4>2
      <4>4. \A o \in Offsets(g[1].shape) : g[1].data[o] \in Elements
        <5>1. g[1] = Filled(call.shapes[1], 1)
          BY <4>2 DEF g, Args
        <5>2. QED
          BY <4>3, <5>1, FilledIs DEF NoZeros
      <4>5. QED
        BY <3>3, <4>3, <4>4, SoftmaxRight
    <3>4. QED
      BY <3>1, <3>2, <3>3 DEF Direct
  <2>4. CASE pc = "thrown"
    BY <2>3, <2>4 DEF CallInv, ForwardIsRight
  <2>5. CASE pc = "recorded"
    <3>1. values = Append(g, y) /\ Accepts(call, call.shapes)
      BY <2>5 DEF CallInv
    <3>2. Len(values) = n + 1 /\ values[n + 1] = y /\ \A k \in 1 .. n : values[k] = g[k]
      BY <2>2, <3>1, AppendedIs
    <3>3. output = y
      BY <3>2 DEF output
    <3>4. inputs = g
      BY <2>2, <3>1, AppendedIs DEF inputs
    <3>5. QED
      BY <2>3, <2>5, <3>1, <3>3, <3>4 DEF ForwardIsRight
  <2>6. QED
    BY <2>4, <2>5 DEF ForwardIsRight
<1>4. QED
  BY <1>1, <1>2, <1>3, PTL DEF Spec

\* What the backward of an elementwise op, of a unary op, of a softmax, of a
\* sum, of a mean or of a product of matrices leaves in the gradients of its
\* inputs is the derivative, for inputs of any shapes that the op accepts.
THEOREM GradientsAreRight ==
    Spec => [](call.op \in Direct => GradientsAreDerivatives)
<1>1. Init => CallInv /\ GradsInv
  BY CallInvInit, GradsInvInit
<1>2. CallInv /\ GradsInv /\ [Next]_vars => CallInv' /\ GradsInv'
  BY CallInvStep, GradsInvStep
<1>3. CallInv /\ GradsInv => (call.op \in Direct => GradientsAreDerivatives)
  <2> SUFFICES ASSUME CallInv, GradsInv, call.op \in Direct, pc = "done",
                      NEW k \in Differentiable, ~RepeatedDivisor(k)
               PROVE  IsDerivative(k)
    BY DEF GradientsAreDerivatives
  <2>1. CASE call.op \in Elementwise
    BY <2>1, ElementwiseGrads
  <2>2. CASE call.op \in Unary
    BY <2>2, UnaryGrads
  <2>3. CASE call.op \in {"sum", "mean"}
    BY <2>3, SumGrads
  <2>4. CASE call.op = "matmul"
    BY <2>4, MatmulGrads
  <2>5. CASE call.op = "softmax"
    BY <2>5, SoftmaxGrads
  <2>6. QED
    BY <2>1, <2>2, <2>3, <2>4, <2>5 DEF Direct
<1>4. QED
  BY <1>1, <1>2, <1>3, PTL DEF Spec
=============================================================================

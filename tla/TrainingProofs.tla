--------------------------- MODULE TrainingProofs ---------------------------
(***************************************************************************)
(* Theorems about Training for every set of parameters, every optimizer    *)
(* and list, every number of steps and whatever happens between them.      *)
(***************************************************************************)
EXTENDS Training, FloatArithmetic, DataLemmas

(***************************************************************************)
(* The laws of FloatArithmetic, with its NaN, and of its sums, for every   *)
(* prime: those of a ring that NaN does not break.                        *)
(***************************************************************************)

LEMMA ElementFacts ==
    /\ P \in Nat /\ P > 0 /\ P - 2 \in Nat
    /\ 0 \in Elements /\ 1 \in Elements /\ NaN \notin Elements /\ NaN \in Floats
    /\ \A x \in Elements : x \in Int /\ x % P = x
    /\ \A x \in Int : x % P \in Elements
<1>1. P \in Nat /\ P > 2
  BY PrimeAssumption
<1>2. \A x \in 0 .. P - 1 : x % P = x
  BY <1>1, RemainderSmall
<1>3. \A x \in Int : x % P \in 0 .. P - 1
  BY <1>1, DivisionIs
<1>4. QED
  BY <1>1, <1>2, <1>3 DEF Elements, NaN, Floats

LEMMA FloatCases == \A x \in Floats : x = NaN \/ (x \in Elements /\ x # NaN)
BY ElementFacts DEF Floats

LEMMA ArithmeticOfElements ==
    ASSUME NEW x \in Elements, NEW y \in Elements
    PROVE  /\ Plus(x, y) = (x + y) % P /\ Plus(x, y) \in Elements
           /\ Minus(x, y) = (x - y) % P /\ Minus(x, y) \in Elements
           /\ Times(x, y) = (x * y) % P /\ Times(x, y) \in Elements
<1>1. x \in Int /\ y \in Int /\ x # NaN /\ y # NaN
  BY ElementFacts
<1>2. x + y \in Int /\ x - y \in Int /\ x * y \in Int
  BY <1>1
<1>3. QED
  BY <1>1, <1>2, ElementFacts DEF Plus, Minus, Times

LEMMA ArithmeticOfNaN ==
    ASSUME NEW x
    PROVE  /\ Plus(NaN, x) = NaN /\ Plus(x, NaN) = NaN
           /\ Minus(NaN, x) = NaN /\ Minus(x, NaN) = NaN
           /\ Times(NaN, x) = NaN /\ Times(x, NaN) = NaN
           /\ Over(NaN, x) = NaN /\ Over(x, NaN) = NaN
BY DEF Plus, Minus, Times, Over

LEMMA ArithmeticInFloats ==
    ASSUME NEW x \in Floats, NEW y \in Floats
    PROVE  Plus(x, y) \in Floats /\ Minus(x, y) \in Floats /\ Times(x, y) \in Floats
<1>1. CASE x = NaN \/ y = NaN
  BY <1>1, ArithmeticOfNaN, ElementFacts
<1>2. CASE x # NaN /\ y # NaN
  <2>1. x \in Elements /\ y \in Elements
    BY <1>2, FloatCases
  <2>2. QED
    BY <2>1, ArithmeticOfElements DEF Floats
<1>3. QED
  BY <1>1, <1>2

\* The powers are what their recursion says.
LEMMA PowersAre ==
    ASSUME NEW x \in Elements
    PROVE  /\ Powers[x] \in [Nat -> Elements]
           /\ Powers[x][0] = 1
           /\ \A n \in Nat : Powers[x][n + 1] = (x * Powers[x][n]) % P
<1> DEFINE step == [y \in Elements |-> (x * y) % P]
           Is(f) == f = [n \in Nat |-> IF n = 0 THEN 1 % P ELSE (x * f[n - 1]) % P]
<1>1. 1 % P = 1 /\ 1 \in Elements
  BY ElementFacts
<1>2. step \in [Elements -> Elements]
  <2>1. \A y \in Elements : x * y \in Int
    BY ElementFacts
  <2>2. QED
    BY <2>1, ElementFacts
<1>3. \E f : Is(f)
  <2>1. PICK f : RecursionFrom(f, 1, step)
    BY <1>1, <1>2, RecursionExists
  <2>2. f \in [Nat -> Elements]
    BY <1>1, <1>2, <2>1, RecursionStays
  <2>3. ASSUME NEW n \in Nat, n # 0 PROVE step[f[n - 1]] = (x * f[n - 1]) % P
    <3>1. n - 1 \in Nat
      BY <2>3
    <3>2. QED
      BY <2>2, <3>1
  <2>4. f = [n \in Nat |-> IF n = 0 THEN 1 ELSE step[f[n - 1]]]
    BY <2>1 DEF RecursionFrom
  <2>5. Is(f)
    <3> HIDE DEF step
    <3>1. QED
      BY <1>1, <2>3, <2>4
  <2>6. QED
    BY <2>5
<1>4. Powers[x] = CHOOSE f : Is(f)
  BY DEF Powers
<1>5. Is(Powers[x])
  <2> HIDE DEF Is
  <2>1. QED
    BY <1>3, <1>4
<1> DEFINE f == Powers[x]
<1>6. f = [n \in Nat |-> IF n = 0 THEN 1 % P ELSE (x * f[n - 1]) % P]
  BY <1>5
<1> HIDE DEF f
<1>7. f[0] = 1
  BY <1>1, <1>6
<1>8. ASSUME NEW n \in Nat PROVE f[n + 1] = (x * f[n]) % P
  <2>1. n + 1 \in Nat /\ n + 1 # 0 /\ (n + 1) - 1 = n
    OBVIOUS
  <2>2. QED
    BY <1>6, <2>1
<1>9. ASSUME NEW n \in Nat, n # 0, n - 1 \in Nat, f[n - 1] \in Elements
      PROVE  f[n] = step[f[n - 1]]
  BY <1>6, <1>9
<1>10. \A n \in Nat : f[n] \in Elements
  <2> DEFINE C == {n \in Nat : f[n] \in Elements}
  <2>1. 0 \in C
    BY <1>1, <1>7
  <2>2. ASSUME NEW n \in Nat, n \in C PROVE n + 1 \in C
    <3>1. x * f[n] \in Int
      BY <2>2, ElementFacts
    <3>2. QED
      BY <1>8, <3>1, ElementFacts
  <2>3. Nat \subseteq C
    <3> HIDE DEF C
    <3>1. QED
      BY <2>1, <2>2, AllNat
  <2>4. QED
    BY <2>3
<1>11. f \in [Nat -> Elements]
  BY <1>6, <1>10
<1>12. QED
  BY <1>7, <1>8, <1>11 DEF f

LEMMA PowerIs ==
    ASSUME NEW x \in Elements, NEW n \in Nat
    PROVE  /\ Power(x, n) \in Elements
           /\ Power(x, 0) = 1
           /\ Power(x, n + 1) = Times(x, Power(x, n))
<1>1. x # NaN /\ n # NaN /\ n + 1 # NaN /\ 0 # NaN
  BY ElementFacts DEF NaN
<1>2. Power(x, n) = Powers[x][n] /\ Power(x, 0) = Powers[x][0]
      /\ Power(x, n + 1) = Powers[x][n + 1]
  BY <1>1 DEF Power
<1>3. Powers[x][n] \in Elements
  BY PowersAre
<1>4. QED
  BY <1>2, <1>3, PowersAre, ArithmeticOfElements

LEMMA OverInFloats ==
    ASSUME NEW x \in Floats, NEW y \in Floats
    PROVE  Over(x, y) \in Floats
<1>1. CASE x = NaN \/ y = NaN \/ y = 0
  BY <1>1, ElementFacts DEF Over
<1>2. CASE x # NaN /\ y # NaN /\ y # 0
  <2>1. x \in Elements /\ y \in Elements
    BY <1>2, FloatCases
  <2>2. Powers[y][P - 2] \in Elements
    BY <2>1, PowersAre, ElementFacts
  <2>3. x * Powers[y][P - 2] \in Int
    BY <2>1, <2>2, ElementFacts
  <2>4. (x * Powers[y][P - 2]) % P \in Elements
    BY <2>3, ElementFacts
  <2>5. QED
    BY <1>2, <2>4 DEF Over, Floats
<1>3. QED
  BY <1>1, <1>2

-----------------------------------------------------------------------------
(* Its laws, with NaN among the numbers. *)

\* The next moment of an average, c times the sum of what it averages.
LEMMA NextOfMultiple ==
    ASSUME NEW b \in Elements, NEW c \in Elements, NEW s \in Floats, NEW g \in Floats
    PROVE  Plus(Times(b, Times(c, s)), Times(c, g)) = Times(c, Plus(Times(b, s), g))
<1>1. CASE s = NaN \/ g = NaN
  BY <1>1, ArithmeticOfNaN
<1>2. CASE s # NaN /\ g # NaN
  <2>1. s \in Elements /\ g \in Elements
    BY <1>2, FloatCases
  <2>2. P \in Nat /\ P > 0 /\ b \in Int /\ c \in Int /\ s \in Int /\ g \in Int
    BY <2>1, ElementFacts
  <2>3. b * (c * s) \in Int /\ c * s \in Int /\ c * g \in Int /\ b * s \in Int
        /\ b * s + g \in Int /\ c * (b * s) \in Int
    BY <2>2
  <2>4. Times(b, Times(c, s)) = (b * (c * s)) % P
    <3>1. Times(b, Times(c, s)) = (b * ((c * s) % P)) % P
      BY <2>1, ArithmeticOfElements
    <3>2. QED
      BY <2>2, <2>3, <3>1, RemainderProduct
  <2>5. Plus(Times(b, Times(c, s)), Times(c, g)) = (b * (c * s) + c * g) % P
    <3>1. Plus(Times(b, Times(c, s)), Times(c, g))
             = (((b * (c * s)) % P) + ((c * g) % P)) % P
      BY <2>1, <2>4, ArithmeticOfElements
    <3>2. QED
      BY <2>2, <2>3, <3>1, RemainderSum
  <2>6. Plus(Times(b, s), g) = (b * s + g) % P
    <3>1. Plus(Times(b, s), g) = (((b * s) % P) + g) % P
      BY <2>1, ArithmeticOfElements
    <3>2. QED
      BY <2>2, <2>3, <3>1, RemainderPlus
  <2>7. Times(c, Plus(Times(b, s), g)) = (c * (b * s + g)) % P
    <3>1. Times(c, Plus(Times(b, s), g)) = (c * ((b * s + g) % P)) % P
      BY <2>1, <2>6, ArithmeticOfElements
    <3>2. QED
      BY <2>2, <2>3, <3>1, RemainderProduct
  <2>8. b * (c * s) + c * g = c * (b * s + g)
    BY <2>2
  <2>9. QED
    BY <2>5, <2>7, <2>8
<1>3. QED
  BY <1>1, <1>2

\* Two moves are one move by their sum.
LEMMA MinusTwice ==
    ASSUME NEW a \in Floats, NEW b \in Floats, NEW c \in Floats
    PROVE  Minus(Minus(a, b), c) = Minus(a, Plus(b, c))
<1>1. CASE a = NaN \/ b = NaN \/ c = NaN
  BY <1>1, ArithmeticOfNaN
<1>2. CASE a # NaN /\ b # NaN /\ c # NaN
  <2>1. a \in Elements /\ b \in Elements /\ c \in Elements
    BY <1>2, FloatCases
  <2>2. P \in Nat /\ P > 0 /\ a \in Int /\ b \in Int /\ c \in Int
        /\ a % P = a /\ c % P = c
    BY <2>1, ElementFacts
  <2>3. a - b \in Int /\ b + c \in Int
    BY <2>2
  <2>4. Minus(Minus(a, b), c) = ((a - b) - c) % P
    <3> DEFINE d == Minus(a, b)
    <3>1. d \in Elements /\ d = (a - b) % P
      BY <2>1, ArithmeticOfElements
    <3>2. Minus(d, c) = (d - c) % P
      BY <2>1, <3>1, ArithmeticOfElements
    <3>3. (((a - b) % P) - (c % P)) % P = ((a - b) - c) % P
      BY <2>2, <2>3, RemainderMinus
    <3>4. ((a - b) % P) - (c % P) = d - c
      BY <2>2, <3>1
    <3> HIDE DEF d
    <3>5. (d - c) % P = ((a - b) - c) % P
      BY <3>3, <3>4
    <3>6. QED
      BY <3>2, <3>5 DEF d
  <2>5. Minus(a, Plus(b, c)) = (a - (b + c)) % P
    <3> DEFINE d == Plus(b, c)
    <3>1. d \in Elements /\ d = (b + c) % P
      BY <2>1, ArithmeticOfElements
    <3>2. Minus(a, d) = (a - d) % P
      BY <2>1, <3>1, ArithmeticOfElements
    <3>3. ((a % P) - ((b + c) % P)) % P = (a - (b + c)) % P
      BY <2>2, <2>3, RemainderMinus
    <3>4. (a % P) - ((b + c) % P) = a - d
      BY <2>2, <3>1
    <3> HIDE DEF d
    <3>5. (a - d) % P = (a - (b + c)) % P
      BY <3>3, <3>4
    <3>6. QED
      BY <3>2, <3>5 DEF d
  <2>6. (a - b) - c = a - (b + c)
    BY <2>2
  <2>7. QED
    BY <2>4, <2>5, <2>6
<1>3. QED
  BY <1>1, <1>2

LEMMA NothingMoved ==
    /\ \A a \in Floats : Minus(a, 0) = a /\ Times(1, a) = a
    /\ \A c \in Elements : Times(c, 0) = 0
<1>1. ASSUME NEW a \in Floats PROVE Minus(a, 0) = a /\ Times(1, a) = a
  <2>1. CASE a = NaN
    BY <2>1, ArithmeticOfNaN
  <2>2. CASE a # NaN
    <3>1. a \in Elements
      BY <2>2, FloatCases
    <3>2. Minus(a, 0) = (a - 0) % P /\ Times(1, a) = (1 * a) % P
      BY <3>1, ArithmeticOfElements, ElementFacts
    <3>3. a - 0 = a /\ 1 * a = a /\ a % P = a
      BY <3>1, ElementFacts
    <3>4. QED
      BY <3>2, <3>3
  <2>3. QED
    BY <2>1, <2>2
<1>2. ASSUME NEW c \in Elements PROVE Times(c, 0) = 0
  <2>1. Times(c, 0) = (c * 0) % P
    BY ArithmeticOfElements, ElementFacts
  <2>2. c * 0 = 0 /\ 0 % P = 0
    BY ElementFacts
  <2>3. QED
    BY <2>1, <2>2
<1>3. QED
  BY <1>1, <1>2

LEMMA TimesAssociates ==
    ASSUME NEW a \in Elements, NEW b \in Elements, NEW c \in Floats
    PROVE  Times(Times(a, b), c) = Times(a, Times(b, c))
<1>1. CASE c = NaN
  BY <1>1, ArithmeticOfNaN
<1>2. CASE c # NaN
  <2>1. c \in Elements
    BY <1>2, FloatCases
  <2>2. P \in Nat /\ P > 0 /\ a \in Int /\ b \in Int /\ c \in Int
    BY <2>1, ElementFacts
  <2>3. a * b \in Int /\ b * c \in Int
    BY <2>2
  <2>4. Times(Times(a, b), c) = ((a * b) * c) % P
    <3> DEFINE d == Times(a, b)
    <3>1. d \in Elements /\ d = (a * b) % P
      BY ArithmeticOfElements
    <3>2. Times(d, c) = (d * c) % P
      BY <2>1, <3>1, ArithmeticOfElements
    <3> HIDE DEF d
    <3>3. (d * c) % P = ((a * b) * c) % P
      BY <2>2, <2>3, <3>1, RemainderTimes
    <3>4. QED
      BY <3>2, <3>3 DEF d
  <2>5. Times(a, Times(b, c)) = (a * (b * c)) % P
    <3> DEFINE d == Times(b, c)
    <3>1. d \in Elements /\ d = (b * c) % P
      BY <2>1, ArithmeticOfElements
    <3>2. Times(a, d) = (a * d) % P
      BY <3>1, ArithmeticOfElements
    <3> HIDE DEF d
    <3>3. (a * d) % P = (a * (b * c)) % P
      BY <2>2, <2>3, <3>1, RemainderProduct
    <3>4. QED
      BY <3>2, <3>3 DEF d
  <2>6. (a * b) * c = a * (b * c)
    BY <2>2
  <2>7. QED
    BY <2>4, <2>5, <2>6
<1>3. QED
  BY <1>1, <1>2

-----------------------------------------------------------------------------
(* Total, for the numbers of a function. *)

Summed(value, S) ==
    IF NaN \in Range(value) THEN NaN ELSE SumFunctionOnSet(value, S) % P

LEMMA SummedInFloats ==
    ASSUME NEW S, IsFiniteSet(S), NEW v \in [S -> Floats]
    PROVE  Summed(v, S) \in Floats
<1>1. CASE NaN \in Range(v)
  BY <1>1, ElementFacts DEF Summed
<1>2. CASE NaN \notin Range(v)
  <2>1. \A x \in S : v[x] \in Int
    BY <1>2, FloatCases, ElementFacts DEF Range
  <2>2. SumFunctionOnSet(v, S) \in Int
    BY <2>1, SumRemove
  <2>3. QED
    BY <1>2, <2>2, ElementFacts DEF Summed, Floats
<1>3. QED
  BY <1>1, <1>2

LEMMA SummedEmpty == ASSUME NEW v, DOMAIN v = {} PROVE Summed(v, {}) = 0
<1>1. NaN \notin Range(v)
  BY DEF Range
<1>2. QED
  BY <1>1, SumEmpty, ElementFacts DEF Summed

\* The total with one number more.
LEMMA SummedAdd ==
    ASSUME NEW S, IsFiniteSet(S), NEW x, x \notin S,
           NEW v \in [S -> Floats], NEW w \in [S \cup {x} -> Floats],
           \A y \in S : w[y] = v[y]
    PROVE  Summed(w, S \cup {x}) = Plus(Summed(v, S), w[x])
<1>1. NaN \in Range(w) <=> NaN \in Range(v) \/ w[x] = NaN
  BY DEF Range
<1>2. CASE NaN \in Range(w)
  BY <1>1, <1>2, ArithmeticOfNaN DEF Summed
<1>3. CASE NaN \notin Range(w)
  <2>1. \A y \in S \cup {x} : w[y] \in Int /\ w[y] \in Elements
    BY <1>3, FloatCases, ElementFacts DEF Range
  <2>2. SumFunctionOnSet(w, S \cup {x}) = w[x] + SumFunctionOnSet(w, S)
    BY <2>1, SumAdd
  <2>3. SumFunctionOnSet(w, S) = SumFunctionOnSet(v, S)
    BY SumEqual
  <2> DEFINE s == SumFunctionOnSet(v, S)
             e == w[x]
  <2>4. s \in Int
    <3>1. \A y \in S : v[y] \in Int
      BY <2>1
    <3>2. QED
      BY <3>1, SumRemove
  <2>5. e \in Int /\ e \in Elements
    BY <2>1
  <2>6. Summed(w, S \cup {x}) = (e + s) % P /\ Summed(v, S) = s % P
    BY <1>1, <1>3, <2>2, <2>3 DEF Summed
  <2> HIDE DEF s, e
  <2>7. Plus(s % P, e) = ((s % P) + e) % P
    BY <2>4, <2>5, ArithmeticOfElements, ElementFacts
  <2>8. ((s % P) + e) % P = (s + e) % P
    BY <2>4, <2>5, RemainderPlus, ElementFacts
  <2>9. e + s = s + e
    BY <2>4, <2>5
  <2>10. QED
    BY <2>6, <2>7, <2>8, <2>9 DEF e
<1>4. QED
  BY <1>2, <1>3

\* The total of multiples.
LEMMA SummedTimes ==
    ASSUME NEW S, IsFiniteSet(S), NEW c \in Elements,
           NEW v \in [S -> Floats], NEW w \in [S -> Floats],
           \A y \in S : w[y] = Times(c, v[y])
    PROVE  Summed(w, S) = Times(c, Summed(v, S))
<1> DEFINE part(f, T) == [y \in T |-> f[y]]
           C == {T \in SUBSET S : Summed(part(w, T), T) = Times(c, Summed(part(v, T), T))}
<1>1. {} \in C
  <2>1. Summed(part(w, {}), {}) = 0 /\ Summed(part(v, {}), {}) = 0
    BY SummedEmpty
  <2>2. QED
    BY <2>1, NothingMoved
<1>2. ASSUME NEW T \in C, NEW x \in S \ T PROVE T \cup {x} \in C
  <2>1. IsFiniteSet(T)
    BY FS_Subset
  <2>2. ASSUME NEW f \in [S -> Floats]
        PROVE  /\ part(f, T) \in [T -> Floats]
               /\ Summed(part(f, T \cup {x}), T \cup {x})
                     = Plus(Summed(part(f, T), T), f[x])
    <3>1. part(f, T) \in [T -> Floats] /\ part(f, T \cup {x}) \in [T \cup {x} -> Floats]
      OBVIOUS
    <3>2. /\ \A y \in T : part(f, T \cup {x})[y] = part(f, T)[y]
          /\ part(f, T \cup {x})[x] = f[x]
      OBVIOUS
    <3> DEFINE p == part(f, T)
    <3> DEFINE q == part(f, T \cup {x})
    <3>3. p \in [T -> Floats] /\ q \in [T \cup {x} -> Floats]
      BY <3>1
    <3>4. (\A y \in T : q[y] = p[y]) /\ q[x] = f[x]
      BY <3>2
    <3> HIDE DEF part, C, p, q
    <3>5. Summed(q, T \cup {x}) = Plus(Summed(p, T), q[x])
      BY <2>1, <3>3, <3>4, SummedAdd
    <3>6. QED
      BY <3>3, <3>4, <3>5 DEF p, q
  <2> DEFINE s == Summed(part(v, T), T)
  <2>3. s \in Floats
    BY <2>1, <2>2, SummedInFloats
  <2>4. w[x] = Times(c, v[x]) /\ v[x] \in Floats
    OBVIOUS
  <2>5. Plus(Times(c, s), Times(c, v[x])) = Times(c, Plus(s, v[x]))
    <3>1. Times(1, Times(c, s)) = Times(c, s) /\ Times(1, s) = s
      BY <2>3, ArithmeticInFloats, NothingMoved DEF Floats
    <3>2. Plus(Times(1, Times(c, s)), Times(c, v[x])) = Times(c, Plus(Times(1, s), v[x]))
      BY <2>3, <2>4, NextOfMultiple, ElementFacts
    <3>3. QED
      BY <3>1, <3>2
  <2> HIDE DEF s, part
  <2>6. QED
    BY <2>2, <2>4, <2>5 DEF s
<1>3. S \in C
  <2> HIDE DEF C
  <2>1. QED
    BY <1>1, <1>2, SubsetInduction
<1>4. part(w, S) = w /\ part(v, S) = v
  OBVIOUS
<1>5. QED
  BY <1>3, <1>4

(***************************************************************************)
(* The training loop.                                                      *)
(***************************************************************************)

\* Every variable that holds something for each parameter.
LoopTypes ==
    /\ weight = [p \in Params |-> weight[p]]
    /\ disk # NoTensor => disk.weight = [p \in Params |-> disk.weight[p]]
    /\ grad = [p \in Params |-> grad[p]]
    /\ own = [p \in Params |-> own[p]]
    /\ requiresGrad = [p \in Params |-> requiresGrad[p]]
    /\ program \in Programs

\* What holds of the grad tensors: a frozen parameter has none; a param node
\* shares its parameter's until that is frozen, and then the parameter has
\* none while the node is in the tracer; between zero_grad and backward there
\* is nothing but zeros.  The nodes of a loss that failed are in the tracer.
GradInv ==
    /\ \A p \in Params : ~requiresGrad[p] => grad[p] = NoTensor
    /\ shared \subseteq here /\ here \subseteq Params
    /\ \A p \in here \ toggled : p \in shared
    /\ \A p \in shared : requiresGrad[p]
    /\ \A p \in here \ shared : grad[p] = NoTensor
    /\ pc = "evaluated" => lossOf \subseteq here
    /\ failed => root \subseteq here
    /\ pc \in {"zeroed", "evaluated"} => \A p \in Listed : grad[p] \in {NoTensor, 0}

TrainingInv == LoopTypes /\ GradInv /\ StepsUseOneLoss

\* A list of an optimizer names parameters.
LEMMA ListedAreParams == LoopTypes => Listed \subseteq Params
<1> SUFFICES ASSUME LoopTypes, NEW k \in DOMAIN list
             PROVE  list[k] \in Params
  BY DEF Listed
<1>1. list \in Seq(Params)
  BY TrainingAssumption DEF LoopTypes, list
<1>2. QED
  BY <1>1

\* No grad tensor is told from a zero.
LEMMA NoTensorIsNotZero == NoTensor # 0
<1>1. 0 \in Floats
  BY PrimeAssumption DEF Floats, Elements
<1>2. QED
  BY <1>1, TrainingAssumption

LEMMA TrainingInit == Init => TrainingInv
<1> SUFFICES ASSUME Init PROVE TrainingInv
  OBVIOUS
<1>1. LoopTypes
  BY DEF Init, LoopTypes
<1>2. GradInv
  BY DEF Init, GradInv
<1>3. StepsUseOneLoss
  BY DEF Init, StepsUseOneLoss
<1>4. QED
  BY <1>1, <1>2, <1>3 DEF TrainingInv

\* The actions that leave the grad tensors and the graph alone.
LEMMA NothingToldApart ==
    ASSUME TrainingInv, LoopTypes',
           UNCHANGED <<requiresGrad, grad, here, shared, lossOf, root, failed, toggled, own, program>>,
           \/ pc' \in {pc, "idle"}
           \/ pc \in {"differentiated", "stepping"} /\ pc' = "stepping"
    PROVE  TrainingInv'
BY DEF TrainingInv, GradInv, StepsUseOneLoss, Listed, list

\* The ops of a forward pass leave the invariant in place, but for what it
\* says of the loss.
LEMMA ForwardKeepsGrads ==
    ASSUME TrainingInv, NEW used \in Uses, ModelForward(used),
           requiresGrad' = requiresGrad
    PROVE  /\ grad' = [p \in Params |-> grad'[p]]
           /\ \A p \in Params : grad'[p] = grad[p] \/ (grad[p] = NoTensor /\ grad'[p] = 0)
           /\ \A p \in Params : ~requiresGrad'[p] => grad'[p] = NoTensor
           /\ shared' \subseteq here' /\ here' \subseteq Params /\ here \subseteq here'
           /\ \A p \in here' \ toggled' : p \in shared'
           /\ \A p \in shared' : requiresGrad'[p]
           /\ \A p \in here' \ shared' : grad'[p] = NoTensor
<1>1. Registered(used) \subseteq Params
  BY TrainingAssumption DEF Registered
<1>2. /\ grad' = [p \in Params |->
             IF p \in Registered(used) /\ grad[p] = NoTensor THEN 0 ELSE grad[p]]
      /\ here' = here \cup Registered(used)
      /\ shared' = shared \cup Registered(used)
      /\ toggled' = toggled \ Registered(used)
  BY DEF ModelForward, Initialised
<1>3. \A p \in Registered(used) : requiresGrad[p] /\ p \notin here
  BY DEF Registered
<1>4. QED
  BY <1>1, <1>2, <1>3 DEF TrainingInv, GradInv

LEMMA TrainingStep == TrainingInv /\ [Next]_vars => TrainingInv'
<1> SUFFICES ASSUME TrainingInv, [Next]_vars PROVE TrainingInv'
  OBVIOUS
<1> USE DEF leaves, graph, optimizer, history
<1>1. CASE ZeroGrad
  <2>1. /\ LoopTypes'
        /\ grad' = Zeroed
    BY <1>1 DEF ZeroGrad, TrainingInv, LoopTypes, Zeroed
  <2>2. Listed' = Listed /\ Listed \subseteq Params
    BY <1>1, ListedAreParams DEF ZeroGrad, Listed, list, TrainingInv
  <2>3. \A p \in Params : grad'[p] = IF p \in Listed /\ grad[p] # NoTensor THEN 0 ELSE grad[p]
    BY <2>1 DEF Zeroed
  <2>4. GradInv'
    BY <1>1, <2>2, <2>3 DEF ZeroGrad, TrainingInv, GradInv
  <2>5. StepsUseOneLoss'
    BY <1>1 DEF ZeroGrad, StepsUseOneLoss
  <2>6. QED
    BY <2>1, <2>4, <2>5 DEF TrainingInv
<1>2. CASE JitReturnsCached
  <2>1. LoopTypes'
    BY <1>2 DEF JitReturnsCached, TrainingInv, LoopTypes
  <2>2. QED
    BY <1>2, <2>1, NothingToldApart DEF JitReturnsCached
<1>3. ASSUME NEW used \in Uses, Forward(used) PROVE TrainingInv'
  <2>1. ModelForward(used) /\ requiresGrad' = requiresGrad
    BY <1>3 DEF Forward
  <2>2. LoopTypes'
    BY <1>3, <2>1, ForwardKeepsGrads DEF Forward, TrainingInv, LoopTypes
  <2>3. \A p \in Listed' : grad'[p] \in {NoTensor, 0}
    <3>1. Listed' = Listed /\ Listed \subseteq Params
      BY <1>3, ListedAreParams DEF Forward, Listed, list, TrainingInv
    <3>2. \A p \in Listed : grad[p] \in {NoTensor, 0}
      BY <1>3 DEF Forward, TrainingInv, GradInv
    <3>3. QED
      BY <2>1, <3>1, <3>2, ForwardKeepsGrads
  <2>4. GradInv'
    BY <1>3, <2>1, <2>3, ForwardKeepsGrads DEF Forward, TrainingInv, GradInv
  <2>5. StepsUseOneLoss'
    BY <1>3 DEF Forward, StepsUseOneLoss
  <2>6. QED
    BY <2>2, <2>4, <2>5 DEF TrainingInv
<1>4. ASSUME NEW used \in Uses, Evaluate(used) PROVE TrainingInv'
  <2>1. ModelForward(used) /\ requiresGrad' = requiresGrad
    BY <1>4 DEF Evaluate
  <2>2. LoopTypes'
    BY <1>4, <2>1, ForwardKeepsGrads DEF Evaluate, TrainingInv, LoopTypes
  <2>3. GradInv'
    BY <1>4, <2>1, ForwardKeepsGrads DEF Evaluate, TrainingInv, GradInv
  <2>4. StepsUseOneLoss'
    BY <1>4 DEF Evaluate, StepsUseOneLoss
  <2>5. QED
    BY <2>2, <2>3, <2>4 DEF TrainingInv
<1>5. ASSUME NEW gs \in Gradients, Backward(gs) PROVE TrainingInv'
  <2>1. LoopTypes'
    BY <1>5 DEF Backward, TrainingInv, LoopTypes, Assigned
  <2>2. /\ \A p \in Params : grad'[p] = IF p \in shared /\ p \in StartsFrom THEN gs[p] ELSE grad[p]
        /\ \A p \in Params : own'[p] = IF p \in StartsFrom THEN gs[p] ELSE 0
        /\ root' = StartsFrom
        /\ StartsFrom \subseteq here /\ shared \subseteq here
    BY <1>5 DEF Backward, Assigned, StartsFrom, TrainingInv, GradInv
  <2>3. GradInv'
    BY <1>5, <2>2 DEF Backward, TrainingInv, GradInv
  <2>4. StepsUseOneLoss'
    <3> SUFFICES ASSUME NEW p \in Listed
                 PROVE  /\ grad'[p] \in {NoTensor, own'[p]}
                        /\ p \in StartsFrom \ toggled => grad'[p] = own'[p]
      BY <1>5, <2>2 DEF Backward, StepsUseOneLoss, Listed, list
    <3>1. p \in Params /\ grad[p] \in {NoTensor, 0}
      BY <1>5, ListedAreParams DEF Backward, TrainingInv, GradInv
    <3>2. CASE p \in StartsFrom /\ p \in shared
      BY <2>2, <3>1, <3>2
    <3>3. CASE p \in StartsFrom /\ p \notin shared
      BY <2>2, <3>1, <3>3 DEF TrainingInv, GradInv
    <3>4. CASE p \notin StartsFrom
      BY <2>2, <3>1, <3>4
    <3>5. QED
      BY <3>2, <3>3, <3>4
  <2>5. QED
    BY <2>1, <2>3, <2>4 DEF TrainingInv
<1>6. CASE StepBegins \/ StepSkips \/ StepReturns
  <2>1. LoopTypes'
    BY <1>6 DEF StepBegins, StepSkips, StepReturns, TrainingInv, LoopTypes
  <2>2. UNCHANGED <<requiresGrad, grad, here, shared, lossOf, root, failed, toggled, own, program>>
    BY <1>6 DEF StepBegins, StepSkips, StepReturns
  <2>3. \/ pc' \in {pc, "idle"}
        \/ pc \in {"differentiated", "stepping"} /\ pc' = "stepping"
    BY <1>6 DEF StepBegins, StepSkips, StepReturns
  <2>4. QED
    BY <2>1, <2>2, <2>3, NothingToldApart
<1>7. CASE StepMoves
  <2>1. weight' = [p \in Params |-> weight'[p]]
    BY <1>7 DEF StepMoves, TrainingInv, LoopTypes
  <2>2. LoopTypes'
    BY <1>7, <2>1 DEF StepMoves, TrainingInv, LoopTypes
  <2>3. QED
    BY <1>7, <2>2, NothingToldApart DEF StepMoves
<1>8. ASSUME NEW p \in Params, Freeze(p) PROVE TrainingInv'
  <2>1. /\ LoopTypes'
        /\ \A q \in Params : grad'[q] = IF q = p THEN NoTensor ELSE grad[q]
        /\ \A q \in Params : requiresGrad'[q] = IF q = p THEN FALSE ELSE requiresGrad[q]
    BY <1>8 DEF Freeze, AfterFreezing, TrainingInv, LoopTypes
  <2>2. Listed' = Listed /\ Listed \subseteq Params
    BY <1>8, ListedAreParams DEF Freeze, Listed, list, TrainingInv
  <2>3. GradInv'
    BY <1>8, <2>1, <2>2 DEF Freeze, TrainingInv, GradInv
  <2>4. StepsUseOneLoss'
    BY <1>8, <2>1, <2>2 DEF Freeze, TrainingInv, StepsUseOneLoss
  <2>5. QED
    BY <2>1, <2>3, <2>4 DEF TrainingInv
<1>9. ASSUME NEW p \in Params, Unfreeze(p) PROVE TrainingInv'
  <2>1. /\ LoopTypes'
        /\ \A q \in Params : requiresGrad[q] => requiresGrad'[q]
    BY <1>9 DEF Unfreeze, TrainingInv, LoopTypes
  <2>2. GradInv'
    BY <1>9, <2>1 DEF Unfreeze, TrainingInv, GradInv, Listed, list
  <2>3. StepsUseOneLoss'
    BY <1>9 DEF Unfreeze, TrainingInv, StepsUseOneLoss, Listed, list
  <2>4. QED
    BY <2>1, <2>2, <2>3 DEF TrainingInv
<1>10. ASSUME NEW r, SetRate(r) PROVE TrainingInv'
  <2>1. LoopTypes'
    BY <1>10 DEF SetRate, TrainingInv, LoopTypes
  <2>2. QED
    BY <1>10, <2>1, NothingToldApart DEF SetRate
<1>11. ASSUME NEW entries, NEW w, LoadStateDict(entries, w) PROVE TrainingInv'
  <2>1. LoopTypes'
    BY <1>11 DEF LoadStateDict, TrainingInv, LoopTypes
  <2>2. QED
    BY <1>11, <2>1, NothingToldApart DEF LoadStateDict
<1>12. CASE SaveCheckpoint
  <2>1. LoopTypes'
    BY <1>12 DEF SaveCheckpoint, TrainingInv, LoopTypes
  <2>2. QED
    BY <1>12, <2>1, NothingToldApart DEF SaveCheckpoint
<1>13. CASE Restart
  <2>1. weight' = [p \in Params |-> weight'[p]]
    BY <1>13 DEF Restart, TrainingInv, LoopTypes
  <2>2. LoopTypes'
    BY <1>13, <2>1 DEF Restart, TrainingInv, LoopTypes
  <2>3. GradInv' /\ StepsUseOneLoss'
    BY <1>13 DEF Restart, GradInv, StepsUseOneLoss
  <2>4. QED
    BY <2>2, <2>3 DEF TrainingInv
<1>14. CASE UNCHANGED vars
  <2>1. LoopTypes'
    BY <1>14 DEF vars, TrainingInv, LoopTypes
  <2>2. QED
    BY <1>14, <2>1, NothingToldApart DEF vars
<1>15. CASE BackwardThrows
  <2>1. LoopTypes'
    BY <1>15 DEF BackwardThrows, TrainingInv, LoopTypes
  <2>2. GradInv'
    BY <1>15 DEF BackwardThrows, StartsFrom, TrainingInv, GradInv
  <2>3. StepsUseOneLoss'
    BY <1>15 DEF BackwardThrows, StepsUseOneLoss
  <2>4. QED
    BY <2>1, <2>2, <2>3 DEF TrainingInv
<1>16. QED
  BY <1>1, <1>2, <1>3, <1>4, <1>5, <1>6, <1>7, <1>8, <1>9, <1>10, <1>11, <1>12,
     <1>13, <1>14, <1>15 DEF Next

\* The optimizer steps with the derivatives of one loss, in the loop of
\* train/loop.py:15-19 with anything in between: the loss of this iteration,
\* or the one whose backward threw in the same graph.
THEOREM StepsCorrect == Spec => []StepsUseOneLoss
<1>1. TrainingInv => StepsUseOneLoss
  BY DEF TrainingInv
<1>2. QED
  BY <1>1, TrainingInit, TrainingStep, PTL DEF Spec

\* A step that moves a parameter found a grad tensor, which no frozen one has.
LEMMA FrozenStep ==
    TrainingInv /\ [Next]_vars =>
       [\A p \in Params : ~requiresGrad[p] /\ pc = "stepping" /\ pc' # "idle"
                             => weight'[p] = weight[p]]_vars
<1> SUFFICES ASSUME TrainingInv, [Next]_vars, NEW p \in Params, ~requiresGrad[p],
                    pc = "stepping", pc' # "idle"
             PROVE  weight'[p] = weight[p]
  OBVIOUS
<1> USE DEF leaves, graph, optimizer, history
<1>1. CASE StepMoves
  <2>1. p # list[i]
    BY <1>1 DEF StepMoves, TrainingInv, GradInv
  <2>2. QED
    BY <1>1, <2>1 DEF StepMoves, TrainingInv, LoopTypes
<1>2. CASE StepSkips \/ UNCHANGED vars
  BY <1>2 DEF StepSkips, vars
<1>3. StepMoves \/ StepSkips \/ UNCHANGED vars \/ (\E q \in Params : Unfreeze(q))
  BY DEF Next, ZeroGrad, JitReturnsCached, Forward, Evaluate, Backward, BackwardThrows,
         StepBegins, StepReturns, Freeze, SetRate, LoadStateDict, SaveCheckpoint, Restart
<1>4. QED
  BY <1>1, <1>2, <1>3 DEF Unfreeze

\* A frozen parameter is not moved by a step (sgd.cpp:10, tensor.cpp:43).
THEOREM FrozenCorrect == Spec => FrozenDoNotMove
<1>1. QED
  BY TrainingInit, TrainingStep, FrozenStep, PTL DEF Spec, FrozenDoNotMove

-----------------------------------------------------------------------------
(* The closed forms of the moments. *)

\* The sum of beta^(n - j) gs[j] over 1 .. n.
GeometricSum(beta, gs, n) ==
    Summed([j \in 1 .. n |-> Times(Power(beta, n - j), gs[j])], 1 .. n)

LEMMA GeometricSumType ==
    ASSUME NEW b \in Elements, NEW n \in Nat, NEW gs, \A j \in 1 .. n : gs[j] \in Floats
    PROVE  /\ [j \in 1 .. n |-> Times(Power(b, n - j), gs[j])] \in [1 .. n -> Floats]
           /\ GeometricSum(b, gs, n) \in Floats
<1>1. ASSUME NEW j \in 1 .. n PROVE Times(Power(b, n - j), gs[j]) \in Floats
  <2>1. n - j \in Nat
    OBVIOUS
  <2>2. Power(b, n - j) \in Floats
    BY <2>1, PowerIs DEF Floats
  <2>3. QED
    BY <2>2, ArithmeticInFloats
<1>2. IsFiniteSet(1 .. n)
  BY FS_Interval
<1>3. QED
  BY <1>1, <1>2, SummedInFloats DEF GeometricSum

LEMMA GeometricSumZero == ASSUME NEW b, NEW gs PROVE GeometricSum(b, gs, 0) = 0
<1>1. 1 .. 0 = {}
  OBVIOUS
<1>2. QED
  BY <1>1, SummedEmpty DEF GeometricSum

LEMMA GeometricSumSame ==
    ASSUME NEW b, NEW n, NEW gs, NEW hs, \A j \in 1 .. n : gs[j] = hs[j]
    PROVE  GeometricSum(b, gs, n) = GeometricSum(b, hs, n)
<1>1. [j \in 1 .. n |-> Times(Power(b, n - j), gs[j])]
         = [j \in 1 .. n |-> Times(Power(b, n - j), hs[j])]
  OBVIOUS
<1>2. QED
  BY <1>1 DEF GeometricSum

\* Each step multiplies the sum by beta and adds the next number.
LEMMA GeometricSumNext ==
    ASSUME NEW b \in Elements, NEW n \in Nat, NEW gs, \A j \in 1 .. n + 1 : gs[j] \in Floats
    PROVE  GeometricSum(b, gs, n + 1) = Plus(Times(b, GeometricSum(b, gs, n)), gs[n + 1])
<1> DEFINE v == [j \in 1 .. n |-> Times(Power(b, n - j), gs[j])]
           u == [j \in 1 .. n |-> Times(Power(b, n + 1 - j), gs[j])]
           w == [j \in 1 .. n + 1 |-> Times(Power(b, n + 1 - j), gs[j])]
<1>1. n + 1 \in Nat /\ 1 .. n + 1 = (1 .. n) \cup {n + 1} /\ n + 1 \notin 1 .. n
      /\ IsFiniteSet(1 .. n)
  BY FS_Interval
<1>2. v \in [1 .. n -> Floats]
  <2>1. \A j \in 1 .. n : gs[j] \in Floats
    BY <1>1
  <2>2. QED
    BY <2>1, GeometricSumType
<1>3. w \in [1 .. n + 1 -> Floats]
  <2> DEFINE m == n + 1
  <2>1. m \in Nat /\ \A j \in 1 .. m : gs[j] \in Floats
    BY <1>1
  <2> HIDE DEF m
  <2>2. [j \in 1 .. m |-> Times(Power(b, m - j), gs[j])] \in [1 .. m -> Floats]
    BY <2>1, GeometricSumType
  <2>3. QED
    BY <2>2 DEF m
<1>4. u \in [1 .. n -> Floats] /\ \A j \in 1 .. n : w[j] = u[j]
  BY <1>1, <1>3
<1>5. ASSUME NEW j \in 1 .. n PROVE u[j] = Times(b, v[j])
  <2>1. n - j \in Nat /\ n + 1 - j = (n - j) + 1
    OBVIOUS
  <2>2. Power(b, n + 1 - j) = Times(b, Power(b, n - j)) /\ Power(b, n - j) \in Elements
    BY <2>1, PowerIs
  <2>3. gs[j] \in Floats
    BY <1>1
  <2>4. QED
    BY <2>2, <2>3, TimesAssociates
<1>6. w[n + 1] = gs[n + 1]
  <2>1. n + 1 \in 1 .. n + 1 /\ n + 1 - (n + 1) = 0
    OBVIOUS
  <2>2. w[n + 1] = Times(Power(b, 0), gs[n + 1]) /\ gs[n + 1] \in Floats
    BY <2>1
  <2>3. Power(b, 0) = 1
    BY PowerIs
  <2>4. QED
    BY <2>2, <2>3, NothingMoved
<1> HIDE DEF u, v, w
<1>7. Summed(w, 1 .. n + 1) = Plus(Summed(u, 1 .. n), w[n + 1])
  BY <1>1, <1>3, <1>4, SummedAdd
<1>8. Summed(u, 1 .. n) = Times(b, Summed(v, 1 .. n))
  BY <1>1, <1>2, <1>4, <1>5, SummedTimes
<1>9. QED
  BY <1>6, <1>7, <1>8 DEF GeometricSum, v, w

-----------------------------------------------------------------------------
(* Where the moves of an optimizer lead. *)

Moves == [g : Floats, rate : Elements, t : Nat]

OptionalFloats == Floats \cup {NoTensor}

\* TextbookDirection for an optimizer of kind kd, and a move along it.
DirectionOf(kd, xs, n) ==
    LET average(beta, sum) == Over(Times(Minus(1, beta), sum), Minus(1, Power(beta, n)))
    IN  CASE kd = "sgd"  -> xs[n].g
          [] kd = "adam" ->
                Over(average(Beta1, Geometric(Beta1, xs, n)),
                     Plus(RootOf(average(Beta2, GeometricSquares(Beta2, xs, n))), Eps))
          [] OTHER         -> Geometric(Momentum, xs, n)

MoveOf(kd, xs, n) == Times(xs[n].rate, DirectionOf(kd, xs, n))

Moved(kd, xs, from, n) == Summed([j \in from + 1 .. n |-> MoveOf(kd, xs, j)], from + 1 .. n)

\* The moments m and v are what the first n of the moves xs give.
MomentsAfter(kd, m, v, xs, n) ==
    /\ kd = "adam" =>
          /\ OrZero(m) = Times(Minus(1, Beta1), Geometric(Beta1, xs, n))
          /\ OrZero(v) = Times(Minus(1, Beta2), GeometricSquares(Beta2, xs, n))
    /\ kd \in {"momentum", "sgd with momentum"} =>
          OrZero(m) = Geometric(Momentum, xs, n)

\* The weight w is where the moves after o lead, if Adam counted them.
Follows(kd, w, o, xs, n) ==
    (kd = "adam" => \A j \in 1 .. n : xs[j].t = j) =>
        w = Minus(o.weight, Moved(kd, xs, o.from, n))

LEMMA ConstantsAreElements ==
    /\ {Momentum, WeightDecay, Beta1, Beta2, Eps} \subseteq Elements
    /\ Minus(1, Beta1) \in Elements /\ Minus(1, Beta2) \in Elements
    /\ \A x \in Floats : RootOf(x) \in Floats
    /\ NoTensor \notin Floats
<1>1. {Momentum, WeightDecay, Beta1, Beta2, Eps} \subseteq Elements
  BY TrainingAssumption
<1>2. Minus(1, Beta1) \in Elements /\ Minus(1, Beta2) \in Elements
  BY <1>1, ElementFacts, ArithmeticOfElements
<1>3. \A x \in Floats : RootOf(x) \in Floats
  BY FloatCases, TrainingAssumption DEF RootOf, Floats
<1>4. QED
  BY <1>1, <1>2, <1>3, TrainingAssumption

\* The sums of the model as sums of the gradients, and of their squares.
Gs(xs, n) == [j \in 1 .. n |-> xs[j].g]
Squares(xs, n) == [j \in 1 .. n |-> Square(xs[j].g)]

LEMMA GeometricIs ==
    ASSUME NEW b, NEW xs, NEW n
    PROVE  /\ Geometric(b, xs, n) = GeometricSum(b, Gs(xs, n), n)
           /\ GeometricSquares(b, xs, n) = GeometricSum(b, Squares(xs, n), n)
<1>1. [j \in 1 .. n |-> Times(Power(b, n - j), xs[j].g)]
         = [j \in 1 .. n |-> Times(Power(b, n - j), Gs(xs, n)[j])]
  BY DEF Gs
<1>2. [j \in 1 .. n |-> Times(Power(b, n - j), Square(xs[j].g))]
         = [j \in 1 .. n |-> Times(Power(b, n - j), Squares(xs, n)[j])]
  BY DEF Squares
<1>3. Geometric(b, xs, n)
         = Summed([j \in 1 .. n |-> Times(Power(b, n - j), xs[j].g)], 1 .. n)
  BY DEF Geometric, Total, Summed
<1>4. GeometricSquares(b, xs, n)
         = Summed([j \in 1 .. n |-> Times(Power(b, n - j), Square(xs[j].g))], 1 .. n)
  BY DEF GeometricSquares, Total, Summed
<1>5. QED
  BY <1>1, <1>2, <1>3, <1>4 DEF GeometricSum

\* They look at the first n moves only.
LEMMA GeometricSame ==
    ASSUME NEW b, NEW n, NEW xs, NEW ys, \A j \in 1 .. n : xs[j] = ys[j]
    PROVE  /\ Geometric(b, xs, n) = Geometric(b, ys, n)
           /\ GeometricSquares(b, xs, n) = GeometricSquares(b, ys, n)
<1>1. Gs(xs, n) = Gs(ys, n) /\ Squares(xs, n) = Squares(ys, n)
  BY DEF Gs, Squares
<1>2. QED
  BY <1>1, GeometricIs

LEMMA GeometricType ==
    ASSUME NEW b \in Elements, NEW n \in Nat, NEW xs, \A j \in 1 .. n : xs[j] \in Moves
    PROVE  Geometric(b, xs, n) \in Floats /\ GeometricSquares(b, xs, n) \in Floats
<1>1. \A j \in 1 .. n : xs[j].g \in Floats
  BY DEF Moves
<1>2. /\ \A j \in 1 .. n : Gs(xs, n)[j] \in Floats
      /\ \A j \in 1 .. n : Squares(xs, n)[j] \in Floats
  BY <1>1, ArithmeticInFloats DEF Gs, Squares, Square
<1>3. QED
  BY <1>2, GeometricIs, GeometricSumType

LEMMA GeometricZero ==
    ASSUME NEW b, NEW xs
    PROVE  Geometric(b, xs, 0) = 0 /\ GeometricSquares(b, xs, 0) = 0
BY GeometricIs, GeometricSumZero

LEMMA GeometricNext ==
    ASSUME NEW b \in Elements, NEW n \in Nat, NEW xs, \A j \in 1 .. n + 1 : xs[j] \in Moves
    PROVE  /\ Geometric(b, xs, n + 1) = Plus(Times(b, Geometric(b, xs, n)), xs[n + 1].g)
           /\ GeometricSquares(b, xs, n + 1)
                 = Plus(Times(b, GeometricSquares(b, xs, n)), Square(xs[n + 1].g))
<1> DEFINE gs == Gs(xs, n + 1)
           ss == Squares(xs, n + 1)
<1>1. n + 1 \in 1 .. n + 1 /\ \A j \in 1 .. n : j \in 1 .. n + 1
  OBVIOUS
<1>2. /\ \A j \in 1 .. n + 1 : gs[j] \in Floats
      /\ \A j \in 1 .. n + 1 : ss[j] \in Floats
  BY ArithmeticInFloats DEF Gs, Squares, Square, Moves
<1>3. gs[n + 1] = xs[n + 1].g /\ ss[n + 1] = Square(xs[n + 1].g)
  BY <1>1 DEF Gs, Squares
<1>4. /\ \A j \in 1 .. n : gs[j] = Gs(xs, n)[j]
      /\ \A j \in 1 .. n : ss[j] = Squares(xs, n)[j]
  BY <1>1 DEF Gs, Squares
<1> HIDE DEF gs, ss
<1>5. GeometricSum(b, gs, n) = GeometricSum(b, Gs(xs, n), n)
      /\ GeometricSum(b, ss, n) = GeometricSum(b, Squares(xs, n), n)
  BY <1>4, GeometricSumSame
<1>6. /\ GeometricSum(b, gs, n + 1) = Plus(Times(b, GeometricSum(b, gs, n)), gs[n + 1])
      /\ GeometricSum(b, ss, n + 1) = Plus(Times(b, GeometricSum(b, ss, n)), ss[n + 1])
  BY <1>2, GeometricSumNext
<1>7. QED
  BY <1>3, <1>5, <1>6, GeometricIs DEF gs, ss

LEMMA DirectionSame ==
    ASSUME NEW kd, NEW n, NEW xs, NEW ys, \A j \in 1 .. n : xs[j] = ys[j],
           n \in 1 .. n
    PROVE  MoveOf(kd, xs, n) = MoveOf(kd, ys, n)
<1>1. xs[n] = ys[n]
  OBVIOUS
<1>2. \A b : /\ Geometric(b, xs, n) = Geometric(b, ys, n)
             /\ GeometricSquares(b, xs, n) = GeometricSquares(b, ys, n)
  BY GeometricSame
<1>3. DirectionOf(kd, xs, n) = DirectionOf(kd, ys, n)
  BY <1>1, <1>2 DEF DirectionOf
<1>4. QED
  BY <1>1, <1>3 DEF MoveOf

LEMMA AverageType ==
    ASSUME NEW b \in Elements, NEW s \in Floats, NEW n \in Nat
    PROVE  Over(Times(Minus(1, b), s), Minus(1, Power(b, n))) \in Floats
<1>1. Power(b, n) \in Elements
  BY PowerIs
<1>2. /\ Minus(1, b) \in Floats /\ Minus(1, Power(b, n)) \in Floats
  BY <1>1, ArithmeticOfElements, ElementFacts DEF Floats
<1>3. Times(Minus(1, b), s) \in Floats
  BY <1>2, ArithmeticInFloats
<1>4. QED
  BY <1>2, <1>3, OverInFloats

LEMMA MoveType ==
    ASSUME NEW kd, NEW n \in Nat, n > 0, NEW xs, \A j \in 1 .. n : xs[j] \in Moves
    PROVE  MoveOf(kd, xs, n) \in Floats
<1>1. xs[n].g \in Floats /\ xs[n].rate \in Floats
  BY DEF Moves, Floats
<1>2. \A b \in Elements : /\ Geometric(b, xs, n) \in Floats
                          /\ GeometricSquares(b, xs, n) \in Floats
  BY GeometricType
<1> DEFINE average(b, s) == Over(Times(Minus(1, b), s), Minus(1, Power(b, n)))
           mean == average(Beta1, Geometric(Beta1, xs, n))
           rooted == RootOf(average(Beta2, GeometricSquares(Beta2, xs, n)))
<1>3. mean \in Floats /\ rooted \in Floats /\ Eps \in Floats
  BY <1>2, AverageType, ConstantsAreElements DEF Floats
<1>4. Over(mean, Plus(rooted, Eps)) \in Floats
  <2> HIDE DEF mean, rooted
  <2>1. QED
    BY <1>3, ArithmeticInFloats, OverInFloats
<1>5. Geometric(Momentum, xs, n) \in Floats
  BY <1>2, ConstantsAreElements
<1>6. DirectionOf(kd, xs, n) \in Floats
  BY <1>1, <1>4, <1>5 DEF DirectionOf
<1>7. QED
  BY <1>1, <1>6, ArithmeticInFloats DEF MoveOf

\* A step moves a weight to where its gradients lead, if it was there before:
\* its next moments are those of its moves and the new one.
LEMMA MomentsFollow ==
    ASSUME kind \in AllKinds, NEW n \in Nat, NEW xs, NEW ys,
           NEW m \in OptionalFloats, NEW v \in OptionalFloats,
           MomentsAfter(kind, m, v, xs, n),
           \A j \in 1 .. n : ys[j] = xs[j],
           \A j \in 1 .. n + 1 : ys[j] \in Moves,
           NEW g, g = ys[n + 1].g
    PROVE  /\ NextMoment(m, g) \in OptionalFloats
           /\ NextSecond(v, g) \in OptionalFloats
           /\ kind # "sgd" => NextMoment(m, g) \in Floats
           /\ kind = "adam" => NextSecond(v, g) \in Floats
           /\ MomentsAfter(kind, NextMoment(m, g), NextSecond(v, g), ys, n + 1)
<1>1. n + 1 \in 1 .. n + 1 /\ \A j \in 1 .. n : xs[j] \in Moves
  OBVIOUS
<1>2. g \in Floats /\ Square(g) \in Floats
  BY <1>1, ArithmeticInFloats DEF Moves, Square
<1>3. OrZero(m) \in Floats /\ OrZero(v) \in Floats
  BY ElementFacts DEF OrZero, OptionalFloats, Floats
<1>4. \A x \in Floats : OrZero(x) = x /\ x \in OptionalFloats
  BY ConstantsAreElements DEF OrZero, OptionalFloats
<1>5. \A b \in Elements :
         /\ Geometric(b, xs, n) \in Floats /\ GeometricSquares(b, xs, n) \in Floats
         /\ Geometric(b, ys, n + 1) = Plus(Times(b, Geometric(b, xs, n)), g)
         /\ GeometricSquares(b, ys, n + 1)
               = Plus(Times(b, GeometricSquares(b, xs, n)), Square(g))
  <2> SUFFICES ASSUME NEW b \in Elements
               PROVE  /\ Geometric(b, xs, n) \in Floats
                      /\ GeometricSquares(b, xs, n) \in Floats
                      /\ Geometric(b, ys, n + 1) = Plus(Times(b, Geometric(b, xs, n)), g)
                      /\ GeometricSquares(b, ys, n + 1)
                            = Plus(Times(b, GeometricSquares(b, xs, n)), Square(g))
    OBVIOUS
  <2>1. /\ Geometric(b, ys, n + 1) = Plus(Times(b, Geometric(b, ys, n)), g)
        /\ GeometricSquares(b, ys, n + 1)
              = Plus(Times(b, GeometricSquares(b, ys, n)), Square(g))
    BY GeometricNext
  <2>2. /\ Geometric(b, ys, n) = Geometric(b, xs, n)
        /\ GeometricSquares(b, ys, n) = GeometricSquares(b, xs, n)
    BY GeometricSame
  <2>3. QED
    BY <1>1, <2>1, <2>2, GeometricType
<1>6. CASE kind = "sgd"
  <2>1. NextMoment(m, g) = m /\ NextSecond(v, g) = v
    BY <1>6 DEF NextMoment, NextSecond
  <2>2. QED
    BY <1>6, <2>1 DEF MomentsAfter
<1>7. CASE kind = "adam"
  <2> DEFINE c1 == Minus(1, Beta1)
             c2 == Minus(1, Beta2)
             s1 == Geometric(Beta1, xs, n)
             s2 == GeometricSquares(Beta2, xs, n)
  <2>1. OrZero(m) = Times(c1, s1) /\ OrZero(v) = Times(c2, s2)
    BY <1>7 DEF MomentsAfter
  <2>2. /\ NextMoment(m, g) = Plus(Times(Beta1, OrZero(m)), Times(c1, g))
        /\ NextSecond(v, g) = Plus(Times(Beta2, OrZero(v)), Times(c2, Square(g)))
    BY <1>7 DEF NextMoment, NextSecond
  <2>3. /\ c1 \in Elements /\ c2 \in Elements /\ Beta1 \in Elements /\ Beta2 \in Elements
        /\ s1 \in Floats /\ s2 \in Floats
    BY <1>5, ConstantsAreElements
  <2>4. /\ Geometric(Beta1, ys, n + 1) = Plus(Times(Beta1, s1), g)
        /\ GeometricSquares(Beta2, ys, n + 1) = Plus(Times(Beta2, s2), Square(g))
    BY <1>5, <2>3
  <2> HIDE DEF c1, c2, s1, s2
  <2>5. NextMoment(m, g) = Times(c1, Geometric(Beta1, ys, n + 1))
    <3>1. Plus(Times(Beta1, Times(c1, s1)), Times(c1, g))
             = Times(c1, Plus(Times(Beta1, s1), g))
      BY <1>2, <2>3, NextOfMultiple
    <3>2. QED
      BY <2>1, <2>2, <2>4, <3>1
  <2>6. NextSecond(v, g) = Times(c2, GeometricSquares(Beta2, ys, n + 1))
    <3>1. Plus(Times(Beta2, Times(c2, s2)), Times(c2, Square(g)))
             = Times(c2, Plus(Times(Beta2, s2), Square(g)))
      BY <1>2, <2>3, NextOfMultiple
    <3>2. QED
      BY <2>1, <2>2, <2>4, <3>1
  <2>7. NextMoment(m, g) \in Floats /\ NextSecond(v, g) \in Floats
    <3>1. c1 \in Floats /\ c2 \in Floats /\ Beta1 \in Floats /\ Beta2 \in Floats
      BY <2>3 DEF Floats
    <3>2. /\ Times(Beta1, OrZero(m)) \in Floats /\ Times(c1, g) \in Floats
          /\ Times(Beta2, OrZero(v)) \in Floats /\ Times(c2, Square(g)) \in Floats
      BY <1>2, <1>3, <3>1, ArithmeticInFloats
    <3>3. QED
      BY <2>2, <3>2, ArithmeticInFloats
  <2>8. MomentsAfter(kind, NextMoment(m, g), NextSecond(v, g), ys, n + 1)
    BY <1>4, <1>7, <2>5, <2>6, <2>7 DEF MomentsAfter, c1, c2
  <2>9. QED
    BY <1>4, <2>7, <2>8
<1>8. CASE kind \in {"momentum", "sgd with momentum"}
  <2>1. OrZero(m) = Geometric(Momentum, xs, n)
    BY <1>8 DEF MomentsAfter
  <2>2. NextMoment(m, g) = Plus(Times(Momentum, OrZero(m)), g) /\ NextSecond(v, g) = v
    BY <1>8 DEF NextMoment, NextSecond
  <2>3. Momentum \in Elements /\ Momentum \in Floats
    BY ConstantsAreElements DEF Floats
  <2>4. NextMoment(m, g) = Geometric(Momentum, ys, n + 1)
    BY <1>5, <2>1, <2>2, <2>3
  <2>5. NextMoment(m, g) \in Floats
    BY <1>2, <1>3, <2>2, <2>3, ArithmeticInFloats
  <2>6. MomentsAfter(kind, NextMoment(m, g), NextSecond(v, g), ys, n + 1)
    BY <1>4, <1>8, <2>4, <2>5 DEF MomentsAfter
  <2>7. QED
    BY <1>4, <1>8, <2>2, <2>5, <2>6
<1>9. QED
  BY <1>6, <1>7, <1>8 DEF AllKinds

\* The direction that step() computes is the one of the textbook.
LEMMA DirectionIs ==
    ASSUME kind \in AllKinds, NEW n \in Nat, NEW ys,
           NEW m, NEW v, kind # "sgd" => m \in Floats, kind = "adam" => v \in Floats,
           MomentsAfter(kind, m, v, ys, n),
           kind = "adam" => t = n
    PROVE  Direction(m, v, ys[n].g) = DirectionOf(kind, ys, n)
<1>1. \A x \in Floats : OrZero(x) = x
  BY ConstantsAreElements DEF OrZero
<1>2. CASE kind = "sgd"
  BY <1>2 DEF Direction, DirectionOf
<1>3. CASE kind = "adam"
  <2>1. /\ m = Times(Minus(1, Beta1), Geometric(Beta1, ys, n))
        /\ v = Times(Minus(1, Beta2), GeometricSquares(Beta2, ys, n))
    BY <1>1, <1>3 DEF MomentsAfter
  <2>2. QED
    BY <1>3, <2>1 DEF Direction, DirectionOf, Correction
<1>4. CASE kind \in {"momentum", "sgd with momentum"}
  <2>1. m = Geometric(Momentum, ys, n)
    BY <1>1, <1>4 DEF MomentsAfter
  <2>2. QED
    BY <1>4, <2>1 DEF Direction, DirectionOf
<1>5. QED
  BY <1>2, <1>3, <1>4 DEF AllKinds

LEMMA MovedNext ==
    ASSUME NEW kd, NEW n \in Nat, NEW from \in 0 .. n, NEW xs, NEW ys,
           \A j \in 1 .. n : ys[j] = xs[j],
           \A j \in 1 .. n + 1 : ys[j] \in Moves
    PROVE  /\ Moved(kd, xs, from, n) \in Floats
           /\ Moved(kd, ys, from, n + 1) = Plus(Moved(kd, xs, from, n), MoveOf(kd, ys, n + 1))
<1> DEFINE S == from + 1 .. n
           v == [j \in S |-> MoveOf(kd, xs, j)]
           w == [j \in from + 1 .. n + 1 |-> MoveOf(kd, ys, j)]
<1>1. /\ from + 1 .. n + 1 = S \cup {n + 1} /\ n + 1 \notin S
      /\ IsFiniteSet(S)
      /\ \A j \in 1 .. n : j \in 1 .. n + 1
      /\ n + 1 \in Nat /\ n + 1 > 0
  <2>1. from \in Int /\ from + 1 \in Int /\ 0 <= from /\ from <= n
    OBVIOUS
  <2>2. IsFiniteSet(S)
    BY <2>1, FS_Interval
  <2>3. from + 1 .. n + 1 = S \cup {n + 1} /\ n + 1 \notin S
    BY <2>1
  <2>4. QED
    BY <2>2, <2>3
<1>2. ASSUME NEW j \in S
      PROVE  MoveOf(kd, xs, j) = MoveOf(kd, ys, j) /\ MoveOf(kd, ys, j) \in Floats
  <2>1. j \in Nat /\ j > 0 /\ j \in 1 .. j /\ \A l \in 1 .. j : l \in 1 .. n
    OBVIOUS
  <2>2. /\ \A l \in 1 .. j : xs[l] = ys[l]
        /\ \A l \in 1 .. j : ys[l] \in Moves
    BY <1>1, <2>1
  <2>3. QED
    BY <2>1, <2>2, DirectionSame, MoveType
<1>3. MoveOf(kd, ys, n + 1) \in Floats
  BY <1>1, MoveType
<1>4. v \in [S -> Floats] /\ w \in [S \cup {n + 1} -> Floats] /\ \A j \in S : w[j] = v[j]
  BY <1>1, <1>2, <1>3
<1>5. w[n + 1] = MoveOf(kd, ys, n + 1)
  BY <1>1
<1> HIDE DEF S, v, w
<1>6. Summed(w, S \cup {n + 1}) = Plus(Summed(v, S), w[n + 1]) /\ Summed(v, S) \in Floats
  BY <1>1, <1>4, SummedAdd, SummedInFloats
<1>7. Moved(kd, xs, from, n) = Summed(v, S)
  BY DEF Moved, v, S
<1>8. Moved(kd, ys, from, n + 1) = Summed(w, S \cup {n + 1})
  BY <1>1 DEF Moved, w
<1>9. QED
  BY <1>5, <1>6, <1>7, <1>8

LEMMA WeightFollows ==
    ASSUME NEW kd, NEW n \in Nat, NEW xs, NEW ys, NEW w \in Floats,
           NEW o \in [weight : Floats, from : Nat], o.from <= n,
           Follows(kd, w, o, xs, n),
           \A j \in 1 .. n : ys[j] = xs[j],
           \A j \in 1 .. n + 1 : ys[j] \in Moves,
           NEW d, kd = "adam" /\ ys[n + 1].t = n + 1 => d = DirectionOf(kd, ys, n + 1),
           kd # "adam" => d = DirectionOf(kd, ys, n + 1)
    PROVE  Follows(kd, Minus(w, Times(ys[n + 1].rate, d)), o, ys, n + 1)
<1> SUFFICES ASSUME kd = "adam" => \A j \in 1 .. n + 1 : ys[j].t = j
             PROVE  Minus(w, Times(ys[n + 1].rate, d))
                       = Minus(o.weight, Moved(kd, ys, o.from, n + 1))
  BY DEF Follows
<1>1. n + 1 \in 1 .. n + 1 /\ \A j \in 1 .. n : j \in 1 .. n + 1
  OBVIOUS
<1>2. kd = "adam" => \A j \in 1 .. n : xs[j].t = j
  BY <1>1
<1>3. w = Minus(o.weight, Moved(kd, xs, o.from, n))
  BY <1>2 DEF Follows
<1>4. Times(ys[n + 1].rate, d) = MoveOf(kd, ys, n + 1)
  BY <1>1 DEF MoveOf
<1>5. MoveOf(kd, ys, n + 1) \in Floats
  BY MoveType
<1>6. o.from \in 0 .. n /\ o.weight \in Floats
  OBVIOUS
<1>7. /\ Moved(kd, xs, o.from, n) \in Floats
      /\ Moved(kd, ys, o.from, n + 1)
            = Plus(Moved(kd, xs, o.from, n), MoveOf(kd, ys, n + 1))
  BY <1>6, MovedNext
<1>8. QED
  BY <1>3, <1>4, <1>5, <1>6, <1>7, MinusTwice

-----------------------------------------------------------------------------
(* The types, and where the weights are, in every state of the loop. *)

Checkpoints == [weight : [Params -> Floats], rate : Elements]

\* The variables that TypeOK leaves out; and a step is begun only below the bound.
MoreTypes ==
    /\ own \in [Params -> Floats]
    /\ disk # NoTensor => disk \in Checkpoints
    /\ pc \in {"zeroed", "evaluated", "differentiated"} => t < MaxSteps
    /\ taken \in [Params -> Seq(Moves)]
    /\ origin \in [Params -> [weight : Floats, from : Nat]]
    /\ \A p \in Params : origin[p].from <= Len(taken[p])

TypeInv == TypeOK /\ MoreTypes

\* The moments are those of the moves taken, and the weights where they lead.
FollowInv ==
    \A p \in Params :
       /\ MomentsAfter(kind, moment[p], second[p], taken[p], Len(taken[p]))
       /\ Follows(kind, weight[p], origin[p], taken[p], Len(taken[p]))

LEMMA TypeInit == Init => TypeInv
<1> SUFFICES ASSUME Init PROVE TypeInv
  OBVIOUS
<1>1. /\ Start \in Floats /\ 0 \in Floats /\ RateOne \in Elements
      /\ MaxSteps \in Nat /\ MaxEvents \in Nat
      /\ program \in Programs /\ list \in Seq(Params)
  BY ElementFacts, TrainingAssumption DEF Init, Floats, list
<1>2. 1 \in 1 .. Len(list) + 1
  BY <1>1
<1>3. TypeOK
  <2>1. /\ weight \in [Params -> Floats]
        /\ requiresGrad \in [Params -> BOOLEAN]
        /\ grad \in [Params -> Floats \cup {NoTensor}]
        /\ moment \in [Params -> Floats \cup {NoTensor}]
        /\ second \in [Params -> Floats \cup {NoTensor}]
    BY <1>1 DEF Init
  <2>2. /\ here = {} /\ lossOf = {} /\ root = {} /\ shared = {}
        /\ failed \in BOOLEAN /\ cached \in BOOLEAN
        /\ pc = "idle" /\ i = 1 /\ t = 0 /\ events = 0 /\ rate = RateOne
    BY DEF Init
  <2>3. t \in 0 .. MaxSteps /\ events \in 0 .. MaxEvents
    BY <1>1, <2>2
  <2>4. QED
    BY <1>1, <1>2, <2>1, <2>2, <2>3 DEF TypeOK
<1>4. MoreTypes
  <2>1. taken \in [Params -> Seq(Moves)] /\ \A p \in Params : taken[p] = <<>>
    BY DEF Init
  <2>2. origin \in [Params -> [weight : Floats, from : Nat]]
        /\ \A p \in Params : origin[p].from = 0
    BY <1>1 DEF Init, Unmoved
  <2>3. \A p \in Params : origin[p].from <= Len(taken[p])
    BY <2>1, <2>2
  <2>4. QED
    BY <1>1, <2>1, <2>2, <2>3 DEF Init, MoreTypes
<1>5. QED
  BY <1>3, <1>4 DEF TypeInv

\* A step does not leave the list.
LEMMA ListType ==
    ASSUME program \in Programs
    PROVE  list \in Seq(Params) /\ Len(list) \in Nat /\ kind \in AllKinds
BY TrainingAssumption DEF list, kind

\* What a step of the optimizer computes is a number.
LEMMA DirectionType ==
    ASSUME kind \in AllKinds, t \in Nat, NEW g \in Floats, NEW m, NEW v,
           kind # "sgd" => m \in Floats, kind = "adam" => v \in Floats
    PROVE  Direction(m, v, g) \in Floats
<1>1. CASE kind = "sgd"
  BY <1>1 DEF Direction
<1>2. CASE kind = "adam"
  <2>1. \A b \in Elements : Correction(b, t) \in Floats
    <3>1. \A b \in Elements : Power(b, t) \in Elements
      BY PowerIs
    <3>2. QED
      BY <3>1, ArithmeticOfElements, ElementFacts DEF Correction, Floats
  <2>2. Beta1 \in Elements /\ Beta2 \in Elements /\ Eps \in Floats
    BY ConstantsAreElements DEF Floats
  <2>3. Over(m, Correction(Beta1, t)) \in Floats /\ Over(v, Correction(Beta2, t)) \in Floats
    BY <1>2, <2>1, <2>2, OverInFloats
  <2>4. RootOf(Over(v, Correction(Beta2, t))) \in Floats
    BY <2>3, ConstantsAreElements
  <2>5. Plus(RootOf(Over(v, Correction(Beta2, t))), Eps) \in Floats
    BY <2>2, <2>4, ArithmeticInFloats
  <2>6. Direction(m, v, g) = Over(Over(m, Correction(Beta1, t)),
                                  Plus(RootOf(Over(v, Correction(Beta2, t))), Eps))
    BY <1>2 DEF Direction
  <2>7. QED
    BY <2>3, <2>5, <2>6, OverInFloats
<1>3. CASE kind \in {"momentum", "sgd with momentum"}
  BY <1>3 DEF Direction
<1>4. QED
  BY <1>1, <1>2, <1>3 DEF AllKinds

\* A turn of step() that moves its parameter: the parameter, the move, and
\* what becomes of its weight and moments.
MoveTaken(p, n, g, e) ==
    /\ p \in Params /\ n \in Nat /\ e \in Moves
    /\ taken' = [taken EXCEPT ![p] = Append(@, e)]
    /\ moment' = [moment EXCEPT ![p] = NextMoment(@, g)]
    /\ second' = [second EXCEPT ![p] = NextSecond(@, g)]
    /\ weight' = [weight EXCEPT ![p] =
                     Minus(@, Times(rate, Direction(moment'[p], second'[p], g)))]
    /\ taken'[p] \in Seq(Moves) /\ Len(taken'[p]) = n + 1
    /\ \A j \in 1 .. n : taken'[p][j] = taken[p][j]
    /\ \A j \in 1 .. n + 1 : taken'[p][j] \in Moves
    /\ taken'[p][n + 1] = e

LEMMA MoveIs ==
    ASSUME TrainingInv, TypeInv, StepMoves, NEW p, p = list[i],
           NEW n, n = Len(taken[p]), NEW g, g = Decayed(grad[p], weight[p]),
           NEW e, e = [g |-> g, rate |-> rate, t |-> t]
    PROVE  MoveTaken(p, n, g, e)
<1>1. program \in Programs
  BY DEF TypeInv, TypeOK
<1>2. i \in 1 .. Len(list)
  BY <1>1, ListType DEF StepMoves, TypeInv, TypeOK
<1>3. p \in Params /\ p \in Listed
  BY <1>1, <1>2, ListType DEF Listed
<1>4. grad[p] # NoTensor /\ grad[p] = own[p]
  BY <1>3 DEF StepMoves, TrainingInv, StepsUseOneLoss
<1>5. grad[p] \in Floats /\ weight[p] \in Floats /\ rate \in Elements /\ t \in Nat
  BY <1>3, <1>4, TrainingAssumption DEF TypeInv, TypeOK
<1>6. g \in Floats
  <2>1. WeightDecay \in Floats
    BY ConstantsAreElements DEF Floats
  <2>2. QED
    BY <1>5, <2>1, ArithmeticInFloats DEF Decayed
<1>7. e \in Moves
  BY <1>5, <1>6 DEF Moves
<1>8. taken' = [taken EXCEPT ![p] = Append(@, e)]
  BY <1>4 DEF StepMoves
<1>9. /\ moment' = [moment EXCEPT ![p] = NextMoment(@, g)]
      /\ second' = [second EXCEPT ![p] = NextSecond(@, g)]
      /\ weight' = [weight EXCEPT ![p] =
           Minus(@, Times(rate, Direction(moment'[p], second'[p], g)))]
  BY DEF StepMoves
<1>10. taken[p] \in Seq(Moves) /\ taken'[p] = Append(taken[p], e)
  BY <1>3, <1>8 DEF TypeInv, MoreTypes
<1>11. n \in Nat /\ taken'[p] \in Seq(Moves) /\ Len(taken'[p]) = n + 1
       /\ \A j \in 1 .. n : taken'[p][j] = taken[p][j]
       /\ taken'[p][n + 1] = e
  BY <1>7, <1>10
<1>12. \A j \in 1 .. n + 1 : taken'[p][j] \in Moves
  BY <1>11
<1>13. QED
  BY <1>3, <1>7, <1>8, <1>9, <1>11, <1>12 DEF MoveTaken

\* Moments and directions of the parameter that is moved.
LEMMA MoveFollows ==
    ASSUME TrainingInv, TypeInv, FollowInv, StepMoves, NEW p, p = list[i],
           NEW n, n = Len(taken[p]), NEW g, g = Decayed(grad[p], weight[p]),
           NEW e, e = [g |-> g, rate |-> rate, t |-> t],
           NEW d, d = Direction(moment'[p], second'[p], g)
    PROVE  /\ moment'[p] \in OptionalFloats /\ second'[p] \in OptionalFloats
           /\ d \in Floats
           /\ MomentsAfter(kind, moment'[p], second'[p], taken'[p], n + 1)
           /\ Follows(kind, Minus(weight[p], Times(rate, d)), origin[p], taken'[p], n + 1)
<1>1. MoveTaken(p, n, g, e)
  BY MoveIs
<1> DEFINE xs == taken[p]
           ys == taken'[p]
<1>2. /\ p \in Params /\ n \in Nat
      /\ \A j \in 1 .. n : ys[j] = xs[j]
      /\ \A j \in 1 .. n + 1 : ys[j] \in Moves
  BY <1>1 DEF MoveTaken
<1>3. /\ moment'[p] = NextMoment(moment[p], g) /\ second'[p] = NextSecond(second[p], g)
      /\ moment[p] \in OptionalFloats /\ second[p] \in OptionalFloats
  BY <1>1 DEF MoveTaken, TypeInv, TypeOK, OptionalFloats
<1>4. kind \in AllKinds /\ t \in Nat
  BY ListType, TrainingAssumption DEF TypeInv, TypeOK
<1>5. ys[n + 1].g = g /\ ys[n + 1].rate = rate /\ ys[n + 1].t = t /\ g \in Floats
  BY <1>1 DEF MoveTaken, Moves
<1>6. MomentsAfter(kind, moment[p], second[p], xs, n) /\ Follows(kind, weight[p], origin[p], xs, n)
  BY <1>2 DEF FollowInv
<1>7. /\ weight[p] \in Floats /\ origin[p] \in [weight : Floats, from : Nat]
      /\ origin[p].from <= n
  BY <1>2 DEF TypeInv, TypeOK, MoreTypes
<1> HIDE DEF xs, ys
<1>8. /\ moment'[p] \in OptionalFloats /\ second'[p] \in OptionalFloats
      /\ kind # "sgd" => moment'[p] \in Floats
      /\ kind = "adam" => second'[p] \in Floats
      /\ MomentsAfter(kind, moment'[p], second'[p], ys, n + 1)
  <2> DEFINE m == moment[p]
             v == second[p]
  <2>1. m \in OptionalFloats /\ v \in OptionalFloats /\ MomentsAfter(kind, m, v, xs, n)
    BY <1>3, <1>6
  <2> HIDE DEF m, v
  <2>2. /\ NextMoment(m, g) \in OptionalFloats
        /\ NextSecond(v, g) \in OptionalFloats
        /\ kind # "sgd" => NextMoment(m, g) \in Floats
        /\ kind = "adam" => NextSecond(v, g) \in Floats
        /\ MomentsAfter(kind, NextMoment(m, g), NextSecond(v, g), ys, n + 1)
    BY <1>2, <1>4, <1>5, <2>1, MomentsFollow
  <2>3. QED
    BY <1>3, <2>2 DEF m, v
<1>9. d \in Floats
  BY <1>4, <1>5, <1>8, DirectionType
<1>10. (kind = "adam" => t = n + 1) => d = DirectionOf(kind, ys, n + 1)
  <2>1. n + 1 \in Nat
    BY <1>2
  <2>2. QED
    BY <1>4, <1>5, <1>8, <2>1, DirectionIs
<1>11. Follows(kind, Minus(weight[p], Times(ys[n + 1].rate, d)), origin[p], ys, n + 1)
  <2>1. /\ kind = "adam" /\ ys[n + 1].t = n + 1 => d = DirectionOf(kind, ys, n + 1)
        /\ kind # "adam" => d = DirectionOf(kind, ys, n + 1)
    BY <1>5, <1>10
  <2> DEFINE w == weight[p]
             o == origin[p]
             k == kind
  <2>2. /\ n \in Nat /\ w \in Floats /\ o \in [weight : Floats, from : Nat]
        /\ o.from <= n /\ Follows(k, w, o, xs, n)
    BY <1>2, <1>6, <1>7
  <2>3. /\ k = "adam" /\ ys[n + 1].t = n + 1 => d = DirectionOf(k, ys, n + 1)
        /\ k # "adam" => d = DirectionOf(k, ys, n + 1)
    BY <2>1
  <2>4. (\A j \in 1 .. n : ys[j] = xs[j]) /\ (\A j \in 1 .. n + 1 : ys[j] \in Moves)
    BY <1>2
  <2> HIDE DEF w, o, k
  <2>5. Follows(k, Minus(w, Times(ys[n + 1].rate, d)), o, ys, n + 1)
    BY <2>2, <2>3, <2>4, WeightFollows
  <2>6. QED
    BY <2>5 DEF w, o, k
<1>12. QED
  BY <1>5, <1>8, <1>9, <1>11 DEF ys

WeightsInv == TrainingInv /\ TypeInv /\ FollowInv

\* The steps that write no weight.
LEMMA NothingMovedStep ==
    ASSUME FollowInv, UNCHANGED <<weight, moment, second, taken, origin, program>>
    PROVE  FollowInv'
BY DEF FollowInv, kind

LEMMA MovedNone == ASSUME NEW kd, NEW xs, NEW n \in Nat PROVE Moved(kd, xs, n, n) = 0
<1> DEFINE S == n + 1 .. n
           v == [j \in S |-> MoveOf(kd, xs, j)]
<1>1. S = {} /\ DOMAIN v = S
  OBVIOUS
<1> HIDE DEF S, v
<1>2. Summed(v, S) = 0
  BY <1>1, SummedEmpty
<1>3. QED
  BY <1>2 DEF Moved, v, S

\* A parameter that was not moved is where it was.
LEMMA NewParameterFollows ==
    ASSUME NEW kd, NEW w \in Floats, NEW o, o.from = 0, o.weight = w
    PROVE  /\ MomentsAfter(kd, NoTensor, NoTensor, <<>>, 0)
           /\ Follows(kd, w, o, <<>>, 0)
<1>1. OrZero(NoTensor) = 0
  BY DEF OrZero
<1>2. MomentsAfter(kd, NoTensor, NoTensor, <<>>, 0)
  BY <1>1, GeometricZero, NothingMoved, ConstantsAreElements DEF MomentsAfter
<1>3. Moved(kd, <<>>, 0, 0) = 0
  BY MovedNone
<1>4. QED
  BY <1>2, <1>3, NothingMoved DEF Follows

\* The tensors and nodes of a forward pass.
LEMMA ForwardTypes ==
    ASSUME TypeInv, NEW used \in Uses, ModelForward(used), requiresGrad' = requiresGrad
    PROVE  /\ grad' \in [Params -> Floats \cup {NoTensor}]
           /\ here' \subseteq Params /\ used \subseteq Params
           /\ shared' \subseteq {p \in here' : requiresGrad'[p] /\ grad'[p] # NoTensor}
<1> DEFINE R == Registered(used)
<1>1. used \subseteq Params /\ R \subseteq used /\ \A p \in R : requiresGrad[p]
  BY TrainingAssumption DEF Registered
<1>2. /\ grad' = [p \in Params |-> IF p \in R /\ grad[p] = NoTensor THEN 0 ELSE grad[p]]
      /\ here' = here \cup R /\ shared' = shared \cup R
  BY DEF ModelForward, Initialised
<1>3. 0 \in Floats /\ 0 # NoTensor
  BY ElementFacts, NoTensorIsNotZero DEF Floats
<1> HIDE DEF R
<1>4. grad' \in [Params -> Floats \cup {NoTensor}]
  BY <1>2, <1>3 DEF TypeInv, TypeOK
<1>5. \A p \in Params : /\ grad[p] # NoTensor => grad'[p] # NoTensor
                        /\ p \in R => grad'[p] # NoTensor
  BY <1>2, <1>3
<1>6. here \subseteq Params
      /\ shared \subseteq {p \in here : requiresGrad[p] /\ grad[p] # NoTensor}
  BY DEF TypeInv, TypeOK
<1>7. QED
  BY <1>1, <1>2, <1>4, <1>5, <1>6

\* The steps that leave the tensors and the moments as they are.
SameTensors == UNCHANGED <<weight, requiresGrad, grad, here, shared, lossOf, moment, second,
                           own, taken, origin, program>>

LEMMA SameTensorsTypes ==
    ASSUME TypeInv, SameTensors,
           failed' \in BOOLEAN, root' \subseteq Params, cached' \in BOOLEAN, rate' \in Elements,
           pc' \in {"idle", "zeroed", "evaluated", "differentiated", "stepping"},
           i' \in 1 .. Len(list) + 1, t' \in 0 .. MaxSteps, events' \in 0 .. MaxEvents,
           pc' \in {"zeroed", "evaluated", "differentiated"} => t' < MaxSteps,
           disk' # NoTensor => disk' \in Checkpoints
    PROVE  TypeInv'
<1>1. list' = list
  BY DEF SameTensors, list
<1>2. TypeOK'
  BY <1>1 DEF TypeInv, TypeOK, SameTensors
<1>3. MoreTypes'
  BY DEF TypeInv, MoreTypes, SameTensors
<1>4. QED
  BY <1>2, <1>3 DEF TypeInv

LEMMA BoundsAreNumbers == MaxSteps \in Nat /\ MaxEvents \in Nat
BY TrainingAssumption

LEMMA WeightsStep == WeightsInv /\ [Next]_vars => WeightsInv'
<1> SUFFICES ASSUME WeightsInv, [Next]_vars PROVE WeightsInv'
  OBVIOUS
<1>1. TrainingInv /\ TypeInv /\ FollowInv /\ TrainingInv'
  BY TrainingStep DEF WeightsInv
<1> SUFFICES TypeInv' /\ FollowInv'
  BY <1>1 DEF WeightsInv
<1>2. list \in Seq(Params) /\ Len(list) \in Nat /\ i \in 1 .. Len(list) + 1
  BY <1>1, ListType DEF TypeInv, TypeOK
<1> USE DEF leaves, graph, optimizer, history
<1>3. CASE ZeroGrad
  <2>1. FollowInv'
    BY <1>1, <1>3, NothingMovedStep DEF ZeroGrad
  <2>2. grad' \in [Params -> Floats \cup {NoTensor}]
        /\ \A p \in Params : grad[p] # NoTensor => grad'[p] # NoTensor
    BY <1>1, <1>3, ElementFacts, NoTensorIsNotZero
       DEF ZeroGrad, Zeroed, TypeInv, TypeOK, Floats
  <2>3. list' = list
    BY <1>3 DEF ZeroGrad, list
  <2>4. TypeOK'
    BY <1>1, <1>3, <2>2, <2>3 DEF ZeroGrad, TypeInv, TypeOK
  <2>5. MoreTypes'
    BY <1>1, <1>3 DEF ZeroGrad, TypeInv, MoreTypes
  <2>6. QED
    BY <2>1, <2>4, <2>5 DEF TypeInv
<1>4. CASE JitReturnsCached
  <2>1. FollowInv'
    BY <1>1, <1>4, NothingMovedStep DEF JitReturnsCached
  <2>2. TypeInv'
    BY <1>1, <1>4, SameTensorsTypes
       DEF JitReturnsCached, SameTensors, TypeInv, TypeOK, MoreTypes
  <2>3. QED
    BY <2>1, <2>2
<1>5. ASSUME NEW used \in Uses, Forward(used) PROVE TypeInv' /\ FollowInv'
  <2>1. FollowInv'
    BY <1>1, <1>5, NothingMovedStep DEF Forward
  <2>2. list' = list
    BY <1>5 DEF Forward, list
  <2>3. /\ grad' \in [Params -> Floats \cup {NoTensor}]
        /\ here' \subseteq Params /\ used \subseteq Params
        /\ shared' \subseteq {p \in here' : requiresGrad'[p] /\ grad'[p] # NoTensor}
    BY <1>1, <1>5, ForwardTypes DEF Forward
  <2>4. TypeOK'
    BY <1>1, <1>5, <2>2, <2>3 DEF Forward, TypeInv, TypeOK
  <2>5. MoreTypes'
    BY <1>1, <1>5 DEF Forward, TypeInv, MoreTypes
  <2>6. QED
    BY <2>1, <2>4, <2>5 DEF TypeInv
<1>6. ASSUME NEW used \in Uses, Evaluate(used) PROVE TypeInv' /\ FollowInv'
  <2>1. FollowInv'
    BY <1>1, <1>6, NothingMovedStep DEF Evaluate
  <2>2. list' = list
    BY <1>6 DEF Evaluate, list
  <2>3. /\ grad' \in [Params -> Floats \cup {NoTensor}]
        /\ here' \subseteq Params /\ used \subseteq Params
        /\ shared' \subseteq {p \in here' : requiresGrad'[p] /\ grad'[p] # NoTensor}
    BY <1>1, <1>6, ForwardTypes DEF Evaluate
  <2>4. events' \in 0 .. MaxEvents
    BY <1>1, <1>6, BoundsAreNumbers DEF Evaluate, Event, TypeInv, TypeOK
  <2>5. TypeOK'
    BY <1>1, <1>6, <2>2, <2>3, <2>4 DEF Evaluate, TypeInv, TypeOK
  <2>6. MoreTypes'
    BY <1>1, <1>6 DEF Evaluate, TypeInv, MoreTypes
  <2>7. QED
    BY <2>1, <2>5, <2>6 DEF TypeInv
<1>7. ASSUME NEW gs \in Gradients, Backward(gs) PROVE TypeInv' /\ FollowInv'
  <2>1. FollowInv'
    BY <1>1, <1>7, NothingMovedStep DEF Backward
  <2>2. list' = list
    BY <1>7 DEF Backward, list
  <2>3. \A p \in Params : gs[p] \in Floats
    BY TrainingAssumption DEF Floats
  <2>4. grad' \in [Params -> Floats \cup {NoTensor}] /\ own' \in [Params -> Floats]
    BY <1>1, <1>7, <2>3, ElementFacts DEF Backward, Assigned, TypeInv, TypeOK, Floats
  <2>5. TypeOK'
    BY <1>1, <1>7, <2>2, <2>4 DEF Backward, StartsFrom, TypeInv, TypeOK
  <2>6. MoreTypes'
    BY <1>1, <1>7, <2>4 DEF Backward, TypeInv, MoreTypes
  <2>7. QED
    BY <2>1, <2>5, <2>6 DEF TypeInv
<1>8. CASE BackwardThrows
  <2>1. FollowInv'
    BY <1>1, <1>8, NothingMovedStep DEF BackwardThrows
  <2>2. events' \in 0 .. MaxEvents /\ failed' \in BOOLEAN /\ root' \subseteq Params
    BY <1>1, <1>8, BoundsAreNumbers DEF BackwardThrows, StartsFrom, TypeInv, TypeOK
  <2>3. TypeInv'
    BY <1>1, <1>8, <2>2, SameTensorsTypes
       DEF BackwardThrows, SameTensors, TypeInv, TypeOK, MoreTypes
  <2>4. QED
    BY <2>1, <2>3
<1>9. CASE StepBegins
  <2>1. FollowInv'
    BY <1>1, <1>9, NothingMovedStep DEF StepBegins
  <2>2. i' \in 1 .. Len(list) + 1
    BY <1>2, <1>9 DEF StepBegins
  <2>3. t' \in 0 .. MaxSteps
    BY <1>1, <1>9, BoundsAreNumbers DEF StepBegins, TypeInv, TypeOK, MoreTypes
  <2>4. TypeInv'
    BY <1>1, <1>9, <2>2, <2>3, SameTensorsTypes
       DEF StepBegins, SameTensors, TypeInv, TypeOK, MoreTypes
  <2>5. QED
    BY <2>1, <2>4
<1>10. CASE StepMoves
  <2> DEFINE p == list[i]
             n == Len(taken[p])
             g == Decayed(grad[p], weight[p])
             e == [g |-> g, rate |-> rate, t |-> t]
             d == Direction(moment'[p], second'[p], g)
  <2>1. MoveTaken(p, n, g, e)
    BY <1>1, <1>10, MoveIs
  <2>2. /\ moment'[p] \in OptionalFloats /\ second'[p] \in OptionalFloats
        /\ d \in Floats
        /\ MomentsAfter(kind, moment'[p], second'[p], taken'[p], n + 1)
        /\ Follows(kind, Minus(weight[p], Times(rate, d)), origin[p], taken'[p], n + 1)
    BY <1>1, <1>10, MoveFollows
  <2>3. /\ weight' = [weight EXCEPT ![p] = Minus(@, Times(rate, d))]
        /\ p \in Params /\ n \in Nat
        /\ taken' = [taken EXCEPT ![p] = Append(@, e)]
        /\ moment' = [moment EXCEPT ![p] = NextMoment(@, g)]
        /\ second' = [second EXCEPT ![p] = NextSecond(@, g)]
        /\ taken'[p] \in Seq(Moves) /\ Len(taken'[p]) = n + 1
    BY <2>1 DEF MoveTaken
  <2> HIDE DEF d, e, g
  <2>4. /\ weight \in [Params -> Floats] /\ moment \in [Params -> OptionalFloats]
        /\ second \in [Params -> OptionalFloats] /\ taken \in [Params -> Seq(Moves)]
        /\ rate \in Floats
    BY <1>1 DEF TypeInv, TypeOK, MoreTypes, OptionalFloats, Floats
  <2>5. Minus(weight[p], Times(rate, d)) \in Floats
    BY <2>2, <2>3, <2>4, ArithmeticInFloats
  <2>6. /\ weight' \in [Params -> Floats] /\ moment' \in [Params -> OptionalFloats]
        /\ second' \in [Params -> OptionalFloats] /\ taken' \in [Params -> Seq(Moves)]
        /\ weight'[p] = Minus(weight[p], Times(rate, d))
        /\ \A q \in Params \ {p} : /\ weight'[q] = weight[q] /\ moment'[q] = moment[q]
                                   /\ second'[q] = second[q] /\ taken'[q] = taken[q]
    <3>1. weight' \in [Params -> Floats] /\ weight'[p] = Minus(weight[p], Times(rate, d))
          /\ \A q \in Params \ {p} : weight'[q] = weight[q]
      BY <2>3, <2>4, <2>5
    <3>2. moment' \in [Params -> OptionalFloats]
          /\ \A q \in Params \ {p} : moment'[q] = moment[q]
      BY <2>2, <2>3, <2>4
    <3>3. second' \in [Params -> OptionalFloats]
          /\ \A q \in Params \ {p} : second'[q] = second[q]
      BY <2>2, <2>3, <2>4
    <3>4. taken' \in [Params -> Seq(Moves)] /\ \A q \in Params \ {p} : taken'[q] = taken[q]
      BY <2>3, <2>4
    <3>5. QED
      BY <3>1, <3>2, <3>3, <3>4
  <2>7. /\ list' = list /\ kind' = kind /\ origin' = origin
        /\ pc = "stepping" /\ pc' = pc
        /\ UNCHANGED <<requiresGrad, grad, here, shared, lossOf, root, failed, rate, t, program,
                       own, disk, cached, events>>
    BY <1>10 DEF StepMoves, list, kind
  <2>8. i' \in 1 .. Len(list) + 1
    BY <1>2, <1>10 DEF StepMoves
  <2> HIDE DEF p, n
  <2>9. TypeOK'
    BY <1>1, <2>6, <2>7, <2>8 DEF TypeInv, TypeOK, OptionalFloats
  <2>10. MoreTypes'
    <3>1. \A q \in Params : origin'[q].from <= Len(taken'[q])
      <4> SUFFICES ASSUME NEW q \in Params PROVE origin[q].from <= Len(taken'[q])
        BY <2>7
      <4>1. CASE q = p
        <5>1. origin[p].from <= n /\ origin[p].from \in Nat
          BY <1>1, <2>3 DEF TypeInv, MoreTypes, n
        <5>2. QED
          BY <2>3, <4>1, <5>1
      <4>2. CASE q # p
        BY <1>1, <2>6, <4>2 DEF TypeInv, MoreTypes
      <4>3. QED
        BY <4>1, <4>2
    <3>2. QED
      BY <1>1, <2>6, <2>7, <3>1 DEF TypeInv, MoreTypes
  <2>11. FollowInv'
    <3> SUFFICES ASSUME NEW q \in Params
                 PROVE  /\ MomentsAfter(kind, moment'[q], second'[q], taken'[q], Len(taken'[q]))
                        /\ Follows(kind, weight'[q], origin[q], taken'[q], Len(taken'[q]))
      BY <2>7 DEF FollowInv
    <3>1. CASE q = p
      BY <2>2, <2>3, <2>6, <3>1
    <3>2. CASE q # p
      BY <1>1, <2>6, <3>2 DEF FollowInv
    <3>3. QED
      BY <3>1, <3>2
  <2>12. QED
    BY <2>9, <2>10, <2>11 DEF TypeInv
<1>11. CASE StepSkips
  <2>1. FollowInv'
    BY <1>1, <1>11, NothingMovedStep DEF StepSkips
  <2>2. i' \in 1 .. Len(list) + 1
    BY <1>2, <1>11 DEF StepSkips
  <2>3. TypeInv'
    BY <1>1, <1>11, <2>2, SameTensorsTypes
       DEF StepSkips, SameTensors, TypeInv, TypeOK, MoreTypes
  <2>4. QED
    BY <2>1, <2>3
<1>12. CASE StepReturns
  <2>1. FollowInv'
    BY <1>1, <1>12, NothingMovedStep DEF StepReturns
  <2>2. jit \in BOOLEAN
    BY <1>1, TrainingAssumption DEF TypeInv, TypeOK, jit
  <2>3. TypeInv'
    BY <1>1, <1>12, <2>2, SameTensorsTypes
       DEF StepReturns, SameTensors, TypeInv, TypeOK, MoreTypes
  <2>4. QED
    BY <2>1, <2>3
<1>13. ASSUME NEW p \in Params, Freeze(p) PROVE TypeInv' /\ FollowInv'
  <2>1. FollowInv'
    BY <1>1, <1>13, NothingMovedStep DEF Freeze
  <2>2. list' = list
    BY <1>13 DEF Freeze, list
  <2>3. events' \in 0 .. MaxEvents
    BY <1>1, <1>13, BoundsAreNumbers DEF Freeze, Event, TypeInv, TypeOK
  <2>4. /\ grad' \in [Params -> Floats \cup {NoTensor}]
        /\ requiresGrad' \in [Params -> BOOLEAN]
        /\ shared' \subseteq {q \in here' : requiresGrad'[q] /\ grad'[q] # NoTensor}
    BY <1>1, <1>13 DEF Freeze, AfterFreezing, TypeInv, TypeOK
  <2>5. TypeOK'
    BY <1>1, <1>13, <2>2, <2>3, <2>4 DEF Freeze, TypeInv, TypeOK
  <2>6. MoreTypes'
    BY <1>1, <1>13 DEF Freeze, TypeInv, MoreTypes
  <2>7. QED
    BY <2>1, <2>5, <2>6 DEF TypeInv
<1>14. ASSUME NEW p \in Params, Unfreeze(p) PROVE TypeInv' /\ FollowInv'
  <2>1. FollowInv'
    BY <1>1, <1>14, NothingMovedStep DEF Unfreeze
  <2>2. list' = list
    BY <1>14 DEF Unfreeze, list
  <2>3. events' \in 0 .. MaxEvents
    BY <1>1, <1>14, BoundsAreNumbers DEF Unfreeze, Event, TypeInv, TypeOK
  <2>4. /\ requiresGrad' \in [Params -> BOOLEAN]
        /\ \A q \in Params : requiresGrad[q] => requiresGrad'[q]
    BY <1>1, <1>14 DEF Unfreeze, TypeInv, TypeOK
  <2>5. TypeOK'
    BY <1>1, <1>14, <2>2, <2>3, <2>4 DEF Unfreeze, TypeInv, TypeOK
  <2>6. MoreTypes'
    BY <1>1, <1>14 DEF Unfreeze, TypeInv, MoreTypes
  <2>7. QED
    BY <2>1, <2>5, <2>6 DEF TypeInv
<1>15. ASSUME NEW r \in Rates, SetRate(r) PROVE TypeInv' /\ FollowInv'
  <2>1. FollowInv'
    BY <1>1, <1>15, NothingMovedStep DEF SetRate
  <2>2. events' \in 0 .. MaxEvents /\ rate' \in Elements
    BY <1>1, <1>15, BoundsAreNumbers, TrainingAssumption DEF SetRate, Event, TypeInv, TypeOK
  <2>3. TypeInv'
    BY <1>1, <1>15, <2>2, SameTensorsTypes
       DEF SetRate, SameTensors, TypeInv, TypeOK, MoreTypes
  <2>4. QED
    BY <2>1, <2>3
<1>16. ASSUME NEW entries, NEW w \in Loaded, LoadStateDict(entries, w)
       PROVE  TypeInv' /\ FollowInv'
  <2>1. w \in Floats
    BY TrainingAssumption DEF Floats
  <2>2. events' \in 0 .. MaxEvents
    BY <1>1, <1>16, BoundsAreNumbers DEF LoadStateDict, Event, TypeInv, TypeOK
  <2>3. \A p \in Params : Len(taken[p]) \in Nat
    BY <1>1 DEF TypeInv, MoreTypes
  <2>4. /\ weight' \in [Params -> Floats]
        /\ \A p \in Params : weight'[p] = IF p \in entries THEN w ELSE weight[p]
    BY <1>1, <1>16, <2>1 DEF LoadStateDict, TypeInv, TypeOK
  <2>5. /\ origin' \in [Params -> [weight : Floats, from : Nat]]
        /\ \A p \in Params : origin'[p] = IF p \in entries
                                          THEN [weight |-> w, from |-> Len(taken[p])]
                                          ELSE origin[p]
    BY <1>1, <1>16, <2>1, <2>3 DEF LoadStateDict, TypeInv, MoreTypes
  <2>6. list' = list /\ kind' = kind
    BY <1>16 DEF LoadStateDict, list, kind
  <2>7. TypeOK'
    BY <1>1, <1>16, <2>2, <2>4, <2>6 DEF LoadStateDict, TypeInv, TypeOK
  <2>8. MoreTypes'
    <3>1. \A p \in Params : origin'[p].from <= Len(taken[p])
      BY <1>1, <2>3, <2>5 DEF TypeInv, MoreTypes
    <3>2. QED
      BY <1>1, <1>16, <2>5, <3>1 DEF LoadStateDict, TypeInv, MoreTypes
  <2>9. FollowInv'
    <3> SUFFICES ASSUME NEW p \in Params
                 PROVE  Follows(kind, weight'[p], origin'[p], taken[p], Len(taken[p]))
      BY <1>1, <1>16, <2>6 DEF FollowInv, LoadStateDict
    <3>1. CASE p \in entries
      <4> DEFINE n == Len(taken[p])
      <4>1. weight'[p] = w /\ origin'[p].weight = w /\ origin'[p].from = n
        BY <2>4, <2>5, <3>1
      <4>2. Moved(kind, taken[p], n, n) = 0
        BY <2>3, MovedNone
      <4>3. Minus(w, 0) = w
        BY <2>1, NothingMoved
      <4>4. QED
        BY <4>1, <4>2, <4>3 DEF Follows
    <3>2. CASE p \notin entries
      BY <1>1, <2>4, <2>5, <3>2 DEF FollowInv
    <3>3. QED
      BY <3>1, <3>2
  <2>10. QED
    BY <2>7, <2>8, <2>9 DEF TypeInv
<1>17. CASE SaveCheckpoint
  <2>1. FollowInv'
    BY <1>1, <1>17, NothingMovedStep DEF SaveCheckpoint
  <2>2. events' \in 0 .. MaxEvents
    BY <1>1, <1>17, BoundsAreNumbers DEF SaveCheckpoint, Event, TypeInv, TypeOK
  <2>3. disk' \in Checkpoints
    BY <1>1, <1>17, TrainingAssumption DEF SaveCheckpoint, TypeInv, TypeOK, Checkpoints
  <2>4. TypeInv'
    BY <1>1, <1>17, <2>2, <2>3, SameTensorsTypes
       DEF SaveCheckpoint, SameTensors, TypeInv, TypeOK, MoreTypes
  <2>5. QED
    BY <2>1, <2>4
<1>18. CASE Restart
  <2>1. events' \in 0 .. MaxEvents
    BY <1>1, <1>18, BoundsAreNumbers DEF Restart, Event, TypeInv, TypeOK
  <2>2. weight' \in [Params -> Floats] /\ rate' \in Elements
    <3>1. Start \in Floats /\ RateOne \in Elements
      BY TrainingAssumption DEF Floats
    <3>2. PICK saved \in {disk, NoTensor} :
             IF saved = NoTensor
             THEN weight' = [p \in Params |-> Start] /\ rate' = RateOne
             ELSE weight' = saved.weight /\ rate' = saved.rate
      BY <1>18 DEF Restart
    <3>3. saved # NoTensor => saved \in Checkpoints
      BY <1>1 DEF TypeInv, MoreTypes
    <3>4. QED
      BY <3>1, <3>2, <3>3 DEF Checkpoints
  <2>3. list' = list /\ kind' = kind /\ program' = program /\ disk' = disk
    BY <1>18 DEF Restart, list, kind
  <2>4. /\ requiresGrad' \in [Params -> BOOLEAN]
        /\ grad' \in [Params -> Floats \cup {NoTensor}]
        /\ moment' \in [Params -> Floats \cup {NoTensor}]
        /\ second' \in [Params -> Floats \cup {NoTensor}]
        /\ here' = {} /\ shared' = {} /\ lossOf' = {} /\ root' = {}
        /\ failed' = FALSE /\ cached' = FALSE
        /\ pc' = "idle" /\ i' = 1 /\ t' = 0
    BY <1>18 DEF Restart
  <2>5. i' \in 1 .. Len(list) + 1 /\ t' \in 0 .. MaxSteps
    BY <1>2, <2>4, BoundsAreNumbers
  <2>6. TypeOK'
    BY <1>1, <2>1, <2>2, <2>3, <2>4, <2>5 DEF TypeInv, TypeOK
  <2>7. /\ own' \in [Params -> Floats]
        /\ taken' = [p \in Params |-> <<>>] /\ origin' = Unmoved(weight')
    BY <1>18, ElementFacts DEF Restart, Floats
  <2>8. /\ taken' \in [Params -> Seq(Moves)]
        /\ origin' \in [Params -> [weight : Floats, from : Nat]]
        /\ \A p \in Params : /\ taken'[p] = <<>> /\ Len(taken'[p]) = 0
                             /\ origin'[p].from = 0 /\ origin'[p].weight = weight'[p]
    BY <2>2, <2>7 DEF Unmoved
  <2>9. MoreTypes'
    BY <1>1, <2>3, <2>4, <2>7, <2>8 DEF TypeInv, MoreTypes
  <2>10. FollowInv'
    <3>1. \A p \in Params : moment'[p] = NoTensor /\ second'[p] = NoTensor
      BY <1>18 DEF Restart
    <3>2. QED
      BY <2>2, <2>8, <3>1, NewParameterFollows DEF FollowInv
  <2>11. QED
    BY <2>6, <2>9, <2>10 DEF TypeInv
<1>19. CASE UNCHANGED vars
  <2>1. FollowInv'
    BY <1>1, <1>19, NothingMovedStep DEF vars
  <2>2. TypeInv'
    BY <1>1, <1>19, SameTensorsTypes DEF vars, SameTensors, TypeInv, TypeOK, MoreTypes
  <2>3. QED
    BY <2>1, <2>2
<1>20. QED
  BY <1>3, <1>4, <1>5, <1>6, <1>7, <1>8, <1>9, <1>10, <1>11, <1>12, <1>13, <1>14, <1>15,
     <1>16, <1>17, <1>18, <1>19 DEF Next

LEMMA WeightsInit == Init => WeightsInv
<1> SUFFICES ASSUME Init PROVE WeightsInv
  OBVIOUS
<1>1. TypeInv
  BY TypeInit
<1>2. \A p \in Params : /\ weight[p] \in Floats
                        /\ moment[p] = NoTensor /\ second[p] = NoTensor
                        /\ taken[p] = <<>> /\ Len(taken[p]) = 0
                        /\ origin[p].from = 0 /\ origin[p].weight = weight[p]
  BY <1>1 DEF Init, Unmoved, TypeInv, TypeOK
<1>3. FollowInv
  BY <1>2, NewParameterFollows DEF FollowInv
<1>4. QED
  BY <1>1, <1>3, TrainingInit DEF WeightsInv

\* Every variable of the loop has its type, whatever the program does around it.
THEOREM TrainingTypeOK == Spec => []TypeOK
<1>1. WeightsInv => TypeOK
  BY DEF WeightsInv, TypeInv
<1>2. QED
  BY <1>1, WeightsInit, WeightsStep, PTL DEF Spec

\* The weights are where the gradients of their losses lead, by the closed
\* forms of momentum and of Adam (momentum.cpp:21, adam.cpp:29-40).
THEOREM WeightsCorrect == Spec => []WeightsFollowGradients
<1>1. ASSUME WeightsInv PROVE WeightsFollowGradients
  <2> SUFFICES ASSUME NEW p \in Listed, CountsItsSteps(p)
               PROVE  weight[p] = Minus(origin[p].weight,
                         Total(origin[p].from + 1 .. Len(taken[p]), LAMBDA n :
                             Times(taken[p][n].rate, TextbookDirection(taken[p], n))))
    BY DEF WeightsFollowGradients
  <2>1. p \in Params /\ taken[p] \in Seq(Moves)
    BY <1>1, ListedAreParams DEF WeightsInv, TrainingInv, TypeInv, MoreTypes
  <2>2. DOMAIN taken[p] = 1 .. Len(taken[p])
    BY <2>1
  <2>3. weight[p] = Minus(origin[p].weight,
                          Moved(kind, taken[p], origin[p].from, Len(taken[p])))
    BY <1>1, <2>1, <2>2 DEF WeightsInv, FollowInv, Follows, CountsItsSteps
  <2>4. \A n : TextbookDirection(taken[p], n) = DirectionOf(kind, taken[p], n)
    BY DEF TextbookDirection, DirectionOf
  <2>5. Total(origin[p].from + 1 .. Len(taken[p]), LAMBDA n :
              Times(taken[p][n].rate, TextbookDirection(taken[p], n)))
           = Moved(kind, taken[p], origin[p].from, Len(taken[p]))
    <3> DEFINE S == origin[p].from + 1 .. Len(taken[p])
               v == [n \in S |-> Times(taken[p][n].rate, TextbookDirection(taken[p], n))]
    <3>1. v = [n \in S |-> MoveOf(kind, taken[p], n)]
      BY <2>4 DEF MoveOf
    <3>2. Total(S, LAMBDA n : Times(taken[p][n].rate, TextbookDirection(taken[p], n)))
             = Summed(v, S)
      BY DEF Total, Summed
    <3>3. QED
      BY <3>1, <3>2 DEF Moved
  <2>6. QED
    BY <2>3, <2>5
<1>2. QED
  BY <1>1, WeightsInit, WeightsStep, PTL DEF Spec
=============================================================================

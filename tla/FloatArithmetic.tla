--------------------------- MODULE FloatArithmetic ---------------------------
(***************************************************************************)
(* The arithmetic the kernels are run with: the field of the integers      *)
(* modulo a prime, with a value for "not a number".  It keeps the laws of  *)
(* real arithmetic that the derivatives rest on and gives every quotient a *)
(* value, so sums of products can be compared exactly; rounding, overflow  *)
(* and order are not modelled.  exp is taken from one generator of the     *)
(* multiplicative group, so that exp(x + y) = exp(x) exp(y), and log is    *)
(* its inverse.                                                            *)
(***************************************************************************)
EXTENDS Integers, Functions

CONSTANTS P,         \* a prime
          Generator  \* a generator of the multiplicative group modulo P

ASSUME PrimeAssumption == P \in Nat /\ P > 2 /\ \A d \in 2 .. P - 1 : P % d # 0

Elements == 0 .. P - 1

\* An infinity or a NaN: what a division by zero gives.
NaN == -1

Floats == Elements \cup {NaN}

Plus(x, y)  == IF NaN \in {x, y} THEN NaN ELSE (x + y) % P
Minus(x, y) == IF NaN \in {x, y} THEN NaN ELSE (x - y) % P
Times(x, y) == IF NaN \in {x, y} THEN NaN ELSE (x * y) % P

\* x to the power n.
Powers ==
    [x \in Elements |->
        LET power[n \in Nat] ==
                IF n = 0 THEN 1 % P ELSE (x * power[n - 1]) % P
        IN  power]

Power(x, n) == IF NaN \in {x, n} THEN NaN ELSE Powers[x][n]

Over(x, y) ==
    IF NaN \in {x, y} \/ y = 0 THEN NaN ELSE (x * Powers[y][P - 2]) % P

\* exp of an integer, positive or not, and the logarithm that undoes it.
Exp(n) == Powers[Generator][n % (P - 1)]
Log(x) == IF x \in {0, NaN} THEN NaN
          ELSE CHOOSE n \in 0 .. P - 2 : Exp(n) = x

\* Half of the elements stand for the negative numbers.
Positive(x) == x \in 1 .. P \div 2

\* The hyperbolic tangent of an integer.
Tanh(x) == Over(Minus(Exp(2 * x), 1), Plus(Exp(2 * x), 1))

ASSUME GeneratorAssumption ==
    /\ Generator \in Elements
    /\ \A x \in Elements \ {0} : \E n \in 0 .. P - 2 : Exp(n) = x

\* The sum of f over a finite set.
Total(S, f(_)) ==
    LET value == [s \in S |-> f(s)]
    IN  IF NaN \in Range(value) THEN NaN ELSE SumFunctionOnSet(value, S) % P
=============================================================================

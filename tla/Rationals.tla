------------------------------ MODULE Rationals ------------------------------
(***************************************************************************)
(* Floating-point numbers of the engine's computations, without their      *)
(* rounding: a rational is a pair <<n, d>> in lowest terms, and d = 0 gives *)
(* the values pandas computes with as well, <<0, 0>> for NaN and <<1, 0>>   *)
(* for +inf (division by a zero average, an empty range).                   *)
(***************************************************************************)
EXTENDS Integers, Sequences, Folds, Functions

LOCAL Abs(n) == IF n < 0 THEN -n ELSE n
LOCAL Gcd[a \in Nat, b \in Nat] == IF b = 0 THEN a ELSE Gcd[b, a % b]

Frac(n, d) == LET g == Gcd[Abs(n), d]
              IN  IF g = 0 THEN <<0, 0>> ELSE <<n \div g, d \div g>>

NaN == <<0, 0>>
Zero == <<0, 1>>
Num(n) == <<n, 1>>

Finite(x) == x[2] # 0
Add(x, y) == Frac(x[1] * y[2] + y[1] * x[2], x[2] * y[2])
Sub(x, y) == Frac(x[1] * y[2] - y[1] * x[2], x[2] * y[2])
Mul(x, y) == Frac(x[1] * y[1], x[2] * y[2])
\* The divisors of the engine are never negative.
Div(x, y) == Frac(x[1] * y[2], x[2] * y[1])

\* A comparison with NaN is false.
Leq(x, y) == Finite(x) /\ Finite(y) /\ x[1] * y[2] <= y[1] * x[2]
Less(x, y) == Finite(x) /\ Finite(y) /\ x[1] * y[2] < y[1] * x[2]

MaxOf(x, y) == IF Leq(x, y) THEN y ELSE x
MinOf(x, y) == IF Leq(x, y) THEN x ELSE y

SumOf(s) == FoldFunction(Add, Zero, s)
Mean(s) == Div(SumOf(s), Num(Len(s)))
Highest(s) == FoldFunction(MaxOf, s[1], s)
Lowest(s) == FoldFunction(MinOf, s[1], s)
=============================================================================

------------------------------ MODULE Doubles -------------------------------
(***************************************************************************)
(* The arithmetic of C++ double (IEEE 754) as the contract uses it on      *)
(* funds: +, -, the product by fee_rate, and the comparisons.  A finite    *)
(* double is an integer number of quanta (the least positive double); the  *)
(* infinities sit just outside the finite range, so that the order of the  *)
(* integers is the order of the doubles, and NaN is a value apart, which   *)
(* every comparison rejects.                                               *)
(*                                                                         *)
(* The rounding is a parameter: Round[x] is the double nearest to x/FeeDen *)
(* quanta.  Counting exact results in FeeDen-ths of a quantum lets one     *)
(* function round sums and products by fee_rate = 1/FeeDen alike.          *)
(***************************************************************************)
EXTENDS Integers

CONSTANTS MaxFinite, \* the largest finite double, in quanta
          FeeDen,    \* fee_rate is 1/FeeDen (the code's 0.01 is 1/100)
          Round      \* exact result, in FeeDen-ths of a quantum -> double

Inf == MaxFinite + 1
NaN == MaxFinite + 2

\* The exact results of one operation on two finite doubles.
Exact == -(2 * MaxFinite * FeeDen) .. (2 * MaxFinite * FeeDen)

Ordered == -Inf .. Inf
Finite  == {n \in -MaxFinite .. MaxFinite : Round[n * FeeDen] = n}
Double  == Finite \union {-Inf, Inf, NaN}

ASSUME DoubleConsts == MaxFinite \in Nat \ {0} /\ FeeDen \in Nat \ {0}
ASSUME RoundType    == Round \in [Exact -> Finite \union {-Inf, Inf}]
ASSUME RoundMono    == \A x, y \in Exact : x <= y => Round[x] <= Round[y]
ASSUME RoundZero    == Round[0] = 0

Neg(a) == IF a = NaN THEN NaN ELSE -a

Add(a, b) ==
  IF a = NaN \/ b = NaN \/ (a \in {-Inf, Inf} /\ b = -a) THEN NaN
  ELSE IF a \in {-Inf, Inf} THEN a
  ELSE IF b \in {-Inf, Inf} THEN b
  ELSE Round[(a + b) * FeeDen]

Sub(a, b) == Add(a, Neg(b))

TimesFeeRate(a) == IF a \in {-Inf, Inf, NaN} THEN a ELSE Round[a]

\* Comparisons: false as soon as one side is NaN.
GEq(a, b) == a # NaN /\ b # NaN /\ a >= b
Gt(a, b)  == a # NaN /\ b # NaN /\ a > b
=============================================================================

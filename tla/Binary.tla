------------------------------- MODULE Binary -------------------------------
(***************************************************************************)
(* Rounding to nearest, ties to even, with Precision significant bits: the *)
(* IEEE 754 rounding of the machine, for the small number formats TLC      *)
(* checks the contract with.                                               *)
(***************************************************************************)
EXTENDS Integers

CONSTANT Precision \* significant bits (53 in a double)

Magnitude(n) == IF n < 0 THEN -n ELSE n

\* The distance between neighbouring doubles around the magnitude n.
Ulp(n) == 2 ^ (CHOOSE k \in 0 .. n : /\ n < 2 ^ (Precision + k)
                                     /\ k > 0 => n >= 2 ^ (Precision + k - 1))

\* num/den rounded to a multiple of the ulp, for num >= 0.
NearestEven(num, den) ==
  LET ulp  == Ulp(num \div den)
      low  == num \div (ulp * den)
      rest == 2 * (num % (ulp * den))
      up   == rest > ulp * den \/ (rest = ulp * den /\ low % 2 = 1)
  IN  ulp * (IF up THEN low + 1 ELSE low)

\* The same for either sign, with overflow to the infinities max + 1.
RoundTo(num, den, max) ==
  LET r == NearestEven(Magnitude(num), den)
      m == IF r > max THEN max + 1 ELSE r
  IN  IF num < 0 THEN -m ELSE m
=============================================================================

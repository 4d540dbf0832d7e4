------------------------------ MODULE Numerals ------------------------------
(***************************************************************************)
(* Natural numbers written down: as sequences of digits, the highest       *)
(* first, and as the bits of an unsigned integer.  Both text tools are     *)
(* built from these loops; they are recursive functions, not operators, so *)
(* that ToolsProofs can reason about them.                                 *)
(***************************************************************************)
EXTENDS Integers, Sequences

\* The number a sequence of digits stands for.
Value(s, base) ==
  LET v[i \in 0..Len(s)] == IF i = 0 THEN 0 ELSE base * v[i - 1] + s[i]
  IN  v[Len(s)]

\* The digits of a number, without leading zeros: none for zero.
InBase(n, base) ==
  LET d[k \in 0..n] == IF k = 0 THEN << >> ELSE Append(d[k \div base], k % base)
  IN  d[n]
-----------------------------------------------------------------------------
\* 1 << k
TwoTo(k) ==
  LET p[i \in 0..k] == IF i = 0 THEN 1 ELSE 2 * p[i - 1]
  IN  p[k]

Bit(n, k) == (n \div TwoTo(k)) % 2

\* a | b in an unsigned integer of w bits.
BitOr(a, b, w) ==
  LET or[k \in 0..w] ==
        IF k = 0 THEN 0
        ELSE or[k - 1] + (IF Bit(a, k - 1) = 1 \/ Bit(b, k - 1) = 1 THEN TwoTo(k - 1) ELSE 0)
  IN  or[w]
=============================================================================

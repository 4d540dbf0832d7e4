-------------------------------- MODULE Names --------------------------------
(***************************************************************************)
(* The conversions between account names and strings, string_to_name and   *)
(* name_to_string; string_to_name is also the code through which the award *)
(* contract joins its tables.  A name packs Long symbols of five bits and  *)
(* a last one of four into one unsigned integer, the first symbol highest; *)
(* the code has Long = 12, which fills 64 bits.  Characters are their      *)
(* ASCII codes.                                                            *)
(***************************************************************************)
EXTENDS Numerals, SequencesExt

CONSTANT Long \* symbols of five bits in a name

ASSUME NamesConsts == Long \in Nat \ {0}

Width == 5 * Long + 4
Names == 0 .. TwoTo(Width) - 1

Dot == 46
charmap == <<Dot>> \o [i \in 1 .. 5 |-> 48 + i] \o [i \in 1 .. 26 |-> 96 + i]

\* Mutant: letters counted from 5, the symbol of '5'.
char_to_symbol_low(c) ==
  IF c \in 97 .. 122 THEN c - 97 + 5 ELSE IF c \in 49 .. 53 THEN c - 49 + 1 ELSE 0

char_to_symbol(c) ==
  IF c \in 97 .. 122 THEN c - 97 + 6
  ELSE IF c \in 49 .. 53 THEN c - 49 + 1
  ELSE 0

\* Mutant: the shift counted from one bit lower.
PlacedLow(str, i) == (char_to_symbol(str[i + 1]) % 32) * TwoTo(Width - 1 - 5 * (i + 1))

\* The symbol of the i-th character, counted from 0, & 0x1f and shifted to
\* its place.
Placed(str, i) == (char_to_symbol(str[i + 1]) % 32) * TwoTo(Width - 5 * (i + 1))

string_to_name(str) ==
  LET n == IF Len(str) < Long THEN Len(str) ELSE Long
      high[i \in 0..n] == IF i = 0 THEN 0 ELSE BitOr(high[i - 1], Placed(str, i - 1), Width)
  IN  IF n = Long /\ Len(str) > Long
      THEN BitOr(high[n], char_to_symbol(str[Long + 1]) % 16, Width)
      ELSE high[n]

\* The symbol at a position counted from 1: the character str[Long - i] is
\* cut from tmp after i shifts, & 0x1f, or & 0x0f for the last.
SymbolAt(nm, p) ==
  IF p = Long + 1 THEN nm % 16
  ELSE ((nm \div 16) \div TwoTo(5 * (Long - p))) % 32

\* Mutant: a string of one character more, filled from its end.
CharactersLong(nm) == <<Dot>> \o [p \in 1 .. Long + 1 |-> charmap[SymbolAt(nm, p) + 1]]

\* The characters of a name, the dots at the end included.
Characters(nm) == [p \in 1 .. Long + 1 |-> charmap[SymbolAt(nm, p) + 1]]

\* Mutant: trim_if instead of trim_right_if.
TrimBoth(str) ==
  LET last == SelectLastInSeq(str, LAMBDA c : c # Dot)
  IN  SubSeq(str, IF last = 0 THEN 1 ELSE SelectInSeq(str, LAMBDA c : c # Dot), last)

TrimRight(str) ==
  SubSeq(str, 1, SelectLastInSeq(str, LAMBDA c : c # Dot))

name_to_string(nm) == TrimRight(Characters(nm))
=============================================================================

----------------------------- MODULE NameCodec ------------------------------
(***************************************************************************)
(* The two command-line tools that convert account names: stringToName     *)
(* prints the name of a string, nameToString the string of a name.         *)
(***************************************************************************)
EXTENDS Names

CONSTANT Texts \* the strings given to stringToName

ASSUME NameCodecConsts == \A str \in Texts : str \in Seq(Nat)

VARIABLES name, \* the integer stringToName printed, or nameToString was given
          text, \* the string nameToString printed, or stringToName was given
          ran   \* the tool that ran last

vars == <<name, text, ran>>

Init ==
  /\ \/ text \in Texts /\ name = 0
     \/ text = <<>> /\ name \in Names
  /\ ran = "none"

StringToName == name' = string_to_name(text) /\ ran' = "stringToName" /\ UNCHANGED text
NameToString == text' = name_to_string(name) /\ ran' = "nameToString" /\ UNCHANGED name

Next == StringToName \/ NameToString

Spec == Init /\ [][Next]_vars
-----------------------------------------------------------------------------
\* The number is a name of the right width, and the text fits the charmap
\* once nameToString has printed it.
TypeOK ==
  /\ name \in Names
  /\ ran \in {"none", "stringToName", "nameToString"}
  /\ ran = "nameToString" => /\ Len(text) <= Long + 1
                             /\ ToSet(text) \subseteq ToSet(charmap)

(***************************************************************************)
(* nameToString loses nothing: whatever the number, the string it prints   *)
(* is read back by stringToName as that number, although the dots at the   *)
(* end are cut off and the last symbol has one bit less.                   *)
(***************************************************************************)
NameRoundTrip == ran = "nameToString" => string_to_name(text) = name

\* A name as the account rules of the chain write it.
WellFormed(str) ==
  /\ Len(str) <= Long + 1
  /\ \A i \in 1 .. Len(str) : str[i] \in ToSet(charmap)
  /\ str # <<>> => str[Len(str)] # Dot
  /\ Len(str) = Long + 1 => char_to_symbol(str[Long + 1]) < 16

(***************************************************************************)
(* stringToName loses exactly what a name cannot hold: its number is       *)
(* printed back as the same string if and only if the string is a well     *)
(* formed name.  Every other string shares its number with one that is.    *)
(***************************************************************************)
TextRoundTrip ==
  ran = "stringToName" =>
    /\ name_to_string(name) = text <=> WellFormed(text)
    /\ WellFormed(name_to_string(name))

(***************************************************************************)
(* The symbols do not run into each other: the number is the positional    *)
(* value, in base 32 with a last digit in base 16, of the first Long + 1   *)
(* symbols of the string.  So two keys get one code just when they agree,  *)
(* capital letters and high digits counting as dots, on that prefix.       *)
(***************************************************************************)
Positional(str) ==
  LET digit(i) == IF i <= Len(str) THEN char_to_symbol(str[i]) ELSE 0
  IN  16 * Value([i \in 1 .. Long |-> digit(i)], 32) + (digit(Long + 1) % 16)

SymbolsStayApart == ran = "stringToName" => name = Positional(text)
=============================================================================

----------------------------- MODULE MCSnapshot -----------------------------
(***************************************************************************)
(* Snapshots for TLC: duplicated addresses and accounts, short, empty and  *)
(* refused lines, a CR, an escape the tokenizer throws on, and a line long *)
(* enough for the field counter to come round to 1 and 2 again.            *)
(***************************************************************************)
EXTENDS Snapshot, TLC

\* "7r" stands for 7 and a carriage return, "7s" for 7 and a space; the
\* accounts that begin with "long" have at least twelve characters.
MCOrder == <<"", "0xa", "0xb", "0xc", "5", "7r", "7s", "bo", "k1", "k2", "long1", "long2">>
MCTexts == {MCOrder[i] : i \in DOMAIN MCOrder}
MCLong  == {"long1", "long2"}
MCBlanked == [t \in MCTexts |-> IF t = "7r" THEN "7s" ELSE t]
MCTaken == {[a \in {} |-> ""], "long1" :> "k2"}

A1   == <<"0xa", "long1", "k1", "5">>
A2r  == <<"0xa", "long2", "k1", "7r">>
B1   == <<"0xb", "long1", "k2", "5">>
B2   == <<"0xb", "long2", "k2", "5">>
Bbo  == <<"0xb", "bo", "k2", "5">>
B2sh == <<"0xb", "long2">>
Wide == <<"0xb", "long2", "k2", "5", "", "", "", "", "", "", "0xc", "long1">>

MCFiles == { <<A1, << >>, Bbo, B2, Bbo>>,  \* an empty line, a line refused twice
             <<A1, A2r, B1>>,              \* an address listed twice, a CR
             <<A1, B1>>,                   \* one account for two addresses
             <<A1, B2sh>>,                 \* a line without key and quantity
             <<A1, BadEscape>>,
             <<A1, Wide>>,
             <<Bbo, Bbo>> }                \* nobody to pay
=============================================================================

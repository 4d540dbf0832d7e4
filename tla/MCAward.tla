------------------------------ MODULE MCAward -------------------------------
(***************************************************************************)
(* Instances of Award for TLC: the contract's account and three nodes, and *)
(* the code of a key is the string_to_name of module Names.  Of four keys, *)
(* which all start with a capital letter, two differ in capital letters    *)
(* and high digits only and have the same code; one has no other           *)
(* characters and has the code of the empty string, zero.                  *)
(***************************************************************************)
EXTENDS Award, TLC

CONSTANT Long

N == INSTANCE Names

\* "Ua5", "Sa5", "Ub" and "US9" as ASCII codes
MCPubkeys  == {<<85, 97, 53>>, <<83, 97, 53>>, <<85, 98>>, <<85, 83, 57>>}
MCNoKey    == << >>
MCCode     == (<<85, 97, 53>> :> 101) @@ (<<83, 97, 53>> :> 101) @@ (<<85, 98>> :> 112)
                @@ (<<85, 83, 57>> :> 0) @@ (MCNoKey :> 0)
MCCodes    == {0, 101, 112}
MCNameArgs == Accounts \union {NoName}
MCKeyArgs  == Pubkeys \union {NoKey}
\* No signature, or one: a second adds no behaviour the first does not allow.
MCSigners  == {{}} \union {{a} : a \in Accounts}

ASSUME RealCodes == \A key \in DOMAIN MCCode : MCCode[key] = N!string_to_name(key)
=============================================================================

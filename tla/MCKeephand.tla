----------------------------- MODULE MCKeephand -----------------------------
(***************************************************************************)
(* Instances of Keephand for TLC: three accounts (the contract's own and   *)
(* two users) and a small binary floating-point format.                    *)
(***************************************************************************)
EXTENDS KeephandSupply, Binary, TLC

CONSTANTS alice, bob

MCRound == [x \in Exact |-> RoundTo(x, FeeDen, MaxFinite)]

MCNameArgs == Accounts \union {NoName}
MCKeyArgs  == Pubkeys \union {NoKey}

\* Single signatures: a second one adds no behaviour the first does not allow.
MCSigners == {{a} : a \in Accounts}

\* Callers pass any double: refused ones, small and large ones, infinity.
FloatArgs == {-1, 0, 1, 3, 4, 12, Inf, NaN}
\* Multiples of FeeDen only, so that every fee is exact.
ExactArgs == {2, 4, 6}
\* One amount below FeeMin, one above.
SmallArgs == {1, 6}

\* The two users are interchangeable.
Users == Permutations({alice, bob})
=============================================================================

---------------------------- MODULE MCKeephandTx ----------------------------
(***************************************************************************)
(* Instances of KeephandTx for TLC: the contract's account and two users,  *)
(* in a binary format small enough to overflow within a few savings.       *)
(***************************************************************************)
EXTENDS KeephandTx, Binary, TLC

CONSTANTS alice, bob

MCRound   == [x \in Exact |-> RoundTo(x, FeeDen, MaxFinite)]
\* Signed by the contract, or by both users: either lacks the other's authority.
MCSigners == {{Self}, Accounts \ {Self}}
MCFundsArgs == {1, 2}

\* The two users are interchangeable.
Users == Permutations({alice, bob})
=============================================================================

--------------------------- MODULE KeephandSupply ---------------------------
(***************************************************************************)
(* What the keephand handlers do to the sum of all balances, and what the  *)
(* repository says about fees.  The sums are compared where balances are   *)
(* so small that no sum or difference of them is rounded, whatever the fee *)
(* was rounded to.                                                         *)
(***************************************************************************)
EXTENDS Keephand, FiniteSetsExt

CONSTANT Dense \* up to one more than this every whole number of quanta is a double

\* One quantum less than nothing is a double, too.
ASSUME SupplyConsts == Dense \in Nat /\ -1..Dense + 1 \subseteq Finite

\* Doubles lie no closer together above a than below it: less than what was
\* rounded away below is rounded away above.
ASSUME RoundFine ==
  \A a \in Finite, k \in 0..MaxFinite : k <= a =>
    \A j \in 0..Round[k * FeeDen] - k - 1 : Round[(a + j) * FeeDen] <= a

\* No amount is so large that rounding swallows the fee on it.
ASSUME FeeShows == \A funds \in Finite : funds > 0 => Add(TransferFee(funds), funds) > funds

Total(t) == MapThenSumSet(LAMBDA n : t[n], DOMAIN t)

\* No sum or difference of such balances is rounded.
Small(t) == Total(t) <= Dense

(***************************************************************************)
(* A transfer moves funds and fee between rows and neither makes nor loses *)
(* any: also when sender, receiver and contract share a row, where a write *)
(* from a balance read before the previous write would show.               *)
(***************************************************************************)
TransferConserves ==
  [][receipt'.act = "transfer" /\ Small(userasset) =>
       Total(userasset') = Total(userasset)]_vars

(***************************************************************************)
(* The only way the sum grows is a saving, and by no more than the amount  *)
(* saved.                                                                  *)
(***************************************************************************)
OnlySavingMints ==
  [][Small(userasset') /\ Total(userasset') > Total(userasset) =>
       /\ receipt'.act = "save"
       /\ Total(userasset') = Total(userasset) + receipt'.funds]_vars

(***************************************************************************)
(* "From now on the fees are all kept under this user" (handkeep.md:39, of *)
(* the contract's own account): a withdrawal by somebody else does not     *)
(* lower the balance that account has collected.  Not so in the code.      *)
(***************************************************************************)
FeesAccrue ==
  [][receipt'.act = "take" /\ receipt'.name # Self =>
       GEq(userasset'[Self], userasset[Self])]_vars

(***************************************************************************)
(* fee_min is "the smallest funds of take money once time"                 *)
(* (keephand.hpp:42): whether it bounds the amount taken or the fee paid,  *)
(* a withdrawal reaches it in one of them.  Not so in the code.            *)
(***************************************************************************)
TakeReachesMinimum ==
  [][receipt'.act = "take" =>
       \/ GEq(receipt'.funds, FeeMin)
       \/ GEq(TimesFeeRate(receipt'.funds), FeeMin)]_vars
=============================================================================

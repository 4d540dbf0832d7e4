------------------------------ MODULE Keephand ------------------------------
(***************************************************************************)
(* The keephand contract: accounts that hold funds, kept in two tables of  *)
(* the contract's own scope, userinfo (name -> pubkey) and userasset       *)
(* (name -> funds).  Every action is one committed transaction: a handler  *)
(* whose eosio_assert, require_auth or table call fails is undone as a     *)
(* whole by the chain and leaves no trace (KeephandTx shows the handlers   *)
(* step by step and that they implement this module).                      *)
(***************************************************************************)
EXTENDS Doubles, MultiIndex

CONSTANTS Accounts,  \* account names a transaction can mention
          Self,      \* the contract's own account, _self
          NoName,    \* the name 0
          Pubkeys,   \* public key strings
          NoKey,     \* the empty string
          FeeMin,    \* fee_min, in quanta
          NameArgs,  \* what callers pass: names (NoName among them),
          KeyArgs,   \* keys (NoKey among them),
          FundsArgs, \* doubles,
          Signers    \* and the sets of accounts that sign the action

ASSUME KeephandConsts == /\ Self \in Accounts
                         /\ NoName \notin Accounts
                         /\ NoKey \notin Pubkeys
                         /\ FeeMin \in Finite /\ FeeMin > 0
                         /\ NameArgs \subseteq Accounts \union {NoName}
                         /\ KeyArgs \subseteq Pubkeys \union {NoKey}
                         /\ FundsArgs \subseteq Double
                         /\ Signers \subseteq SUBSET Accounts

VARIABLES userinfo,  \* the userinfo table: name -> pubkey
          userasset, \* the userasset table: name -> funds
          receipt    \* the chain's record of the last action executed

vars == <<userinfo, userasset, receipt>>

Acts == {"none", "createacnt", "deleteacnt", "save", "take", "transfer"}

Receipt(act, name, funds, auth) ==
  [act |-> act, name |-> name, funds |-> funds, auth |-> auth]

Init ==
  /\ userinfo = NoRows
  /\ userasset = NoRows
  /\ receipt = Receipt("none", NoName, 0, {})

create_asset_data_by_account(name) == Emplace(userasset, name, 0)
delete_asset_data_by_account(name) == Erase(userasset, name)

\* Mutant: createacnt without the check of pubkey.size().
CreateAcntAnyKey(name, pubkey, auth) ==
  /\ name # NoName /\ Self \in auth
  /\ name \notin DOMAIN userinfo \union DOMAIN userasset
  /\ userinfo' = Emplace(userinfo, name, pubkey)
  /\ userasset' = create_asset_data_by_account(name)
  /\ receipt' = Receipt("createacnt", name, 0, auth)

(***************************************************************************)
(* createacnt: the contract registers a name, and opens its funds row at   *)
(* zero (create_asset_data_by_account); the emplace fails, and with it the *)
(* whole transaction, when that row is already there.                      *)
(***************************************************************************)
CreateAcnt(name, pubkey, auth) ==
  /\ name # NoName
  /\ pubkey # NoKey
  /\ Self \in auth
  /\ name \notin DOMAIN userinfo
  /\ userinfo' = Emplace(userinfo, name, pubkey)
  /\ name \notin DOMAIN userasset
  /\ userasset' = create_asset_data_by_account(name)
  /\ receipt' = Receipt("createacnt", name, 0, auth)

\* Mutant: deleteacnt without delete_asset_data_by_account.
DeleteAcntOnly(name, auth) ==
  /\ name # NoName /\ Self \in auth
  /\ name \in DOMAIN userinfo
  /\ userinfo' = Erase(userinfo, name)
  /\ receipt' = Receipt("deleteacnt", name, 0, auth)
  /\ UNCHANGED userasset

\* deleteacnt: the contract drops a name, and its funds row if there is one.
DeleteAcnt(name, auth) ==
  /\ name # NoName
  /\ Self \in auth
  /\ name \in DOMAIN userinfo
  /\ userinfo' = Erase(userinfo, name)
  /\ userasset' = delete_asset_data_by_account(name)
  /\ receipt' = Receipt("deleteacnt", name, 0, auth)

\* Mutant: modasset without require_auth(name).
AssetOpenToAll(name, funds, auth) ==
  /\ name # NoName
  /\ Gt(funds, 0)
  /\ name \in DOMAIN userinfo \intersect DOMAIN userasset

\* The checks modasset makes whether it saves or takes.
AssetOpen(name, funds, auth) ==
  /\ name # NoName
  /\ Gt(funds, 0)
  /\ name \in DOMAIN userinfo
  /\ name \in auth
  /\ name \in DOMAIN userasset

\* modasset with bsaving: add to the account's funds.
Save(name, funds, auth) ==
  /\ AssetOpen(name, funds, auth)
  /\ userasset' = Modify(userasset, name, Add(userasset[name], funds))
  /\ receipt' = Receipt("save", name, funds, auth)
  /\ UNCHANGED userinfo

Remaining(held, funds) == Sub(Sub(held, funds), TimesFeeRate(funds))

\* Mutant: a withdrawal without the op_funds >= 0 assertion.
TakeUnchecked(name, funds, auth) ==
  /\ AssetOpen(name, funds, auth)
  /\ Self \in DOMAIN userasset
  /\ userasset' = Modify(Modify(userasset, Self, TimesFeeRate(funds)),
                         name, Remaining(userasset[name], funds))
  /\ receipt' = Receipt("take", name, funds, auth)
  /\ UNCHANGED userinfo

\* Mutant: a withdrawal that skips the owner's row when there is none.
TakeOwnerless(name, funds, auth) ==
  /\ AssetOpen(name, funds, auth)
  /\ GEq(Remaining(userasset[name], funds), 0)
  /\ userasset' = Modify(Modify(userasset, Self, TimesFeeRate(funds)),
                         name, Remaining(userasset[name], funds))
  /\ receipt' = Receipt("take", name, funds, auth)
  /\ UNCHANGED userinfo

(***************************************************************************)
(* modasset without bsaving: the owner's row is set to the fee of this     *)
(* withdrawal, then the account's row to what remains.                     *)
(***************************************************************************)
Take(name, funds, auth) ==
  /\ AssetOpen(name, funds, auth)
  /\ GEq(Remaining(userasset[name], funds), 0)
  /\ Self \in DOMAIN userasset
  /\ userasset' = Modify(Modify(userasset, Self, TimesFeeRate(funds)),
                         name, Remaining(userasset[name], funds))
  /\ receipt' = Receipt("take", name, funds, auth)
  /\ UNCHANGED userinfo

TransferFee(funds) ==
  IF Gt(FeeMin, TimesFeeRate(funds)) THEN FeeMin ELSE TimesFeeRate(funds)

\* funds_option: read the row afresh, then write it.
Debit(t, name, funds)  == Modify(t, name, Sub(t[name], funds))
Credit(t, name, funds) == Modify(t, name, Add(t[name], funds))

\* The checks transfer makes before its first write.
TransferOpen(from, to, funds, auth) ==
  /\ from # NoName /\ to # NoName
  /\ Gt(funds, 0)
  /\ from \in auth
  /\ to \in DOMAIN userinfo
  /\ from \in DOMAIN userasset
  /\ GEq(Sub(Sub(userasset[from], TransferFee(funds)), funds), 0)

\* Mutant: every row written from its balance at the start of the transfer.
TransferStale(from, to, funds, auth) ==
  LET fee == TransferFee(funds)
  IN  /\ TransferOpen(from, to, funds, auth)
      /\ {to, Self} \subseteq DOMAIN userasset
      /\ userasset' = [userasset EXCEPT ![from] = Sub(@, Add(fee, funds)),
                                        ![to]   = Add(userasset[to], funds),
                                        ![Self] = Add(userasset[Self], fee)]
      /\ receipt' = Receipt("transfer", from, funds, auth)
      /\ UNCHANGED userinfo

(***************************************************************************)
(* transfer: the sender's row is debited by fee and funds, then the        *)
(* receiver's credited, then the contract's.  The rows may be the same one *)
(* (from = to, or one of them is _self): each is read after the last write.*)
(***************************************************************************)
Transfer(from, to, funds, auth) ==
  LET fee      == TransferFee(funds)
      debited  == Debit(userasset, from, Add(fee, funds))
      credited == Credit(debited, to, funds)
      paid     == Credit(credited, Self, fee)
  IN  /\ TransferOpen(from, to, funds, auth)
      /\ GEq(debited[from], 0)
      /\ to \in DOMAIN userasset
      /\ GEq(credited[to], 0)
      /\ Self \in DOMAIN userasset
      /\ GEq(paid[Self], 0)
      /\ userasset' = paid
      /\ receipt' = Receipt("transfer", from, funds, auth)
      /\ UNCHANGED userinfo

Next ==
  \E name \in NameArgs, auth \in Signers :
     \/ \E pubkey \in KeyArgs : CreateAcnt(name, pubkey, auth)
     \/ DeleteAcnt(name, auth)
     \/ \E funds \in FundsArgs : Save(name, funds, auth)
     \/ \E funds \in FundsArgs : Take(name, funds, auth)
     \/ \E funds \in FundsArgs, to \in NameArgs : Transfer(name, to, funds, auth)

Spec == Init /\ [][Next]_vars
-----------------------------------------------------------------------------
\* Both tables hold names of accounts; rows hold key strings and doubles.
TypeOK ==
  /\ userinfo \in Table(Accounts, Pubkeys)
  /\ userasset \in Table(Accounts, Double)
  /\ receipt \in [act : Acts, name : Accounts \union {NoName}, funds : Double, auth : SUBSET Accounts]

(***************************************************************************)
(* The two tables always describe the same accounts, so the "not found on  *)
(* userasset" assertions of modasset and transfer (keephand.cpp:68, :134) *)
(* never fire after the userinfo check, and createacnt's second emplace    *)
(* never collides.                                                         *)
(***************************************************************************)
TablesAgree == DOMAIN userinfo = DOMAIN userasset

(***************************************************************************)
(* No stored balance is negative or NaN, whatever double the callers pass  *)
(* (infinities and NaN included) and whatever the rounding does: the       *)
(* op_funds >= 0 and user_asset >= 0 assertions are enough.                *)
(***************************************************************************)
FundsValid == \A n \in DOMAIN userasset : GEq(userasset[n], 0)

Kept(n) == n \in DOMAIN userasset /\ n \in DOMAIN userasset'

(***************************************************************************)
(* Nobody's funds go down without their own signature, the contract's own  *)
(* row apart (a withdrawal overwrites it): from = to, or a receiver that   *)
(* is also the payer of the fee, are no exception.                         *)
(***************************************************************************)
DebitAuthorised ==
  [][\A n \in Accounts \ {Self} :
       Kept(n) /\ userasset'[n] < userasset[n] => n \in receipt'.auth]_vars

(***************************************************************************)
(* While the contract's own account is not registered nothing can be taken *)
(* out or transferred: balances only grow (keephand.cpp:83 and :138).     *)
(***************************************************************************)
FrozenWithoutOwner ==
  [][Self \notin DOMAIN userasset =>
       \A n \in Accounts : Kept(n) => userasset'[n] >= userasset[n]]_vars

(***************************************************************************)
(* A transfer never leaves its sender richer, even when it sends to itself *)
(* and the rounding of the debit and of the credit do not cancel.          *)
(***************************************************************************)
SenderNeverGains ==
  [][receipt'.act = "transfer" /\ receipt'.name # Self =>
       userasset'[receipt'.name] <= userasset[receipt'.name]]_vars
=============================================================================

----------------------------- MODULE KeephandTx -----------------------------
(***************************************************************************)
(* The keephand handlers one table write at a time, as the chain executes  *)
(* them: a transaction opens an undo session, the handler writes the live  *)
(* tables through several multi_index objects, and the session is kept     *)
(* when the handler returns or undone when an assertion, an authority      *)
(* check or a resource limit stops it.  Refinement: what the outside sees  *)
(* between transactions is the atomic contract of module Keephand.         *)
(***************************************************************************)
EXTENDS Keephand

\* userinfo and userasset are the live tables here, session included.
VARIABLES undo,    \* the tables as they were when the session was opened
          call,    \* the action being executed and its arguments
          step,    \* the next write of its handler; "idle" between transactions
          op_funds \* modasset's local: what the withdrawal leaves

txvars == <<userinfo, userasset, undo, call, step, op_funds, receipt>>
tables == <<userinfo, userasset>>

Committed == IF step = "idle" THEN [info |-> userinfo, asset |-> userasset] ELSE undo

Contract == INSTANCE Keephand WITH userinfo  <- Committed.info,
                                   userasset <- Committed.asset

Calls ==
       [act : {"createacnt"}, name : NameArgs, pubkey : KeyArgs, auth : Signers]
  \union [act : {"deleteacnt"}, name : NameArgs, auth : Signers]
  \union [act : {"save", "take"}, name : NameArgs, funds : FundsArgs, auth : Signers]
  \union [act : {"transfer"}, name : NameArgs, to : NameArgs, funds : FundsArgs, auth : Signers]

NoCall    == [act |-> "none"]
NoSession == [info |-> NoRows, asset |-> NoRows]

TxInit ==
  /\ userinfo = NoRows /\ userasset = NoRows
  /\ undo = NoSession /\ call = NoCall /\ step = "idle" /\ op_funds = 0
  /\ receipt = Receipt("none", NoName, 0, {})

\* The chain opens a session and calls the handler.
Start(c) ==
  /\ step = "idle"
  /\ call' = c
  /\ step' = "enter"
  /\ undo' = [info |-> userinfo, asset |-> userasset]
  /\ UNCHANGED <<tables, op_funds, receipt>>

At(act, s) == call.act = act /\ step = s

Goto(s) == step' = s /\ UNCHANGED <<undo, call, receipt>>

\* Mutant: a session that is forgotten but not emptied.
CloseHalf == step' = "idle" /\ call' = NoCall /\ op_funds' = 0 /\ UNCHANGED undo

\* The handler returns: the session is kept.
Close == step' = "idle" /\ call' = NoCall /\ undo' = NoSession /\ op_funds' = 0

Return(funds) ==
  /\ Close
  /\ receipt' = Receipt(call.act, call.name, funds, call.auth)

\* Mutant: a stopped handler whose writes stay.
AbortNoUndo == step # "idle" /\ Close /\ UNCHANGED <<tables, receipt>>

(***************************************************************************)
(* The handler is stopped: by a failed eosio_assert, require_auth or table *)
(* call (the steps below are disabled there), or by the chain's limits on  *)
(* a transaction, which can strike anywhere.  The session is undone.       *)
(***************************************************************************)
Abort ==
  /\ step # "idle"
  /\ userinfo' = undo.info /\ userasset' = undo.asset
  /\ Close
  /\ UNCHANGED receipt
-----------------------------------------------------------------------------
CreateUser ==
  /\ At("createacnt", "enter")
  /\ call.name # NoName /\ call.pubkey # NoKey /\ Self \in call.auth
  /\ call.name \notin DOMAIN userinfo
  /\ userinfo' = Emplace(userinfo, call.name, call.pubkey)
  /\ Goto("asset")
  /\ UNCHANGED <<userasset, op_funds>>

CreateAsset ==
  /\ At("createacnt", "asset")
  /\ call.name \notin DOMAIN userasset
  /\ userasset' = Emplace(userasset, call.name, 0)
  /\ Return(0)
  /\ UNCHANGED userinfo

\* Mutant: deleteacnt that leaves the user registered.
DeleteUserForgotten ==
  /\ At("deleteacnt", "enter")
  /\ call.name # NoName /\ Self \in call.auth
  /\ call.name \in DOMAIN userinfo
  /\ Goto("asset")
  /\ UNCHANGED <<tables, op_funds>>

DeleteUser ==
  /\ At("deleteacnt", "enter")
  /\ call.name # NoName /\ Self \in call.auth
  /\ call.name \in DOMAIN userinfo
  /\ userinfo' = Erase(userinfo, call.name)
  /\ Goto("asset")
  /\ UNCHANGED <<userasset, op_funds>>

DeleteAsset ==
  /\ At("deleteacnt", "asset")
  /\ userasset' = Erase(userasset, call.name)
  /\ Return(0)
  /\ UNCHANGED userinfo

SaveAsset ==
  /\ At("save", "enter")
  /\ AssetOpen(call.name, call.funds, call.auth)
  /\ userasset' = Modify(userasset, call.name, Add(userasset[call.name], call.funds))
  /\ Return(call.funds)
  /\ UNCHANGED userinfo

\* The withdrawal is computed, and the fee written to the owner's row, first.
TakeFee ==
  /\ At("take", "enter")
  /\ AssetOpen(call.name, call.funds, call.auth)
  /\ op_funds' = Sub(Sub(userasset[call.name], call.funds), TimesFeeRate(call.funds))
  /\ GEq(op_funds', 0)
  /\ Self \in DOMAIN userasset
  /\ userasset' = Modify(userasset, Self, TimesFeeRate(call.funds))
  /\ Goto("asset")
  /\ UNCHANGED userinfo

TakeAsset ==
  /\ At("take", "asset")
  /\ userasset' = Modify(userasset, call.name, op_funds)
  /\ Return(call.funds)
  /\ UNCHANGED userinfo

Fee == TransferFee(call.funds)

\* funds_option: a fresh multi_index object reads the row and writes it.
FundsOption(name, funds) ==
  /\ name \in DOMAIN userasset
  /\ GEq(funds, 0)
  /\ userasset' = Modify(userasset, name, funds)

TransferDebit ==
  /\ At("transfer", "enter")
  /\ call.name # NoName /\ call.to # NoName /\ Gt(call.funds, 0)
  /\ call.name \in call.auth
  /\ call.to \in DOMAIN userinfo
  /\ call.name \in DOMAIN userasset
  /\ GEq(Sub(Sub(userasset[call.name], Fee), call.funds), 0)
  /\ FundsOption(call.name, Sub(userasset[call.name], Add(Fee, call.funds)))
  /\ Goto("credit")
  /\ UNCHANGED <<userinfo, op_funds>>

TransferCredit ==
  /\ At("transfer", "credit")
  /\ call.to \in DOMAIN userasset
  /\ FundsOption(call.to, Add(userasset[call.to], call.funds))
  /\ Goto("fee")
  /\ UNCHANGED <<userinfo, op_funds>>

TransferOwner ==
  /\ At("transfer", "fee")
  /\ Self \in DOMAIN userasset
  /\ FundsOption(Self, Add(userasset[Self], Fee))
  /\ Return(call.funds)
  /\ UNCHANGED userinfo

Handler ==
  \/ CreateUser \/ CreateAsset
  \/ DeleteUser \/ DeleteAsset
  \/ SaveAsset \/ TakeFee \/ TakeAsset
  \/ TransferDebit \/ TransferCredit \/ TransferOwner

TxNext == Abort \/ Handler \/ \E c \in Calls : Start(c)

TxSpec == TxInit /\ [][TxNext]_txvars
-----------------------------------------------------------------------------
\* Sessions are open exactly while a handler runs.
TxTypeOK ==
  /\ userinfo \in Table(Accounts, Pubkeys)
  /\ userasset \in Table(Accounts, Double)
  /\ undo \in [info : Table(Accounts, Pubkeys), asset : Table(Accounts, Double)]
  /\ step \in {"idle", "enter", "asset", "credit", "fee"}
  /\ IF step = "idle" THEN call = NoCall /\ undo = NoSession ELSE call \in Calls
  /\ op_funds \in Double

(***************************************************************************)
(* The transaction is atomic: seen between transactions, the handlers'     *)
(* writes are the single steps of Keephand, whichever write an abort falls *)
(* after (a transfer that has debited the sender and then finds the        *)
(* contract's own row missing, in particular) and whichever rows coincide. *)
(***************************************************************************)
AtomicContract == Contract!Spec

(***************************************************************************)
(* Once a transfer has written its debit, the receiver's row is there and  *)
(* takes the credit, and once createacnt has written the user, the funds   *)
(* row is free: the assertions after those writes guard against nothing.   *)
(***************************************************************************)
LateChecksHold ==
  /\ At("transfer", "credit") => /\ call.to \in DOMAIN userasset
                                 /\ GEq(Add(userasset[call.to], call.funds), 0)
  /\ At("createacnt", "asset") => call.name \notin DOMAIN userasset
=============================================================================

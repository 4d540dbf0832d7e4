-------------------------- MODULE KeephandTxProofs --------------------------
(***************************************************************************)
(* The handlers of keephand, write by write, implement the atomic contract *)
(* of module Keephand, for every value of the constants.  What relates the *)
(* two is History: in the middle of a handler the checks it has made hold  *)
(* of the tables the session will be undone to, and the live tables are    *)
(* those with the writes made so far.  Sound adds that what was committed  *)
(* is two tables over the same accounts, without which the assertions that *)
(* follow a write could fire.                                              *)
(***************************************************************************)
EXTENDS KeephandTx, KeephandProofs

\* What a handler has established after its first write, by its action.
Created == /\ call.act = "createacnt"
           /\ call.name # NoName /\ call.pubkey # NoKey /\ Self \in call.auth
           /\ call.name \notin DOMAIN undo.info
           /\ userinfo = Emplace(undo.info, call.name, call.pubkey)
           /\ userasset = undo.asset

Deleted == /\ call.act = "deleteacnt"
           /\ call.name # NoName /\ Self \in call.auth
           /\ call.name \in DOMAIN undo.info
           /\ userinfo = Erase(undo.info, call.name)
           /\ userasset = undo.asset

Opened == /\ call.name # NoName /\ Gt(call.funds, 0)
          /\ call.name \in DOMAIN undo.info
          /\ call.name \in call.auth
          /\ call.name \in DOMAIN undo.asset

Taken == /\ call.act = "take"
         /\ Opened
         /\ op_funds = Sub(Sub(undo.asset[call.name], call.funds), TimesFeeRate(call.funds))
         /\ GEq(op_funds, 0)
         /\ Self \in DOMAIN undo.asset
         /\ userinfo = undo.info
         /\ userasset = Modify(undo.asset, Self, TimesFeeRate(call.funds))

\* The balances transfer writes, one after the other.
Left     == Sub(undo.asset[call.name], Add(Fee, call.funds))
Debited  == Modify(undo.asset, call.name, Left)
Credited == Modify(Debited, call.to, Add(Debited[call.to], call.funds))

Sent == /\ call.act = "transfer"
        /\ call.name # NoName /\ call.to # NoName /\ Gt(call.funds, 0)
        /\ call.name \in call.auth
        /\ call.to \in DOMAIN undo.info
        /\ call.name \in DOMAIN undo.asset
        /\ GEq(Sub(Sub(undo.asset[call.name], Fee), call.funds), 0)
        /\ GEq(Left, 0)
        /\ userinfo = undo.info

Received == /\ Sent
            /\ call.to \in DOMAIN Debited
            /\ GEq(Add(Debited[call.to], call.funds), 0)
            /\ userasset = Credited

History ==
  /\ step \in {"idle", "enter", "asset", "credit", "fee"}
  /\ step # "idle" => call \in Calls
  /\ step = "enter" => userinfo = undo.info /\ userasset = undo.asset
  /\ step = "asset" => Created \/ Deleted \/ Taken
  /\ step = "credit" => Sent /\ userasset = Debited
  /\ step = "fee" => Received
-----------------------------------------------------------------------------
\* The arguments of a call are what callers pass.
LEMMA CallArgs ==
  ASSUME call \in Calls
  PROVE  /\ call.name \in NameArgs /\ call.auth \in Signers
         /\ call.act = "createacnt" => call.pubkey \in KeyArgs
         /\ call.act \in {"save", "take", "transfer"} => call.funds \in FundsArgs
         /\ call.act = "transfer" => call.to \in NameArgs
BY DEF Calls

\* Arithmetic and tables are the same in both modules.
LEMMA SameAdd ==
  ASSUME NEW a, NEW b
  PROVE  Contract!Add(a, b) = Add(a, b) /\ Contract!Sub(a, b) = Sub(a, b)
BY DEF Contract!Add, Contract!Sub, Contract!Neg, Contract!Inf, Contract!NaN,
       Add, Sub, Neg, Inf, NaN

\* Both modules compare balances and take fees alike.
LEMMA SameCompare ==
  ASSUME NEW a, NEW b
  PROVE  /\ Contract!GEq(a, b) <=> GEq(a, b)
         /\ Contract!Gt(a, b) <=> Gt(a, b)
         /\ Contract!TimesFeeRate(a) = TimesFeeRate(a)
         /\ Contract!TransferFee(a) = TransferFee(a)
BY DEF Contract!GEq, Contract!Gt, Contract!NaN, Contract!Inf, GEq, Gt, NaN, Inf,
       Contract!TimesFeeRate, TimesFeeRate, Contract!TransferFee, TransferFee

\* Both modules write their receipts alike.
LEMMA SameReceipts ==
  ASSUME NEW act, NEW n, NEW funds, NEW auth
  PROVE  Contract!Receipt(act, n, funds, auth) = Receipt(act, n, funds, auth)
BY DEF Contract!Receipt, Receipt

\* Both modules write their tables alike.
LEMMA SameTables ==
  ASSUME NEW t, NEW k, NEW row
  PROVE  /\ Contract!Emplace(t, k, row) = Emplace(t, k, row)
         /\ Contract!Modify(t, k, row) = Modify(t, k, row)
         /\ Contract!Erase(t, k) = Erase(t, k)
BY DEF Contract!Emplace, Contract!Modify, Contract!Erase, Emplace, Modify, Erase

\* The row just written is read back.
LEMMA ReadBack ==
  ASSUME NEW t, NEW k \in DOMAIN t, NEW row
  PROVE  Modify(t, k, row)[k] = row /\ DOMAIN Modify(t, k, row) = DOMAIN t
BY DEF Modify

\* What the outside sees, in the middle of a handler and after it.
LEMMA Seen ==
  /\ step # "idle" => Committed = undo
  /\ step = "idle" => Committed.info = userinfo /\ Committed.asset = userasset
BY DEF Committed

\* The same of the next state.
LEMMA SeenNext ==
  /\ step' # "idle" => Committed' = undo'
  /\ step' = "idle" => (Committed.info)' = userinfo' /\ (Committed.asset)' = userasset'
BY DEF Committed
-----------------------------------------------------------------------------
LEMMA HistoryInit == TxInit => History
BY DEF TxInit, History

\* Every step keeps the account of what the running handler has written so far.
LEMMA HistoryNext == History /\ [TxNext]_txvars => History'
<1> SUFFICES ASSUME History, [TxNext]_txvars PROVE History'
  OBVIOUS
<1> USE DEF Goto, At, Fee
<1>1. CASE Abort
  BY <1>1 DEF Abort, Close, History
<1>2. ASSUME NEW c \in Calls, Start(c) PROVE History'
  BY <1>2 DEF Start, History, tables
<1>3. CASE CreateAsset \/ DeleteAsset \/ SaveAsset \/ TakeAsset \/ TransferOwner
  BY <1>3 DEF CreateAsset, DeleteAsset, SaveAsset, TakeAsset, TransferOwner, Return, Close, History
<1>4. CASE CreateUser
  BY <1>4 DEF CreateUser, History, Created
<1>5. CASE DeleteUser
  BY <1>5 DEF DeleteUser, History, Deleted
<1>6. CASE TakeFee
  BY <1>6 DEF TakeFee, History, Taken, Opened, AssetOpen
<1>7. CASE TransferDebit
  BY <1>7 DEF TransferDebit, FundsOption, History, Sent, Left, Debited
<1>8. CASE TransferCredit
  BY <1>8 DEF TransferCredit, FundsOption, History, Sent, Left, Debited, Received, Credited
<1>9. CASE UNCHANGED txvars
  BY <1>9 DEF txvars, History, Created, Deleted, Taken, Opened, Sent, Left, Debited, Received, Credited
<1> QED
  BY <1>1, <1>2, <1>3, <1>4, <1>5, <1>6, <1>7, <1>8, <1>9 DEF TxNext, Handler
-----------------------------------------------------------------------------
\* A write in the middle of a handler, and the undo of one, are not seen.
LEMMA Unseen ==
  ASSUME step # "idle", UNCHANGED receipt,
         \/ step' # "idle" /\ UNCHANGED undo
         \/ step' = "idle" /\ userinfo' = undo.info /\ userasset' = undo.asset
  PROVE  UNCHANGED Contract!vars
BY Seen, SeenNext DEF Contract!vars

\* The write a handler returns after makes the whole of its atomic action.
LEMMA CreateSeen ==
  ASSUME History, CreateAsset
  PROVE  Contract!CreateAcnt(call.name, call.pubkey, call.auth)
<1>1. Created /\ step # "idle" /\ step' = "idle"
  BY DEF CreateAsset, At, Return, Close, History, Deleted, Taken
<1> QED
  BY <1>1, Seen, SeenNext, SameTables, SameReceipts
  DEF CreateAsset, At, Return, Close, Created,
      Contract!CreateAcnt, Contract!create_asset_data_by_account

\* The last write of deleteacnt shows the whole action at once.
LEMMA DeleteSeen ==
  ASSUME History, DeleteAsset
  PROVE  Contract!DeleteAcnt(call.name, call.auth)
<1>1. Deleted /\ step # "idle" /\ step' = "idle"
  BY DEF DeleteAsset, At, Return, Close, History, Created, Taken
<1> QED
  BY <1>1, Seen, SeenNext, SameTables, SameReceipts
  DEF DeleteAsset, At, Return, Close, Deleted,
      Contract!DeleteAcnt, Contract!delete_asset_data_by_account

\* The only write of save shows the whole action.
LEMMA SaveSeen ==
  ASSUME History, SaveAsset
  PROVE  Contract!Save(call.name, call.funds, call.auth)
<1>1. /\ step # "idle" /\ step' = "idle"
      /\ userinfo = undo.info /\ userasset = undo.asset
  BY DEF SaveAsset, At, Return, Close, History
<1> QED
  BY <1>1, Seen, SeenNext, SameTables, SameReceipts, SameAdd, SameCompare
  DEF SaveAsset, At, AssetOpen, Return, Close, Contract!Save, Contract!AssetOpen

\* The last write of take shows the whole action at once.
LEMMA TakeSeen ==
  ASSUME History, TakeAsset
  PROVE  Contract!Take(call.name, call.funds, call.auth)
<1>1. Taken /\ step # "idle" /\ step' = "idle"
  BY DEF TakeAsset, At, Return, Close, History, Created, Deleted
<1> QED
  BY <1>1, Seen, SeenNext, SameTables, SameReceipts, SameAdd, SameCompare
  DEF TakeAsset, At, Return, Close, Taken, Opened,
      Contract!Take, Contract!AssetOpen, Contract!Remaining

\* The last write of transfer, the fee, shows all three writes at once.
LEMMA TransferSeen ==
  ASSUME History, TransferOwner
  PROVE  Contract!Transfer(call.name, call.to, call.funds, call.auth)
<1>1. Received /\ Sent /\ step # "idle" /\ step' = "idle"
  BY DEF TransferOwner, At, Return, Close, History, Received
<1>2. /\ Contract!Debit(undo.asset, call.name, Contract!Add(Fee, call.funds)) = Debited
      /\ Contract!Credit(Debited, call.to, call.funds) = Credited
      /\ Contract!Credit(Credited, Self, Fee)
           = Modify(Credited, Self, Add(Credited[Self], Fee))
  BY SameTables, SameAdd DEF Contract!Debit, Contract!Credit, Debited, Left, Credited
<1>3. /\ Debited[call.name] = Left /\ DOMAIN Debited = DOMAIN undo.asset
      /\ Credited[call.to] = Add(Debited[call.to], call.funds)
      /\ DOMAIN Credited = DOMAIN undo.asset
  BY <1>1, ReadBack DEF Debited, Credited, Received, Sent
<1>4. /\ Self \in DOMAIN Credited
      /\ GEq(Add(Credited[Self], Fee), 0)
      /\ userasset' = Modify(Credited, Self, Add(Credited[Self], Fee))
      /\ userinfo' = undo.info
      /\ receipt' = Receipt("transfer", call.name, call.funds, call.auth)
  BY <1>1 DEF TransferOwner, At, FundsOption, Return, Received, Sent
<1>5. Modify(Credited, Self, Add(Credited[Self], Fee))[Self] = Add(Credited[Self], Fee)
  BY <1>4, ReadBack
<1>6. Contract!TransferOpen(call.name, call.to, call.funds, call.auth)
  BY <1>1, Seen, SameAdd, SameCompare DEF Contract!TransferOpen, Sent, Fee
<1> QED
  BY <1>1, <1>2, <1>3, <1>4, <1>5, <1>6, Seen, SeenNext, SameReceipts, SameCompare
  DEF Contract!Transfer, Fee, Sent, Received

\* Every step of a handler is a step of the atomic contract or a stutter.
LEMMA StepSimulation == History /\ [TxNext]_txvars => [Contract!Next]_(Contract!vars)
<1> SUFFICES ASSUME History, [TxNext]_txvars PROVE [Contract!Next]_(Contract!vars)
  OBVIOUS
<1>1. CASE Abort
  BY <1>1, Unseen DEF Abort, Close
<1>2. ASSUME NEW c \in Calls, Start(c) PROVE UNCHANGED Contract!vars
  BY <1>2, Seen, SeenNext DEF Start, Contract!vars
<1>3. CASE CreateUser \/ DeleteUser \/ TakeFee \/ TransferDebit \/ TransferCredit
  BY <1>3, Unseen DEF CreateUser, DeleteUser, TakeFee, TransferDebit, TransferCredit, At, Goto
<1>4. CASE CreateAsset
  <2>1. call.name \in NameArgs /\ call.pubkey \in KeyArgs /\ call.auth \in Signers
    BY <1>4, CallArgs DEF CreateAsset, At, History
  <2> QED
    BY <1>4, <2>1, CreateSeen DEF Contract!Next
<1>5. CASE DeleteAsset
  <2>1. call.name \in NameArgs /\ call.auth \in Signers
    BY <1>5, CallArgs DEF DeleteAsset, At, History
  <2> QED
    BY <1>5, <2>1, DeleteSeen DEF Contract!Next
<1>6. CASE SaveAsset
  <2>1. call.name \in NameArgs /\ call.funds \in FundsArgs /\ call.auth \in Signers
    BY <1>6, CallArgs DEF SaveAsset, At, History
  <2> QED
    BY <1>6, <2>1, SaveSeen DEF Contract!Next
<1>7. CASE TakeAsset
  <2>1. call.name \in NameArgs /\ call.funds \in FundsArgs /\ call.auth \in Signers
    BY <1>7, CallArgs DEF TakeAsset, At, History
  <2> QED
    BY <1>7, <2>1, TakeSeen DEF Contract!Next
<1>8. CASE TransferOwner
  <2>1. /\ call.name \in NameArgs /\ call.to \in NameArgs
        /\ call.funds \in FundsArgs /\ call.auth \in Signers
    BY <1>8, CallArgs DEF TransferOwner, At, History
  <2> QED
    BY <1>8, <2>1, TransferSeen DEF Contract!Next
<1>9. CASE UNCHANGED txvars
  BY <1>9 DEF txvars, Committed, Contract!vars
<1> QED
  BY <1>1, <1>2, <1>3, <1>4, <1>5, <1>6, <1>7, <1>8, <1>9 DEF TxNext, Handler

\* The tables start out empty in both.
LEMMA InitSimulation == TxInit => Contract!Init
BY Seen, SameReceipts DEF TxInit, Contract!Init, NoRows, Contract!NoRows

(***************************************************************************)
(* The transaction is atomic: whatever a caller passes and wherever an     *)
(* abort falls, what is committed takes the steps of Keephand and no       *)
(* others.                                                                 *)
(***************************************************************************)
THEOREM Atomic == TxSpec => AtomicContract
<1>1. TxSpec => []History
  BY HistoryInit, HistoryNext, PTL DEF TxSpec
<1> QED
  BY <1>1, InitSimulation, StepSimulation, PTL DEF TxSpec, AtomicContract, Contract!Spec
-----------------------------------------------------------------------------
Sound ==
  /\ Committed \in [info : Table(Accounts, Pubkeys), asset : Table(Accounts, Amounts)]
  /\ DOMAIN Committed.info = DOMAIN Committed.asset

TxIInv ==
  /\ History
  /\ Sound
  /\ op_funds \in Double
  /\ step = "idle" => call = NoCall /\ undo = NoSession

\* The fee of a transfer is an amount.
LEMMA FeesAreAmounts ==
  ASSUME call \in Calls, call.act = "transfer", Gt(call.funds, 0)
  PROVE  Fee \in Amounts /\ call.funds \in Amounts
<1>1. call.funds \in Double
  BY CallArgs, KeephandConsts
<1>2. FeeMin \in Amounts
  BY KeephandConsts, DoubleRange, DoubleConsts DEF Amounts, GEq, Double, Finite, NaN
<1> QED
  BY <1>1, <1>2, FeeAmount, SameCompare DEF Fee, TransferFee

\* The balance a transfer leaves is an amount.
LEMMA DebitedTable ==
  ASSUME Sent, call \in Calls, undo.asset \in Table(Accounts, Amounts)
  PROVE  Debited \in Table(Accounts, Amounts) /\ DOMAIN Debited = DOMAIN undo.asset
<1>1. undo.asset[call.name] \in Amounts
  BY TableIff DEF Sent
<1>2. Add(Fee, call.funds) \in Amounts
  BY FeesAreAmounts, AddAmount DEF Sent
<1>3. Left \in Amounts
  BY <1>1, <1>2, SubType, ZeroAmount DEF Left, Sent, Amounts
<1> QED
  BY <1>3, ModifyTable DEF Debited, Sent

(***************************************************************************)
(* In the middle of a handler the live tables are tables of keys and       *)
(* amounts too, and none of the writes so far has changed the names in     *)
(* userasset.                                                              *)
(***************************************************************************)
LEMMA LiveTables ==
  ASSUME TxIInv
  PROVE  /\ userinfo \in Table(Accounts, Pubkeys)
         /\ userasset \in Table(Accounts, Amounts)
         /\ step # "idle" => DOMAIN userasset = DOMAIN undo.asset
         /\ step = "idle" => DOMAIN userasset = DOMAIN userinfo
         /\ step # "idle" => /\ undo \in [info : Table(Accounts, Pubkeys),
                                          asset : Table(Accounts, Amounts)]
                             /\ DOMAIN undo.info = DOMAIN undo.asset
<1>1. CASE step = "idle"
  BY <1>1, Seen DEF TxIInv, Sound
<1>2. CASE step # "idle"
  <2>1. /\ undo \in [info : Table(Accounts, Pubkeys), asset : Table(Accounts, Amounts)]
        /\ undo.info \in Table(Accounts, Pubkeys) /\ undo.asset \in Table(Accounts, Amounts)
        /\ DOMAIN undo.info = DOMAIN undo.asset
        /\ call \in Calls
    BY <1>2, Seen DEF TxIInv, Sound, History
  <2>2. CASE step = "enter"
    BY <2>1, <2>2 DEF TxIInv, History
  <2>3. CASE Created
    <3>1. call.name \in Accounts /\ call.pubkey \in Pubkeys
      BY <2>1, <2>3, CallArgs, KeephandConsts DEF Created
    <3> QED
      BY <1>2, <2>1, <2>3, <3>1, EmplaceTable DEF Created
  <2>4. CASE Deleted
    BY <1>2, <2>1, <2>4, EraseTable DEF Deleted
  <2>5. CASE Taken
    <3>1. TimesFeeRate(call.funds) \in Amounts
      BY <2>1, <2>5, CallArgs, KeephandConsts, FeeAmount DEF Taken, Opened
    <3> QED
      BY <1>2, <2>1, <2>5, <3>1, ModifyTable DEF Taken
  <2>6. CASE Sent /\ userasset = Debited
    BY <1>2, <2>1, <2>6, DebitedTable DEF Sent
  <2>7. CASE Received
    <3>1. Debited \in Table(Accounts, Amounts) /\ DOMAIN Debited = DOMAIN undo.asset
      BY <2>1, <2>7, DebitedTable DEF Received
    <3>2. Debited[call.to] \in Amounts
      BY <2>7, <3>1, TableIff DEF Received
    <3>3. Add(Debited[call.to], call.funds) \in Amounts
      BY <2>1, <2>7, <3>2, FeesAreAmounts, AddAmount DEF Received, Sent
    <3> QED
      BY <1>2, <2>1, <2>7, <3>1, <3>3, ModifyTable DEF Received, Sent, Credited
  <2> QED
    BY <1>2, <2>2, <2>3, <2>4, <2>5, <2>6, <2>7 DEF TxIInv, History
<1> QED
  BY <1>1, <1>2
-----------------------------------------------------------------------------
LEMMA TxInitInv == TxInit => TxIInv
<1> SUFFICES ASSUME TxInit PROVE TxIInv
  OBVIOUS
<1>1. Committed = [info |-> NoRows, asset |-> NoRows]
  BY DEF TxInit, Committed
<1> QED
  BY <1>1, HistoryInit, NoRowsTable, ZeroAmount DEF TxInit, TxIInv, Sound

\* What a handler that returns has to establish.
LEMMA CommitSound ==
  ASSUME step' = "idle",
         userinfo' \in Table(Accounts, Pubkeys),
         userasset' \in Table(Accounts, Amounts),
         DOMAIN userinfo' = DOMAIN userasset'
  PROVE  Sound'
BY DEF Sound, Committed

\* What a write of a balance keeps.
LEMMA WriteSound ==
  ASSUME TxIInv, step # "idle", DOMAIN userinfo = DOMAIN userasset,
         step' = "idle", UNCHANGED userinfo,
         NEW name \in DOMAIN userasset, NEW funds \in Amounts,
         userasset' = Modify(userasset, name, funds)
  PROVE  Sound'
<1>1. /\ Modify(userasset, name, funds) \in Table(Accounts, Amounts)
      /\ DOMAIN Modify(userasset, name, funds) = DOMAIN userasset
  BY LiveTables, ModifyTable
<1> QED
  BY <1>1, LiveTables, CommitSound

\* Every write keeps the types and the checks the handler still has to pass.
LEMMA TxNextInv == TxIInv /\ [TxNext]_txvars => TxIInv'
<1> SUFFICES ASSUME TxIInv, [TxNext]_txvars PROVE TxIInv'
  OBVIOUS
<1>h. History /\ History'
  BY HistoryNext DEF TxIInv
<1>t. /\ step # "idle" => undo.info \in Table(Accounts, Pubkeys)
      /\ step # "idle" => undo.asset \in Table(Accounts, Amounts)
  BY LiveTables
\* The steps that leave what is committed alone.
<1>0. ASSUME Committed' = Committed, op_funds' \in Double,
             step' = "idle" => call' = NoCall /\ undo' = NoSession
      PROVE  TxIInv'
  BY <1>h, <1>0 DEF TxIInv, Sound
<1>1. CASE Abort
  BY <1>1, <1>h, <1>t, LiveTables, CommitSound, ZeroAmount DEF Abort, Close, TxIInv
<1>2. ASSUME NEW c \in Calls, Start(c) PROVE TxIInv'
  BY <1>0, <1>2 DEF Start, tables, Committed, TxIInv
<1>3. CASE CreateUser \/ DeleteUser \/ TransferDebit \/ TransferCredit
  BY <1>0, <1>3 DEF CreateUser, DeleteUser, TransferDebit, TransferCredit,
                    At, Goto, Committed, TxIInv
<1>4. CASE TakeFee
  <2>1. call.funds \in Double /\ Gt(call.funds, 0) /\ call.name \in DOMAIN userasset
    BY <1>4, <1>h, CallArgs, KeephandConsts DEF TakeFee, At, AssetOpen, History
  <2>2. userasset[call.name] \in Double
    BY <2>1, LiveTables, TableIff, ZeroAmount
  <2>3. op_funds' \in Double
    BY <1>4, <2>1, <2>2, SubType, FeeType DEF TakeFee
  <2> QED
    BY <1>0, <1>4, <2>3 DEF TakeFee, At, Goto, Committed
<1>5. ASSUME Close, Sound' PROVE TxIInv'
  BY <1>5, <1>h, ZeroAmount DEF Close, TxIInv
<1>6. CASE CreateAsset
  <2>1. /\ step # "idle" /\ step' = "idle" /\ call \in Calls /\ Created /\ Close
        /\ userasset' = Emplace(undo.asset, call.name, 0)
        /\ userinfo' = Emplace(undo.info, call.name, call.pubkey)
    BY <1>6, <1>h DEF CreateAsset, At, Return, Close, History, Created, Deleted, Taken
  <2>2. call.name \in Accounts /\ call.pubkey \in Pubkeys
    BY <2>1, CallArgs, KeephandConsts DEF Created
  <2>3. /\ Emplace(undo.info, call.name, call.pubkey) \in Table(Accounts, Pubkeys)
        /\ Emplace(undo.asset, call.name, 0) \in Table(Accounts, Amounts)
        /\ DOMAIN Emplace(undo.info, call.name, call.pubkey)
             = DOMAIN Emplace(undo.asset, call.name, 0)
    <3>1. Emplace(undo.info, call.name, call.pubkey) \in Table(Accounts, Pubkeys)
      BY <1>t, <2>1, <2>2, EmplaceTable
    <3>2. Emplace(undo.asset, call.name, 0) \in Table(Accounts, Amounts)
      BY <1>t, <2>1, <2>2, EmplaceTable, ZeroAmount
    <3>3. DOMAIN undo.info = DOMAIN undo.asset
      BY <2>1, LiveTables
    <3> QED
      BY <3>1, <3>2, <3>3 DEF Emplace
  <2> QED
    BY <1>5, <2>1, <2>3, CommitSound
<1>7. CASE DeleteAsset
  <2>1. /\ step # "idle" /\ step' = "idle" /\ Close
        /\ userasset' = Erase(undo.asset, call.name)
        /\ userinfo' = Erase(undo.info, call.name)
    BY <1>7, <1>h DEF DeleteAsset, At, Return, Close, History, Created, Deleted, Taken
  <2>2. /\ Erase(undo.info, call.name) \in Table(Accounts, Pubkeys)
        /\ Erase(undo.asset, call.name) \in Table(Accounts, Amounts)
        /\ DOMAIN Erase(undo.info, call.name) = DOMAIN Erase(undo.asset, call.name)
    <3>1. Erase(undo.info, call.name) \in Table(Accounts, Pubkeys)
      BY <1>t, <2>1, EraseTable
    <3>2. Erase(undo.asset, call.name) \in Table(Accounts, Amounts)
      BY <1>t, <2>1, EraseTable
    <3>3. DOMAIN undo.info = DOMAIN undo.asset
      BY <2>1, LiveTables
    <3> QED
      BY <3>1, <3>2, <3>3 DEF Erase
  <2> QED
    BY <1>5, <2>1, <2>2, CommitSound
<1>8. CASE SaveAsset
  <2>1. /\ step # "idle" /\ step' = "idle" /\ Close /\ UNCHANGED userinfo
        /\ DOMAIN userinfo = DOMAIN userasset
        /\ call.funds \in FundsArgs /\ Gt(call.funds, 0) /\ call.name \in DOMAIN userasset
    BY <1>8, <1>h, LiveTables, CallArgs
    DEF SaveAsset, At, Return, Close, History, AssetOpen
  <2>2. userasset[call.name] \in Amounts
    BY <2>1, LiveTables, TableIff
  <2>3. Add(userasset[call.name], call.funds) \in Amounts
    BY <2>1, <2>2, KeephandConsts, FeeAmount, AddAmount
  <2> QED
    BY <1>5, <1>8, <2>1, <2>3, WriteSound DEF SaveAsset
<1>9. CASE TakeAsset
  <2>1. /\ step # "idle" /\ step' = "idle" /\ Close /\ Taken /\ UNCHANGED userinfo
    BY <1>9, <1>h DEF TakeAsset, At, Return, Close, History, Created, Deleted
  <2>2. /\ DOMAIN userinfo = DOMAIN userasset
        /\ call.name \in DOMAIN userasset /\ op_funds \in Amounts
    BY <2>1, LiveTables DEF Taken, Opened, TxIInv, Amounts
  <2> QED
    BY <1>5, <1>9, <2>1, <2>2, WriteSound DEF TakeAsset
<1>10. CASE TransferOwner
  <2>1. /\ step # "idle" /\ step' = "idle" /\ Close /\ Sent /\ UNCHANGED userinfo
        /\ call \in Calls /\ Self \in DOMAIN userasset
        /\ userasset' = Modify(userasset, Self, Add(userasset[Self], Fee))
    BY <1>10, <1>h DEF TransferOwner, At, Return, Close, FundsOption, History, Received
  <2>2. DOMAIN userinfo = DOMAIN userasset
    BY <2>1, LiveTables DEF Sent
  <2>3. userasset[Self] \in Amounts
    BY <2>1, LiveTables, TableIff
  <2>4. Add(userasset[Self], Fee) \in Amounts
    BY <2>1, <2>3, FeesAreAmounts, AddAmount DEF Sent
  <2> QED
    BY <1>5, <2>1, <2>2, <2>4, WriteSound
<1>11. CASE UNCHANGED txvars
  BY <1>0, <1>11 DEF txvars, Committed, TxIInv
<1> QED
  BY <1>1, <1>2, <1>3, <1>4, <1>6, <1>7, <1>8, <1>9, <1>10, <1>11 DEF TxNext, Handler

\* The inductive invariant holds between any two writes of any handler
\* (keephand.cpp).
THEOREM TxInvariance == TxSpec => []TxIInv
BY TxInitInv, TxNextInv, PTL DEF TxSpec

(***************************************************************************)
(* In the middle of a handler, too, the tables hold keys and doubles, and  *)
(* a session is open exactly while a handler runs.                         *)
(***************************************************************************)
THEOREM TxTypeCorrect == TxSpec => []TxTypeOK
<1>1. TxIInv => TxTypeOK
  <2> SUFFICES ASSUME TxIInv PROVE TxTypeOK
    OBVIOUS
  <2>1. \A t : t \in Table(Accounts, Amounts) => t \in Table(Accounts, Double)
    BY ZeroAmount, TableIff
  <2>2. userinfo \in Table(Accounts, Pubkeys) /\ userasset \in Table(Accounts, Double)
    BY <2>1, LiveTables
  <2>3. undo \in [info : Table(Accounts, Pubkeys), asset : Table(Accounts, Double)]
    <3>1. CASE step = "idle"
      BY <3>1, NoRowsTable DEF TxIInv, NoSession
    <3>2. CASE step # "idle"
      BY <2>1, <3>2, LiveTables
    <3> QED
      BY <3>1, <3>2
  <2> QED
    BY <2>2, <2>3 DEF TxIInv, History, TxTypeOK
<1> QED
  BY <1>1, TxInvariance, PTL

(***************************************************************************)
(* The assertions that follow a handler's first write, the contract's own  *)
(* row apart, guard against nothing.                                       *)
(***************************************************************************)
THEOREM LateChecksAlwaysHold == TxSpec => []LateChecksHold
<1>1. TxIInv => LateChecksHold
  <2> SUFFICES ASSUME TxIInv PROVE LateChecksHold
    OBVIOUS
  <2>1. ASSUME At("transfer", "credit")
        PROVE  call.to \in DOMAIN userasset /\ GEq(Add(userasset[call.to], call.funds), 0)
    <3>1. Sent /\ call \in Calls /\ call.to \in DOMAIN userasset
      BY <2>1, LiveTables DEF At, TxIInv, History, Sent
    <3>2. userasset[call.to] \in Amounts /\ call.funds \in Amounts
      BY <3>1, LiveTables, TableIff, FeesAreAmounts DEF Sent
    <3> QED
      BY <3>1, <3>2, AddAmount DEF Amounts
  <2>2. ASSUME At("createacnt", "asset") PROVE call.name \notin DOMAIN userasset
    BY <2>2, LiveTables DEF At, TxIInv, History, Created, Deleted, Taken
  <2> QED
    BY <2>1, <2>2 DEF LateChecksHold
<1> QED
  BY <1>1, TxInvariance, PTL
=============================================================================

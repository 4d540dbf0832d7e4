--------------------------- MODULE KeephandProofs ---------------------------
(***************************************************************************)
(* The invariants of the keephand contract, for every set of accounts and  *)
(* keys, every double a caller may pass and every rounding that module     *)
(* Doubles admits.  IInv is inductive: FundsValid needs the type of the    *)
(* rows (the arithmetic of Doubles is about doubles), and TablesAgree      *)
(* needs both tables to be tables.  Action properties follow: what one     *)
(* action may do to the balances of others, to the sum of all balances,    *)
(* and to its sender's.                                                    *)
(***************************************************************************)
EXTENDS KeephandSupply, FiniteSetTheorems, WellFoundedInduction, TLAPS

-----------------------------------------------------------------------------
(***************************************************************************)
(* What the operations the contract is built from return: those of module  *)
(* MultiIndex for any keys and rows, those of Doubles for every rounding   *)
(* the assumptions of that module allow.                                   *)
(***************************************************************************)

\* A table is a function from some of the keys to rows.
LEMMA TableIff ==
  ASSUME NEW K, NEW R, NEW t
  PROVE  t \in Table(K, R) <=> DOMAIN t \subseteq K /\ t \in [DOMAIN t -> R]
BY DEF Table

\* The empty table.
LEMMA NoRowsTable ==
  ASSUME NEW K, NEW R
  PROVE  NoRows \in Table(K, R) /\ DOMAIN NoRows = {}
BY DEF NoRows, Table

\* emplace adds its row and keeps the others.
LEMMA EmplaceTable ==
  ASSUME NEW K, NEW R, NEW t \in Table(K, R), NEW k \in K, NEW row \in R
  PROVE  /\ Emplace(t, k, row) \in Table(K, R)
         /\ DOMAIN Emplace(t, k, row) = DOMAIN t \union {k}
         /\ \A x \in DOMAIN t \union {k} :
              Emplace(t, k, row)[x] = IF x = k THEN row ELSE t[x]
<1>1. DOMAIN t \subseteq K /\ t \in [DOMAIN t -> R]
  BY TableIff
<1>2. DOMAIN Emplace(t, k, row) = DOMAIN t \union {k}
  BY DEF Emplace
<1>3. Emplace(t, k, row) \in [DOMAIN t \union {k} -> R]
  BY <1>1 DEF Emplace
<1> QED
  BY <1>1, <1>2, <1>3, TableIff DEF Emplace

\* modify rewrites one row and keeps the keys and the other rows.
LEMMA ModifyTable ==
  ASSUME NEW K, NEW R, NEW t \in Table(K, R), NEW k \in DOMAIN t, NEW row \in R
  PROVE  /\ Modify(t, k, row) \in Table(K, R)
         /\ DOMAIN Modify(t, k, row) = DOMAIN t
         /\ \A x \in DOMAIN t :
              Modify(t, k, row)[x] = IF x = k THEN row ELSE t[x]
<1>1. DOMAIN t \subseteq K /\ t \in [DOMAIN t -> R]
  BY TableIff
<1>2. Modify(t, k, row) \in [DOMAIN t -> R]
  BY <1>1 DEF Modify
<1> QED
  BY <1>1, <1>2, TableIff DEF Modify

\* erase drops one row and keeps the others.
LEMMA EraseTable ==
  ASSUME NEW K, NEW R, NEW t \in Table(K, R), NEW k
  PROVE  /\ Erase(t, k) \in Table(K, R)
         /\ DOMAIN Erase(t, k) = DOMAIN t \ {k}
         /\ \A x \in DOMAIN t \ {k} : Erase(t, k)[x] = t[x]
<1>1. DOMAIN t \subseteq K /\ t \in [DOMAIN t -> R]
  BY TableIff
<1>2. DOMAIN Erase(t, k) = DOMAIN t \ {k}
  BY DEF Erase
<1>3. Erase(t, k) \in [DOMAIN t \ {k} -> R]
  BY <1>1 DEF Erase
<1> QED
  BY <1>1, <1>2, <1>3, TableIff DEF Erase
-----------------------------------------------------------------------------
\* Scaling keeps the order, so the exact result of an operation is in Exact.
LEMMA ScaleMono ==
  ASSUME NEW x \in Int, NEW y \in Int, x <= y
  PROVE  x * FeeDen <= y * FeeDen
BY DoubleConsts

\* The exact sum of two finite doubles is something Round is defined on.
LEMMA SumIsExact ==
  ASSUME NEW a \in -MaxFinite .. MaxFinite, NEW b \in -MaxFinite .. MaxFinite
  PROVE  (a + b) * FeeDen \in Exact
<1>1. MaxFinite \in Nat /\ FeeDen \in Nat
  BY DoubleConsts
<1>2. a + b \in Int /\ -(2 * MaxFinite) <= a + b /\ a + b <= 2 * MaxFinite
  BY <1>1
<1>3. (a + b) * FeeDen <= (2 * MaxFinite) * FeeDen
  BY <1>1, <1>2, ScaleMono
<1>4. (-(2 * MaxFinite)) * FeeDen <= (a + b) * FeeDen
  BY <1>1, <1>2, ScaleMono
<1>5. (-(2 * MaxFinite)) * FeeDen = -(2 * MaxFinite * FeeDen)
  BY <1>1
<1> QED
  BY <1>1, <1>2, <1>3, <1>4, <1>5 DEF Exact

\* So is the exact product of a finite double by fee_rate.
LEMMA FiniteIsExact ==
  ASSUME NEW a \in -MaxFinite .. MaxFinite
  PROVE  a \in Exact
<1>1. MaxFinite \in Nat /\ FeeDen \in Nat \ {0}
  BY DoubleConsts
<1>2. (2 * MaxFinite) * 1 <= (2 * MaxFinite) * FeeDen
  BY <1>1
<1> QED
  BY <1>1, <1>2 DEF Exact

\* Zero is an exact result, and the smallest non-negative one.
LEMMA RoundNonNeg ==
  ASSUME NEW x \in Exact, x >= 0
  PROVE  Round[x] >= 0
<1>1. 0 \in Exact
  BY DoubleConsts, FiniteIsExact
<1> QED
  BY <1>1, RoundMono, RoundZero

\* Every double is an integer; the special ones lie outside the finite range.
LEMMA DoubleRange ==
  /\ Inf \in Int /\ NaN \in Int /\ Inf > 0 /\ NaN > Inf /\ -Inf \in Int
  /\ Finite \subseteq -MaxFinite .. MaxFinite
  /\ \A a \in Double : a \in Int
  /\ \A a \in Double : a \notin {-Inf, Inf, NaN} => a \in Finite
  /\ 0 \in Finite
<1>1. 0 * FeeDen = 0
  BY DoubleConsts
<1> QED
  BY <1>1, DoubleConsts, RoundZero DEF Inf, NaN, Finite, Double

\* Rounding gives a double, and never NaN.
LEMMA RoundResult ==
  ASSUME NEW x \in Exact
  PROVE  Round[x] \in Double /\ Round[x] # NaN /\ Round[x] \in Int
<1>1. Round[x] \in Finite \union {-Inf, Inf}
  BY RoundType
<1>2. Inf # NaN /\ -Inf # NaN /\ NaN \notin Finite
  BY DoubleRange, DoubleConsts DEF Inf, NaN
<1> QED
  BY <1>1, <1>2, DoubleRange DEF Double

\* Every double lies between the infinities, or is NaN.
LEMMA DoubleOrdered ==
  /\ \A a \in Double : a \in Ordered \union {NaN}
  /\ \A a \in Ordered \union {NaN} : Neg(a) \in Ordered \union {NaN}
  /\ \A a \in Ordered \union {NaN} :
        a \notin {-Inf, Inf, NaN} => a \in -MaxFinite .. MaxFinite
BY DoubleRange, DoubleConsts DEF Double, Inf, NaN, Ordered, Neg

\* A sum is a double, whatever the operands.
LEMMA AddType ==
  ASSUME NEW a \in Ordered \union {NaN}, NEW b \in Ordered \union {NaN}
  PROVE  Add(a, b) \in Double
<1>1. CASE a \in {-Inf, Inf, NaN} \/ b \in {-Inf, Inf, NaN}
  BY <1>1 DEF Add, Double
<1>2. CASE a \notin {-Inf, Inf, NaN} /\ b \notin {-Inf, Inf, NaN}
  <2>1. (a + b) * FeeDen \in Exact
    BY <1>2, DoubleOrdered, SumIsExact
  <2>2. Add(a, b) = Round[(a + b) * FeeDen]
    BY <1>2 DEF Add
  <2> QED
    BY <2>1, <2>2, RoundResult
<1> QED
  BY <1>1, <1>2

\* So is a difference, also of a difference.
LEMMA SubType ==
  ASSUME NEW a \in Double, NEW b \in Double
  PROVE  Sub(a, b) \in Double
BY DoubleOrdered, AddType DEF Sub

\* The sum of two non-negative doubles is one: no NaN, no sign change.
LEMMA AddNonNeg ==
  ASSUME NEW a \in Double, NEW b \in Double, GEq(a, 0), GEq(b, 0)
  PROVE  GEq(Add(a, b), 0)
<1>1. a # NaN /\ b # NaN /\ a >= 0 /\ b >= 0 /\ a # -Inf /\ b # -Inf
  BY DoubleRange DEF GEq
<1>2. CASE a = Inf \/ b = Inf
  BY <1>1, <1>2, DoubleRange DEF Add, GEq
<1>3. CASE a # Inf /\ b # Inf
  <2>1. a \in Finite /\ b \in Finite
    BY <1>1, <1>3, DoubleRange
  <2>2. (a + b) * FeeDen \in Exact
    BY <2>1, DoubleRange, SumIsExact
  <2>3. a + b \in Int /\ a + b >= 0
    BY <1>1, <2>1, DoubleRange
  <2>4. 0 * FeeDen <= (a + b) * FeeDen
    BY <2>3, ScaleMono
  <2>5. Round[(a + b) * FeeDen] >= 0
    BY <2>2, <2>4, RoundNonNeg, DoubleConsts
  <2>6. Add(a, b) = Round[(a + b) * FeeDen]
    BY <1>1, <1>3 DEF Add
  <2>7. Round[(a + b) * FeeDen] # NaN
    BY <2>2, RoundResult
  <2> QED
    BY <2>5, <2>6, <2>7 DEF GEq
<1> QED
  BY <1>2, <1>3

\* Adding an amount to an amount never gives less: rounding is monotone.
LEMMA AddGrows ==
  ASSUME NEW a \in Double, NEW b \in Double, GEq(a, 0), GEq(b, 0)
  PROVE  Add(a, b) >= a
<1>1. a # NaN /\ b # NaN /\ a >= 0 /\ b >= 0 /\ a # -Inf /\ b # -Inf
  BY DoubleRange DEF GEq
<1>2. CASE a = Inf
  BY <1>1, <1>2, DoubleRange DEF Add
<1>3. CASE a # Inf /\ b = Inf
  <2>1. a \in Finite /\ Add(a, b) = Inf
    BY <1>1, <1>3, DoubleRange DEF Add
  <2> QED
    BY <2>1, DoubleRange, DoubleConsts DEF Inf
<1>4. CASE a # Inf /\ b # Inf
  <2>1. /\ a \in Finite /\ b \in Finite
        /\ a \in -MaxFinite .. MaxFinite /\ b \in -MaxFinite .. MaxFinite
        /\ 0 \in -MaxFinite .. MaxFinite
    BY <1>1, <1>4, DoubleRange
  <2>2. (a + b) * FeeDen \in Exact /\ (a + 0) * FeeDen \in Exact
    BY <2>1, SumIsExact
  <2>3. (a + 0) * FeeDen <= (a + b) * FeeDen
    BY <1>1, <2>1, ScaleMono
  <2>4. Round[(a + 0) * FeeDen] <= Round[(a + b) * FeeDen]
    BY <2>2, <2>3, RoundMono
  <2>5. a + 0 = a /\ Round[a * FeeDen] = a
    BY <2>1 DEF Finite
  <2>6. Add(a, b) = Round[(a + b) * FeeDen] /\ Round[(a + b) * FeeDen] \in Int
    BY <1>1, <1>4, <2>2, RoundResult DEF Add
  <2> QED
    BY <2>1, <2>4, <2>5, <2>6
<1> QED
  BY <1>2, <1>3, <1>4

\* The fee on a positive amount is a double, and not negative.
LEMMA FeeType ==
  ASSUME NEW a \in Double
  PROVE  TimesFeeRate(a) \in Double
<1>1. CASE a \in {-Inf, Inf, NaN}
  BY <1>1 DEF TimesFeeRate
<1>2. CASE a \notin {-Inf, Inf, NaN}
  BY <1>2, DoubleRange, FiniteIsExact, RoundResult DEF TimesFeeRate
<1> QED
  BY <1>1, <1>2

\* The fee on a positive amount is never negative, whatever is rounded.
LEMMA FeeNonNeg ==
  ASSUME NEW a \in Double, Gt(a, 0)
  PROVE  GEq(TimesFeeRate(a), 0)
<1>1. a # NaN /\ a # -Inf /\ a > 0
  BY DoubleRange DEF Gt
<1>2. CASE a = Inf
  BY <1>1, <1>2, DoubleRange DEF TimesFeeRate, GEq
<1>3. CASE a # Inf
  <2>1. a \in Int /\ a \in Finite /\ a \in Exact
    BY <1>1, <1>3, DoubleRange, FiniteIsExact
  <2>2. Round[a] >= 0 /\ Round[a] # NaN
    BY <1>1, <2>1, RoundNonNeg, RoundResult
  <2> QED
    BY <1>1, <1>3, <2>2 DEF TimesFeeRate, GEq, Gt
<1> QED
  BY <1>2, <1>3
-----------------------------------------------------------------------------
\* What a balance, a fee or an amount moved may be.
Amounts == {a \in Double : GEq(a, 0)}

\* A sum of amounts is one.
LEMMA AddAmount ==
  ASSUME NEW a \in Amounts, NEW b \in Amounts
  PROVE  Add(a, b) \in Amounts
BY AddType, AddNonNeg, DoubleOrdered DEF Amounts

\* A positive double is an amount and has a fee.
LEMMA FeeAmount ==
  ASSUME NEW funds \in Double, Gt(funds, 0)
  PROVE  funds \in Amounts /\ TimesFeeRate(funds) \in Amounts
<1>1. funds \in Amounts
  BY DoubleRange DEF Gt, GEq, Amounts
<1> QED
  BY <1>1, FeeType, FeeNonNeg DEF Amounts

\* Zero is an amount and every amount is a double.
LEMMA ZeroAmount == 0 \in Amounts /\ 0 \in Double /\ Amounts \subseteq Double
BY DoubleRange, DoubleConsts DEF Amounts, GEq, Double, NaN
-----------------------------------------------------------------------------
IInv == TypeOK /\ TablesAgree /\ FundsValid

\* Zero is an amount, and so is the least fee.
LEMMA Constants ==
  /\ 0 \in Amounts /\ 0 \in Double /\ FeeMin \in Amounts
  /\ Amounts \subseteq Double
  /\ FundsArgs \subseteq Double
  /\ Self \in Accounts
BY KeephandConsts, ZeroAmount, DoubleRange, DoubleConsts DEF Amounts, GEq, Double, Finite, NaN

\* The invariant says that userasset is a table of amounts.
LEMMA AssetTable ==
  ASSUME TypeOK
  PROVE  FundsValid <=> userasset \in Table(Accounts, Amounts)
<1>1. /\ DOMAIN userasset \subseteq Accounts
      /\ userasset \in [DOMAIN userasset -> Double]
  BY TableIff DEF TypeOK
<1>2. FundsValid <=> userasset \in [DOMAIN userasset -> Amounts]
  BY <1>1 DEF FundsValid, Amounts
<1> QED
  BY <1>1, <1>2, TableIff

\* A positive amount and the fee on it are amounts a balance may hold.
LEMMA FeeIsAmount ==
  ASSUME NEW funds \in Double, Gt(funds, 0)
  PROVE  /\ funds \in Amounts
         /\ TimesFeeRate(funds) \in Amounts
         /\ TransferFee(funds) \in Amounts
BY FeeAmount, Constants DEF TransferFee

\* A credit keeps a table of amounts one.
LEMMA CreditTable ==
  ASSUME NEW t \in Table(Accounts, Amounts), NEW n \in DOMAIN t, NEW x \in Amounts
  PROVE  /\ Credit(t, n, x) \in Table(Accounts, Amounts)
         /\ DOMAIN Credit(t, n, x) = DOMAIN t
<1>1. t[n] \in Amounts
  BY TableIff
<1>2. Add(t[n], x) \in Amounts
  BY <1>1, AddAmount
<1> QED
  BY <1>2, ModifyTable DEF Credit

\* A debit does when the assertion after it holds.
LEMMA DebitTable ==
  ASSUME NEW t \in Table(Accounts, Amounts), NEW n \in DOMAIN t, NEW x \in Amounts,
         GEq(Debit(t, n, x)[n], 0)
  PROVE  /\ Debit(t, n, x) \in Table(Accounts, Amounts)
         /\ DOMAIN Debit(t, n, x) = DOMAIN t
<1>1. t[n] \in Amounts /\ t \in [DOMAIN t -> Amounts]
  BY TableIff
<1>2. Debit(t, n, x)[n] = Sub(t[n], x)
  BY <1>1 DEF Debit, Modify
<1>3. Sub(t[n], x) \in Amounts
  BY <1>1, <1>2, SubType DEF Amounts
<1> QED
  BY <1>3, ModifyTable DEF Debit
-----------------------------------------------------------------------------
LEMMA InitInv == Init => IInv
<1> SUFFICES ASSUME Init PROVE IInv
  OBVIOUS
<1>1. TypeOK
  BY NoRowsTable, Constants DEF Init, TypeOK, Receipt, Acts
<1>2. TablesAgree /\ FundsValid
  BY NoRowsTable DEF Init, TablesAgree, FundsValid
<1> QED
  BY <1>1, <1>2 DEF IInv

\* What a handler has to establish: tables over the same accounts.
LEMMA StepInv ==
  ASSUME userinfo' \in Table(Accounts, Pubkeys),
         userasset' \in Table(Accounts, Amounts),
         DOMAIN userinfo' = DOMAIN userasset',
         receipt' \in [act : Acts, name : Accounts \union {NoName},
                       funds : Double, auth : SUBSET Accounts]
  PROVE  IInv'
<1>1. /\ DOMAIN userasset' \subseteq Accounts
      /\ userasset' \in [DOMAIN userasset' -> Amounts]
  BY TableIff
<1>2. userasset' \in Table(Accounts, Double)
  BY <1>1, TableIff, Constants
<1> QED
  BY <1>1, <1>2 DEF IInv, TypeOK, TablesAgree, FundsValid, Amounts

\* The receipts the handlers write are well formed.
LEMMA ReceiptType ==
  ASSUME NEW act \in Acts, NEW name \in NameArgs, NEW funds \in Double, NEW auth \in Signers
  PROVE  Receipt(act, name, funds, auth) \in
           [act : Acts, name : Accounts \union {NoName},
            funds : Double, auth : SUBSET Accounts]
BY KeephandConsts DEF Receipt
-----------------------------------------------------------------------------
LEMMA NextInv == IInv /\ [Next]_vars => IInv'
<1> SUFFICES ASSUME IInv, [Next]_vars PROVE IInv'
  OBVIOUS
<1>t. userinfo \in Table(Accounts, Pubkeys) /\ userasset \in Table(Accounts, Amounts)
  BY AssetTable DEF IInv, TypeOK
<1>0. /\ userinfo \in Table(Accounts, Pubkeys)
      /\ userasset \in Table(Accounts, Amounts)
      /\ DOMAIN userinfo = DOMAIN userasset
      /\ DOMAIN userasset \subseteq Accounts
      /\ \A n \in DOMAIN userasset : userasset[n] \in Amounts
  BY AssetTable, TableIff DEF IInv, TypeOK, TablesAgree
<1>1. ASSUME NEW name \in NameArgs, NEW pubkey \in KeyArgs, NEW auth \in Signers,
             CreateAcnt(name, pubkey, auth)
      PROVE  IInv'
  <2>1. /\ name \in Accounts /\ pubkey \in Pubkeys
        /\ userinfo' = Emplace(userinfo, name, pubkey)
        /\ userasset' = Emplace(userasset, name, 0)
        /\ receipt' = Receipt("createacnt", name, 0, auth)
    BY <1>1, KeephandConsts DEF CreateAcnt, create_asset_data_by_account
  <2>2. /\ userinfo' \in Table(Accounts, Pubkeys)
        /\ DOMAIN userinfo' = DOMAIN userinfo \union {name}
    <3>1. Emplace(userinfo, name, pubkey) \in Table(Accounts, Pubkeys)
      BY <1>t, <2>1, EmplaceTable
    <3>2. DOMAIN Emplace(userinfo, name, pubkey) = DOMAIN userinfo \union {name}
      BY DEF Emplace
    <3> QED
      BY <2>1, <3>1, <3>2
  <2>3. /\ userasset' \in Table(Accounts, Amounts)
        /\ DOMAIN userasset' = DOMAIN userasset \union {name}
    <3>1. Emplace(userasset, name, 0) \in Table(Accounts, Amounts)
      BY <1>t, <2>1, EmplaceTable, Constants
    <3>2. DOMAIN Emplace(userasset, name, 0) = DOMAIN userasset \union {name}
      BY DEF Emplace
    <3> QED
      BY <2>1, <3>1, <3>2
  <2>4. receipt' \in [act : Acts, name : Accounts \union {NoName},
                     funds : Double, auth : SUBSET Accounts]
    BY <2>1, ReceiptType, Constants DEF Acts
  <2> QED
    BY <1>0, <2>2, <2>3, <2>4, StepInv
<1>2. ASSUME NEW name \in NameArgs, NEW auth \in Signers, DeleteAcnt(name, auth)
      PROVE  IInv'
  <2>1. /\ userinfo' = Erase(userinfo, name)
        /\ userasset' = Erase(userasset, name)
        /\ receipt' = Receipt("deleteacnt", name, 0, auth)
    BY <1>2 DEF DeleteAcnt, delete_asset_data_by_account
  <2>2. /\ userinfo' \in Table(Accounts, Pubkeys)
        /\ DOMAIN userinfo' = DOMAIN userinfo \ {name}
    <3>1. Erase(userinfo, name) \in Table(Accounts, Pubkeys)
      BY <1>t, EraseTable
    <3>2. DOMAIN Erase(userinfo, name) = DOMAIN userinfo \ {name}
      BY DEF Erase
    <3> QED
      BY <2>1, <3>1, <3>2
  <2>3. /\ userasset' \in Table(Accounts, Amounts)
        /\ DOMAIN userasset' = DOMAIN userasset \ {name}
    <3>1. Erase(userasset, name) \in Table(Accounts, Amounts)
      BY <1>t, EraseTable
    <3>2. DOMAIN Erase(userasset, name) = DOMAIN userasset \ {name}
      BY DEF Erase
    <3> QED
      BY <2>1, <3>1, <3>2
  <2>4. receipt' \in [act : Acts, name : Accounts \union {NoName},
                     funds : Double, auth : SUBSET Accounts]
    BY <2>1, ReceiptType, Constants DEF Acts
  <2> QED
    BY <1>0, <2>2, <2>3, <2>4, StepInv
<1>3. ASSUME NEW name \in NameArgs, NEW funds \in FundsArgs, NEW auth \in Signers,
             Save(name, funds, auth)
      PROVE  IInv'
  <2>1. name \in DOMAIN userasset /\ funds \in Double /\ Gt(funds, 0)
    BY <1>3, Constants DEF Save, AssetOpen
  <2>2. userasset' = Credit(userasset, name, funds)
    BY <1>3 DEF Save, Credit
  <2>3. /\ userasset' \in Table(Accounts, Amounts)
        /\ DOMAIN userasset' = DOMAIN userasset
    BY <1>0, <2>1, <2>2, CreditTable, FeeIsAmount
  <2> QED
    BY <1>0, <1>3, <2>1, <2>3, StepInv, ReceiptType DEF Save, Acts
<1>4. ASSUME NEW name \in NameArgs, NEW funds \in FundsArgs, NEW auth \in Signers,
             Take(name, funds, auth)
      PROVE  IInv'
  <2> DEFINE fee  == TimesFeeRate(funds)
             rest == Remaining(userasset[name], funds)
             paid == Modify(userasset, Self, fee)
  <2>1. /\ name \in DOMAIN userasset /\ Self \in DOMAIN userasset
        /\ funds \in Double /\ Gt(funds, 0) /\ GEq(rest, 0)
        /\ userasset' = Modify(paid, name, rest)
    BY <1>4, Constants DEF Take, AssetOpen
  <2>2. fee \in Amounts /\ fee \in Double
    BY <2>1, FeeIsAmount, Constants
  <2>3. rest \in Amounts
    <3>1. userasset[name] \in Double
      BY <1>0, <2>1, Constants
    <3>2. Sub(userasset[name], funds) \in Double
      BY <2>1, <3>1, SubType
    <3> QED
      BY <2>1, <2>2, <3>2, SubType DEF Remaining, Amounts
  <2>4. paid \in Table(Accounts, Amounts) /\ DOMAIN paid = DOMAIN userasset
    BY <1>0, <2>1, <2>2, ModifyTable
  <2>5. /\ userasset' \in Table(Accounts, Amounts)
        /\ DOMAIN userasset' = DOMAIN userasset
    BY <2>1, <2>3, <2>4, ModifyTable
  <2> QED
    BY <1>0, <1>4, <2>1, <2>5, StepInv, ReceiptType DEF Take, Acts
<1>5. ASSUME NEW name \in NameArgs, NEW to \in NameArgs, NEW funds \in FundsArgs,
             NEW auth \in Signers, Transfer(name, to, funds, auth)
      PROVE  IInv'
  <2> DEFINE fee      == TransferFee(funds)
             debited  == Debit(userasset, name, Add(fee, funds))
             credited == Credit(debited, to, funds)
  <2>1. /\ {name, to, Self} \subseteq DOMAIN userasset
        /\ funds \in Double /\ Gt(funds, 0)
        /\ GEq(debited[name], 0)
        /\ userasset' = Credit(credited, Self, fee)
    BY <1>0, <1>5, Constants DEF Transfer, TransferOpen
  <2>2. fee \in Amounts /\ funds \in Amounts
    BY <2>1, FeeIsAmount
  <2>3. Add(fee, funds) \in Amounts
    BY <2>2, AddAmount
  <2>4. debited \in Table(Accounts, Amounts) /\ DOMAIN debited = DOMAIN userasset
    BY <1>0, <2>1, <2>3, DebitTable
  <2>5. credited \in Table(Accounts, Amounts) /\ DOMAIN credited = DOMAIN userasset
    BY <2>1, <2>2, <2>4, CreditTable
  <2>6. /\ userasset' \in Table(Accounts, Amounts)
        /\ DOMAIN userasset' = DOMAIN userasset
    BY <2>1, <2>2, <2>5, CreditTable
  <2> QED
    BY <1>0, <1>5, <2>1, <2>6, StepInv, ReceiptType DEF Transfer, Acts
<1>6. CASE UNCHANGED vars
  BY <1>6 DEF vars, IInv, TypeOK, TablesAgree, FundsValid
<1> QED
  BY <1>1, <1>2, <1>3, <1>4, <1>5, <1>6 DEF Next

\* The inductive invariant holds in every reachable state.
THEOREM Invariance == Spec => []IInv
BY InitInv, NextInv, PTL DEF Spec

(***************************************************************************)
(* The tables are tables of keys and doubles throughout: no sum or         *)
(* difference leaves the doubles.                                          *)
(***************************************************************************)
THEOREM TypeCorrect == Spec => []TypeOK
<1>1. IInv => TypeOK
  BY DEF IInv
<1> QED
  BY <1>1, Invariance, PTL

\* createacnt and deleteacnt keep the two tables over the same accounts.
THEOREM TablesAlwaysAgree == Spec => []TablesAgree
<1>1. IInv => TablesAgree
  BY DEF IInv
<1> QED
  BY <1>1, Invariance, PTL

(***************************************************************************)
(* No handler ever stores a negative balance or NaN, for every rounding    *)
(* that is monotone and maps zero to zero.                                 *)
(***************************************************************************)
THEOREM FundsAlwaysValid == Spec => []FundsValid
<1>1. IInv => FundsValid
  BY DEF IInv
<1> QED
  BY <1>1, Invariance, PTL
-----------------------------------------------------------------------------
(* What one action may do to the balances of others: a balance goes down   *)
(* only with its owner's signature, and not at all while the contract's    *)
(* own account is missing.                                                 *)

\* What the invariant says of a row that is there before and after a step.
LEMMA RowFacts ==
  ASSUME IInv
  PROVE  /\ userasset \in Table(Accounts, Amounts)
         /\ userasset \in [DOMAIN userasset -> Amounts]
         /\ \A n \in DOMAIN userasset : userasset[n] \in Double /\ userasset[n] \in Int
<1>1. userasset \in Table(Accounts, Amounts)
  BY AssetTable DEF IInv
<1>2. userasset \in [DOMAIN userasset -> Amounts]
  BY <1>1, TableIff
<1> QED
  BY <1>1, <1>2, Constants, DoubleRange

\* Registering and dropping accounts leaves every other row alone.
LEMMA AccountStep ==
  ASSUME NEW name, NEW pubkey, NEW auth,
         CreateAcnt(name, pubkey, auth) \/ DeleteAcnt(name, auth),
         NEW n, Kept(n)
  PROVE  userasset'[n] = userasset[n]
<1>1. CASE CreateAcnt(name, pubkey, auth)
  BY <1>1 DEF CreateAcnt, create_asset_data_by_account, Emplace, Kept
<1>2. CASE DeleteAcnt(name, auth)
  BY <1>2 DEF DeleteAcnt, delete_asset_data_by_account, Erase, Kept
<1> QED
  BY <1>1, <1>2

\* A saving lowers nothing.
LEMMA SaveStep ==
  ASSUME IInv,
         NEW name, NEW funds \in FundsArgs, NEW auth, Save(name, funds, auth),
         NEW n, Kept(n)
  PROVE  userasset'[n] >= userasset[n]
<1>1. /\ name \in DOMAIN userasset /\ funds \in Double /\ Gt(funds, 0)
      /\ userasset' = Modify(userasset, name, Add(userasset[name], funds))
  BY Constants DEF Save, AssetOpen
<1>2. userasset[name] \in Double /\ GEq(userasset[name], 0) /\ userasset[n] \in Int
  BY <1>1, RowFacts DEF IInv, FundsValid, Kept
<1>3. GEq(funds, 0)
  BY <1>1, FeeIsAmount DEF Amounts
<1>4. Add(userasset[name], funds) >= userasset[name]
  BY <1>1, <1>2, <1>3, AddGrows
<1> QED
  BY <1>1, <1>2, <1>4 DEF Modify, Kept

\* A withdrawal leaves the rows of third accounts alone.
LEMMA TakeStep ==
  ASSUME NEW name, NEW funds, NEW auth, Take(name, funds, auth),
         NEW n, Kept(n), n # name, n # Self
  PROVE  userasset'[n] = userasset[n]
BY DEF Take, Modify, Kept

\* A transfer lowers no row but the sender's.
LEMMA TransferStep ==
  ASSUME IInv,
         NEW name, NEW to, NEW funds \in FundsArgs, NEW auth,
         Transfer(name, to, funds, auth),
         NEW n, Kept(n), n # name, n # Self
  PROVE  userasset'[n] >= userasset[n]
<1> DEFINE fee      == TransferFee(funds)
           debited  == Debit(userasset, name, Add(fee, funds))
           credited == Credit(debited, to, funds)
<1>1. /\ funds \in Double /\ Gt(funds, 0) /\ to \in DOMAIN userasset
      /\ userasset' = Credit(credited, Self, fee)
  BY Constants DEF Transfer, TransferOpen
<1>2. n \in DOMAIN userasset /\ DOMAIN debited = DOMAIN userasset /\ DOMAIN credited = DOMAIN userasset
  BY DEF Debit, Credit, Modify, Kept
<1>3. debited[n] = userasset[n] /\ userasset'[n] = credited[n]
  BY <1>1, <1>2 DEF Debit, Credit, Modify
<1>4. CASE n # to
  <2>1. credited[n] = debited[n]
    BY <1>2, <1>4 DEF Credit, Modify
  <2> QED
    BY <1>2, <1>3, <2>1, RowFacts
<1>5. CASE n = to
  <2>1. credited[n] = Add(userasset[n], funds)
    BY <1>2, <1>3, <1>5 DEF Credit, Modify
  <2>2. userasset[n] \in Double /\ GEq(userasset[n], 0)
    BY <1>2, RowFacts DEF IInv, FundsValid
  <2>3. GEq(funds, 0)
    BY <1>1, FeeIsAmount DEF Amounts
  <2> QED
    BY <1>1, <1>3, <2>1, <2>2, <2>3, AddGrows
<1> QED
  BY <1>4, <1>5
-----------------------------------------------------------------------------
(***************************************************************************)
(* Nobody's funds go down in an action they have not signed, the           *)
(* contract's own row apart: for every rounding, every amount and every    *)
(* coincidence of sender, receiver and contract.                           *)
(***************************************************************************)
THEOREM DebitsAreAuthorised == Spec => DebitAuthorised
<1> DEFINE Signed(n) == Kept(n) /\ userasset'[n] < userasset[n] => n \in receipt'.auth
<1>1. ASSUME IInv, Next, NEW n \in Accounts \ {Self} PROVE Signed(n)
  <2> SUFFICES ASSUME Kept(n), userasset'[n] < userasset[n] PROVE n \in receipt'.auth
    OBVIOUS
  <2>1. n \in DOMAIN userasset /\ userasset[n] \in Int
    BY <1>1, RowFacts DEF Kept
  <2>2. userasset'[n] # userasset[n]
    BY <2>1
  <2>3. ASSUME userasset'[n] >= userasset[n] PROVE FALSE
    <3>1. userasset' \in Table(Accounts, Double)
      BY <1>1, NextInv DEF IInv, TypeOK
    <3>2. userasset'[n] \in Int
      BY <3>1, TableIff, DoubleRange DEF Kept
    <3> QED
      BY <2>1, <2>3, <3>2
  <2>4. ASSUME NEW name \in NameArgs, NEW auth \in Signers,
               \/ \E pubkey \in KeyArgs : CreateAcnt(name, pubkey, auth)
               \/ DeleteAcnt(name, auth)
        PROVE  n \in receipt'.auth
    BY <2>2, <2>4, AccountStep
  <2>5. ASSUME NEW name \in NameArgs, NEW auth \in Signers, NEW funds \in FundsArgs,
               Save(name, funds, auth)
        PROVE  n \in receipt'.auth
    BY <1>1, <2>3, <2>5, SaveStep
  <2>6. ASSUME NEW name \in NameArgs, NEW auth \in Signers, NEW funds \in FundsArgs,
               Take(name, funds, auth)
        PROVE  n \in receipt'.auth
    <3>1. n = name
      BY <1>1, <2>2, <2>6, TakeStep
    <3> QED
      BY <2>6, <3>1 DEF Take, AssetOpen, Receipt
  <2>7. ASSUME NEW name \in NameArgs, NEW to \in NameArgs, NEW auth \in Signers,
               NEW funds \in FundsArgs, Transfer(name, to, funds, auth)
        PROVE  n \in receipt'.auth
    <3>1. n = name
      BY <1>1, <2>3, <2>7, TransferStep
    <3> QED
      BY <2>7, <3>1 DEF Transfer, TransferOpen, Receipt
  <2> QED
    BY <1>1, <2>4, <2>5, <2>6, <2>7 DEF Next
<1>2. IInv /\ [Next]_vars => [\A n \in Accounts \ {Self} : Signed(n)]_vars
  BY <1>1
<1> QED
  BY <1>2, Invariance, PTL DEF Spec, DebitAuthorised

(***************************************************************************)
(* Until the contract's own account is registered no balance can go down:  *)
(* take and transfer fail, and savings only add.                           *)
(***************************************************************************)
THEOREM FrozenUntilOwner == Spec => FrozenWithoutOwner
<1> DEFINE Grows(n) == Kept(n) => userasset'[n] >= userasset[n]
<1>1. ASSUME IInv, Next, Self \notin DOMAIN userasset, NEW n \in Accounts PROVE Grows(n)
  <2> SUFFICES ASSUME Kept(n) PROVE userasset'[n] >= userasset[n]
    OBVIOUS
  <2>1. userasset[n] \in Int
    BY <1>1, RowFacts DEF Kept
  <2>2. ASSUME NEW name \in NameArgs, NEW auth \in Signers,
               \/ \E pubkey \in KeyArgs : CreateAcnt(name, pubkey, auth)
               \/ DeleteAcnt(name, auth)
        PROVE  userasset'[n] >= userasset[n]
    <3>1. userasset'[n] = userasset[n]
      BY <2>2, AccountStep
    <3> QED
      BY <2>1, <3>1
  <2>3. ASSUME NEW name \in NameArgs, NEW auth \in Signers, NEW funds \in FundsArgs,
               Save(name, funds, auth)
        PROVE  userasset'[n] >= userasset[n]
    BY <1>1, <2>3, SaveStep
  <2>4. ASSUME NEW name, NEW to, NEW auth, NEW funds,
               Take(name, funds, auth) \/ Transfer(name, to, funds, auth)
        PROVE  FALSE
    BY <1>1, <2>4 DEF Take, Transfer
  <2> QED
    BY <1>1, <2>2, <2>3, <2>4 DEF Next
<1>2. IInv /\ [Next]_vars =>
        [Self \notin DOMAIN userasset => \A n \in Accounts : Grows(n)]_vars
  BY <1>1
<1> QED
  BY <1>2, Invariance, PTL DEF Spec, FrozenWithoutOwner
-----------------------------------------------------------------------------
(* Sums of rows.  MapThenSumSet takes the rows in the order of a CHOOSE;   *)
(* the sum does not depend on it.                                          *)

\* A set of naturals has a least one.
LEMMA LeastOf ==
  ASSUME NEW S \in SUBSET Nat, S # {}
  PROVE  \E m \in S : \A k \in S : m <= k
<1> DEFINE R == OpToRel(<, Nat)
<1>1. IsWellFoundedOn(R, Nat)
  BY NatLessThanWellFounded
<1>2. \A x, y \in Nat : x < y => <<x, y>> \in R
  BY DEF OpToRel
<1> HIDE DEF R
<1>3. PICK m \in S : \A k \in S : ~(<<k, m>> \in R)
  BY <1>1, WFMin
<1>4. ASSUME NEW k \in S PROVE m <= k
  <2>1. ~(k < m)
    BY <1>2, <1>3
  <2> QED
    BY <2>1
<1> QED
  BY <1>4

\* What holds of a set when it holds of its proper subsets holds of all of them.
LEMMA BySubsets ==
  ASSUME NEW S, IsFiniteSet(S), NEW T,
         \A s \in SUBSET S : (\A u \in SUBSET s : u # s => u \in T) => s \in T
  PROVE  \A s \in SUBSET S : s \in T
<1> DEFINE Bad == {k \in Nat : \E s \in SUBSET S : s \notin T /\ k = Cardinality(s)}
<1>1. ASSUME NEW s \in SUBSET S
      PROVE  IsFiniteSet(s) /\ Cardinality(s) \in Nat
  BY FS_Subset, FS_CardinalityType
<1> SUFFICES ASSUME Bad # {} PROVE FALSE
  BY <1>1
<1>2. PICK m \in Bad : \A k \in Bad : m <= k
  <2>1. Bad \in SUBSET Nat
    OBVIOUS
  <2> HIDE DEF Bad
  <2> QED
    BY <2>1, LeastOf
<1>3. PICK s \in SUBSET S : s \notin T /\ m = Cardinality(s)
  BY <1>2
<1>4. ASSUME NEW u \in SUBSET s, u # s, u \notin T PROVE FALSE
  <2>1. Cardinality(u) <= Cardinality(s) /\ Cardinality(u) # Cardinality(s)
    BY <1>1, <1>3, <1>4, FS_Subset
  <2>2. Cardinality(u) \in Bad /\ Cardinality(u) \in Nat /\ Cardinality(s) \in Nat
    BY <1>1, <1>3, <1>4
  <2> QED
    BY <1>2, <1>3, <2>1, <2>2
<1> QED
  BY <1>3, <1>4

SumOver(t, S) == MapThenSumSet(LAMBDA n : t[n], S)
First(s) == CHOOSE x \in s : TRUE

\* Summing is a function of the subsets of S: there are that many sums.
SumRun(t, S, f) ==
  f = [s \in SUBSET S |-> IF s = {} THEN 0 ELSE t[First(s)] + f[s \ {First(s)}]]

LEMMA SumIs ==
  ASSUME NEW t, NEW S, NEW g, SumRun(t, S, g)
  PROVE  \E f : SumRun(t, S, f) /\ SumOver(t, S) = f[S]
BY Zenon DEF SumOver, SumRun, First, MapThenSumSet, MapThenFoldSet

LEMMA TotalIs ==
  ASSUME NEW t
  PROVE  Total(t) = SumOver(t, DOMAIN t)
BY Zenon DEF Total, SumOver

LEMMA FirstIn ==
  ASSUME NEW s, s # {}
  PROVE  First(s) \in s
BY DEF First

\* Its turns.
SumTurns(t, S, f) ==
  \A s \in SUBSET S : f[s] = IF s = {} THEN 0 ELSE t[First(s)] + f[s \ {First(s)}]

LEMMA SumTurn ==
  ASSUME NEW t, NEW S, NEW f, SumRun(t, S, f)
  PROVE  SumTurns(t, S, f)
<1> USE DEF SumTurns
<1> TAKE s \in SUBSET S
<1> DEFINE body(u) == IF u = {} THEN 0 ELSE t[First(u)] + f[u \ {First(u)}]
<1>1. f = [u \in SUBSET S |-> body(u)]
  BY DEF SumRun
<1> HIDE DEF body
<1>2. f[s] = body(s)
  BY <1>1
<1> QED
  BY <1>2 DEF body

LEMMA SumExists ==
  ASSUME NEW S, IsFiniteSet(S), NEW t, \A n \in S : t[n] \in Int
  PROVE  \E f : SumRun(t, S, f) /\ SumOver(t, S) = f[S]
<1> DEFINE body(f, u) == IF u = {} THEN 0 ELSE t[First(u)] + f[u \ {First(u)}]
           Upto(k, f) == /\ f \in [SUBSET S -> Int]
                         /\ \A u \in SUBSET S : Cardinality(u) <= k => f[u] = body(f, u)
           Bad == {k \in Nat : ~(\E f : Upto(k, f))}
<1>1. ASSUME NEW u \in SUBSET S
      PROVE  /\ Cardinality(u) \in Nat
             /\ Cardinality(u) <= Cardinality(S)
             /\ u # {} => /\ First(u) \in u /\ u \ {First(u)} \in SUBSET S
                          /\ t[First(u)] \in Int
                          /\ Cardinality(u \ {First(u)}) = Cardinality(u) - 1
             /\ u = {} => Cardinality(u) = 0
             /\ Cardinality(u) = 0 => u = {}
  <2>1. IsFiniteSet(u) /\ Cardinality(u) <= Cardinality(S)
    BY FS_Subset
  <2>2. Cardinality(u) \in Nat /\ (Cardinality(u) = 0 <=> u = {})
    BY <2>1, FS_CardinalityType, FS_EmptySet
  <2>3. ASSUME u # {}
        PROVE  First(u) \in u /\ Cardinality(u \ {First(u)}) = Cardinality(u) - 1
    BY <2>1, <2>3, FirstIn, FS_RemoveElement
  <2> QED
    BY <2>1, <2>2, <2>3
<1>2. ASSUME NEW k \in Nat, k \in Bad, \A j \in Bad : k <= j PROVE FALSE
  <2>1. CASE k = 0
    <3> DEFINE f == [u \in SUBSET S |-> 0]
    <3>1. f \in [SUBSET S -> Int]
      OBVIOUS
    <3>2. ASSUME NEW u \in SUBSET S, Cardinality(u) <= 0 PROVE f[u] = body(f, u)
      <4>1. Cardinality(u) \in Nat /\ (Cardinality(u) = 0 => u = {})
        BY <1>1
      <4>2. u = {}
        BY <3>2, <4>1
      <4> QED
        BY <4>2
    <3> HIDE DEF f, body
    <3> QED
      BY <1>2, <2>1, <3>1, <3>2
  <2>2. CASE k # 0
    <3>1. k - 1 \in Nat /\ ~(k <= k - 1)
      BY <2>2
    <3>2. PICK f : Upto(k - 1, f)
      BY <1>2, <3>1
    <3> DEFINE g == [u \in SUBSET S |-> IF Cardinality(u) = k THEN body(f, u) ELSE f[u]]
    <3> HIDE DEF body
    <3>3. ASSUME NEW u \in SUBSET S PROVE body(f, u) \in Int
      <4>1. f \in [SUBSET S -> Int]
        BY <3>2
      <4>2. CASE u = {}
        BY <4>2 DEF body
      <4>3. CASE u # {}
        <5>1. u \ {First(u)} \in SUBSET S /\ t[First(u)] \in Int
          BY <1>1, <4>3
        <5>2. f[u \ {First(u)}] \in Int
          BY <4>1, <5>1
        <5> QED
          BY <4>3, <5>1, <5>2 DEF body
      <4> QED
        BY <4>2, <4>3
    <3>4. g \in [SUBSET S -> Int]
      BY <3>2, <3>3
    <3>5. \A u \in SUBSET S : g[u] = IF Cardinality(u) = k THEN body(f, u) ELSE f[u]
      OBVIOUS
    <3> HIDE DEF g
    <3>6. ASSUME NEW u \in SUBSET S, Cardinality(u) <= k PROVE g[u] = body(g, u)
      <4>1. u # {} => g[u \ {First(u)}] = f[u \ {First(u)}]
        BY <1>1, <3>5, <3>6
      <4>2. body(g, u) = body(f, u)
        BY <4>1 DEF body
      <4>3. CASE Cardinality(u) = k
        BY <3>5, <4>2, <4>3
      <4>4. CASE Cardinality(u) # k
        <5>0. Cardinality(u) \in Nat
          BY <1>1
        <5>1. Cardinality(u) <= k - 1
          BY <1>2, <3>6, <4>4, <5>0
        <5> QED
          BY <3>2, <3>5, <4>2, <4>4, <5>1
      <4> QED
        BY <4>3, <4>4
    <3>7. Upto(k, g)
      BY <3>4, <3>6
    <3> QED
      BY <1>2, <3>7
  <2> QED
    BY <2>1, <2>2
<1>3. Cardinality(S) \in Nat /\ Cardinality(S) \notin Bad
  <2>1. Cardinality(S) \in Nat
    BY <1>1
  <2>2. Bad \in SUBSET Nat
    OBVIOUS
  <2> HIDE DEF Bad
  <2> QED
    BY <1>2, <2>1, <2>2, LeastOf
<1>4. PICK f : Upto(Cardinality(S), f)
  BY <1>3
<1>5. SumRun(t, S, f)
  <2>1. f \in [SUBSET S -> Int] /\ \A u \in SUBSET S : f[u] = body(f, u)
    BY <1>1, <1>4
  <2> HIDE DEF body
  <2>2. f = [u \in SUBSET S |-> body(f, u)]
    BY <2>1
  <2> QED
    BY <2>2 DEF SumRun, body
<1> QED
  BY <1>5, SumIs

\* Two runs agree, whatever sets they began from.
LEMMA SumAgrees ==
  ASSUME NEW R, NEW S, IsFiniteSet(S), NEW t, NEW f, NEW g,
         SumRun(t, S, f), SumRun(t, R, g), S \subseteq R
  PROVE  f[S] = g[S]
<1> DEFINE T == {u \in SUBSET S : f[u] = g[u]}
<1>1. ASSUME NEW s \in SUBSET S, \A u \in SUBSET s : u # s => u \in T PROVE s \in T
  <2>1. f[s] = IF s = {} THEN 0 ELSE t[First(s)] + f[s \ {First(s)}]
    <3>1. SumTurns(t, S, f)
      BY SumTurn
    <3> QED
      BY <3>1 DEF SumTurns
  <2>2. g[s] = IF s = {} THEN 0 ELSE t[First(s)] + g[s \ {First(s)}]
    <3>1. SumTurns(t, R, g) /\ s \in SUBSET R
      BY SumTurn
    <3> QED
      BY <3>1 DEF SumTurns
  <2>3. ASSUME s # {} PROVE f[s \ {First(s)}] = g[s \ {First(s)}]
    BY <1>1, <2>3, FirstIn
  <2> QED
    BY <2>1, <2>2, <2>3
<1> HIDE DEF T
<1>2. \A s \in SUBSET S : s \in T
  BY <1>1, BySubsets
<1> QED
  BY <1>2 DEF T

\* A sum of integers is one, and any of them may be taken out first.
LEMMA SumSplits ==
  ASSUME NEW S, IsFiniteSet(S), NEW t, \A n \in S : t[n] \in Int
  PROVE  /\ SumOver(t, S) \in Int
         /\ S = {} => SumOver(t, S) = 0
         /\ \A x \in S : SumOver(t, S) = t[x] + SumOver(t, S \ {x})
         /\ (\A n \in S : t[n] >= 0) => SumOver(t, S) >= 0
<1>1. PICK f : SumRun(t, S, f) /\ SumOver(t, S) = f[S]
  BY SumExists
<1>2. \A s \in SUBSET S : f[s] = IF s = {} THEN 0 ELSE t[First(s)] + f[s \ {First(s)}]
  <2>1. SumTurns(t, S, f)
    BY <1>1, SumTurn
  <2> QED
    BY <2>1 DEF SumTurns
<1> DEFINE T == {s \in SUBSET S : /\ f[s] \in Int
                                  /\ \A x \in s : f[s] = t[x] + f[s \ {x}]
                                  /\ (\A n \in S : t[n] >= 0) => f[s] >= 0}
<1>3. ASSUME NEW s \in SUBSET S, \A u \in SUBSET s : u # s => u \in T PROVE s \in T
  <2>1. CASE s = {}
    <3>1. f[s] = 0
      BY <1>2, <2>1
    <3> QED
      BY <2>1, <3>1
  <2>2. CASE s # {}
    <3> DEFINE y == First(s)
    <3>1. y \in s /\ y \in S /\ f[s] = t[y] + f[s \ {y}] /\ t[y] \in Int
      BY <1>2, <2>2, FirstIn
    <3> HIDE DEF y
    <3>2. s \ {y} \in T
      BY <1>3, <3>1
    <3>3. f[s \ {y}] \in Int /\ ((\A n \in S : t[n] >= 0) => f[s \ {y}] >= 0)
      BY <3>2
    <3>4. f[s] \in Int
      BY <3>1, <3>3
    <3>5. (\A n \in S : t[n] >= 0) => f[s] >= 0
      BY <3>1, <3>3
    <3>6. ASSUME NEW x \in s PROVE f[s] = t[x] + f[s \ {x}]
      <4>1. CASE x = y
        BY <3>1, <4>1
      <4>2. CASE x # y
        <5>1. s \ {x} \in T /\ y \in s \ {x} /\ x \in s \ {y}
          BY <1>3, <3>1, <4>2
        <5>2. f[s \ {x}] = t[y] + f[(s \ {x}) \ {y}]
          BY <5>1
        <5>3. f[s \ {y}] = t[x] + f[(s \ {y}) \ {x}]
          BY <3>2, <5>1
        <5>4. (s \ {x}) \ {y} = (s \ {y}) \ {x} /\ (s \ {x}) \ {y} \in T
          BY <1>3, <3>1
        <5>5. f[(s \ {x}) \ {y}] \in Int /\ t[x] \in Int /\ t[y] \in Int
          BY <3>1, <5>4
        <5>6. \A a, b, c \in Int : a + (b + c) = b + (a + c)
          OBVIOUS
        <5>7. f[s] = t[y] + (t[x] + f[(s \ {x}) \ {y}])
          BY <3>1, <5>3, <5>4
        <5> QED
          BY <5>2, <5>5, <5>6, <5>7
      <4> QED
        BY <4>1, <4>2
    <3> QED
      BY <3>4, <3>5, <3>6
  <2> QED
    BY <2>1, <2>2
<1>4. \A s \in SUBSET S : s \in T
  <2> HIDE DEF T
  <2> QED
    BY <1>3, BySubsets
<1>5. ASSUME NEW x \in S PROVE f[S \ {x}] = SumOver(t, S \ {x})
  <2>1. IsFiniteSet(S \ {x}) /\ S \ {x} \subseteq S
    BY FS_RemoveElement
  <2>2. PICK g : SumRun(t, S \ {x}, g) /\ SumOver(t, S \ {x}) = g[S \ {x}]
    BY <2>1, SumExists
  <2> QED
    BY <1>1, <2>1, <2>2, SumAgrees
<1>6. S \in T
  BY <1>4
<1> QED
  BY <1>1, <1>2, <1>5, <1>6

\* A sum is a function of what is summed.
LEMMA SumSame ==
  ASSUME NEW S, IsFiniteSet(S), NEW t, NEW r,
         \A n \in S : t[n] \in Int /\ r[n] = t[n]
  PROVE  SumOver(r, S) = SumOver(t, S)
<1> DEFINE T == {s \in SUBSET S : SumOver(r, s) = SumOver(t, s)}
<1>1. ASSUME NEW s \in SUBSET S, \A u \in SUBSET s : u # s => u \in T PROVE s \in T
  <2>1. IsFiniteSet(s) /\ \A n \in s : t[n] \in Int /\ r[n] \in Int
    BY FS_Subset
  <2>2. CASE s = {}
    BY <2>1, <2>2, SumSplits
  <2>3. CASE s # {}
    <3>1. PICK x \in s : TRUE
      BY <2>3
    <3>2. SumOver(t, s) = t[x] + SumOver(t, s \ {x}) /\ SumOver(r, s) = r[x] + SumOver(r, s \ {x})
      BY <2>1, SumSplits
    <3>3. s \ {x} \in T
      BY <1>1
    <3> QED
      BY <3>2, <3>3
  <2> QED
    BY <2>2, <2>3
<1> HIDE DEF T
<1>2. \A s \in SUBSET S : s \in T
  BY <1>1, BySubsets
<1> QED
  BY <1>2 DEF T
-----------------------------------------------------------------------------
(* Sums of balances: a whole number of quanta up to Dense is a double, so  *)
(* that nothing is rounded while all balances together are no more.        *)

\* Where Round has no choice, and what is left of its choice elsewhere.
LEMMA RoundSmall ==
  ASSUME NEW k \in Int, k * FeeDen \in Exact
  PROVE  /\ k \in -1..Dense + 1 => Round[k * FeeDen] = k
         /\ k < 0 => Round[k * FeeDen] < 0
         /\ k > Dense => Round[k * FeeDen] > Dense
<1>1. /\ Dense \in Nat /\ -1..Dense + 1 \subseteq Finite
      /\ FeeDen \in Nat /\ MaxFinite \in Nat
  BY SupplyConsts, DoubleConsts
<1>2. \A j \in -1..Dense + 1 : Round[j * FeeDen] = j /\ j * FeeDen \in Exact
  <2> TAKE j \in -1..Dense + 1
  <2>1. j \in Finite
    BY <1>1
  <2>2. j \in -MaxFinite .. MaxFinite /\ 0 \in -MaxFinite .. MaxFinite /\ j + 0 = j
    BY <1>1, <2>1 DEF Finite
  <2>3. (j + 0) * FeeDen \in Exact
    BY <2>2, SumIsExact
  <2> QED
    BY <2>1, <2>2, <2>3 DEF Finite
<1>3. Round[k * FeeDen] \in Int
  BY RoundResult
<1>4. ASSUME k < 0 PROVE Round[k * FeeDen] < 0
  <2>1. -1 \in -1..Dense + 1 /\ -1 \in Int /\ k <= -1
    BY <1>1, <1>4
  <2>2. k * FeeDen <= (-1) * FeeDen
    BY <2>1, ScaleMono
  <2>3. Round[k * FeeDen] <= Round[(-1) * FeeDen]
    BY <1>2, <2>1, <2>2, RoundMono
  <2>4. Round[(-1) * FeeDen] = -1
    BY <1>2, <2>1
  <2> QED
    BY <1>3, <2>3, <2>4
<1>5. ASSUME k > Dense PROVE Round[k * FeeDen] > Dense
  <2>1. Dense + 1 \in -1..Dense + 1 /\ Dense + 1 \in Int /\ Dense + 1 <= k
    BY <1>1, <1>5
  <2>2. (Dense + 1) * FeeDen <= k * FeeDen
    BY <2>1, ScaleMono
  <2>3. Round[(Dense + 1) * FeeDen] <= Round[k * FeeDen]
    BY <1>2, <2>1, <2>2, RoundMono
  <2>4. Round[(Dense + 1) * FeeDen] = Dense + 1
    BY <1>2, <2>1
  <2> QED
    BY <1>1, <1>3, <2>3, <2>4
<1> QED
  BY <1>2, <1>4, <1>5

\* What an amount is: infinity, or a whole number of quanta that is finite.
LEMMA AmountIs ==
  ASSUME NEW a \in Amounts
  PROVE  /\ a \in Nat /\ a # NaN /\ a # -Inf /\ a \in Double
         /\ a # Inf => a \in -MaxFinite .. MaxFinite
<1>1. a \in Double /\ a # NaN /\ a >= 0 /\ a \in Int
  BY DoubleRange DEF Amounts, GEq
<1>2. a # -Inf
  BY <1>1, DoubleRange
<1>3. a # Inf => a \in Finite
  BY <1>1, <1>2, DoubleRange
<1> QED
  BY <1>1, <1>2, <1>3, DoubleRange

\* A small amount is finite.
LEMMA SmallFinite ==
  ASSUME NEW a \in 0..Dense
  PROVE  a \in -MaxFinite .. MaxFinite /\ a \in Amounts /\ a # Inf /\ a # NaN /\ a # -Inf
<1>1. Dense \in Nat /\ a \in Finite
  BY SupplyConsts
<1>2. a \in -MaxFinite .. MaxFinite /\ a \in Double
  BY <1>1, DoubleRange DEF Double
<1>3. a # Inf /\ a # NaN /\ a # -Inf
  BY <1>2, DoubleConsts DEF Inf, NaN
<1>4. GEq(a, 0)
  BY <1>1, <1>3, DoubleRange DEF GEq
<1> QED
  BY <1>2, <1>3, <1>4 DEF Amounts

\* A sum is exact when it is small, and else not small.
LEMMA AddSmall ==
  ASSUME NEW a \in 0..Dense, NEW b \in Amounts
  PROVE  /\ a + b <= Dense => Add(a, b) = a + b
         /\ a + b > Dense => Add(a, b) > Dense
<1>1. Dense \in Nat /\ MaxFinite \in Nat /\ Dense < Inf
  <2>1. Dense \in Nat /\ Dense \in Finite
    BY SupplyConsts
  <2> QED
    BY <2>1, DoubleRange, DoubleConsts DEF Inf
<1>2. a \in -MaxFinite .. MaxFinite /\ a # Inf /\ a # NaN /\ a # -Inf /\ a \in Nat
  BY <1>1, SmallFinite
<1>3. b \in Nat /\ b # NaN /\ b # -Inf /\ (b # Inf => b \in -MaxFinite .. MaxFinite)
  BY AmountIs
<1>4. CASE b = Inf
  <2>1. Add(a, b) = Inf
    BY <1>2, <1>3, <1>4 DEF Add
  <2> QED
    BY <1>1, <1>2, <1>3, <1>4, <2>1
<1>5. CASE b # Inf
  <2>1. Add(a, b) = Round[(a + b) * FeeDen]
    BY <1>2, <1>3, <1>5 DEF Add
  <2>2. (a + b) * FeeDen \in Exact
    BY <1>2, <1>3, <1>5, SumIsExact
  <2>3. a + b \in Int /\ (a + b <= Dense => a + b \in -1..Dense + 1)
    BY <1>1, <1>2, <1>3
  <2> QED
    BY <2>1, <2>2, <2>3, RoundSmall
<1> QED
  BY <1>4, <1>5

\* A difference from a small amount is exact when there is enough, and else
\* negative; what is taken from something negative leaves it so.
LEMMA SubSmall ==
  ASSUME NEW a \in 0..Dense, NEW b \in Amounts
  PROVE  /\ b <= a => Sub(a, b) = a - b
         /\ b > a => Sub(a, b) < 0
<1>1. Dense \in Nat /\ MaxFinite \in Nat
  BY SupplyConsts, DoubleConsts
<1>2. a \in -MaxFinite .. MaxFinite /\ a # Inf /\ a # NaN /\ a # -Inf /\ a \in Nat
  BY <1>1, SmallFinite
<1>3. b \in Nat /\ b # NaN /\ b # -Inf /\ (b # Inf => b \in -MaxFinite .. MaxFinite)
  BY AmountIs
<1>4. CASE b = Inf
  <2>1. -Inf # NaN /\ Inf > MaxFinite /\ -Inf < 0 /\ Inf \in Int
    BY <1>1 DEF Inf, NaN
  <2>2. Neg(b) = -Inf /\ a # -(-Inf)
    BY <1>2, <1>3, <1>4, <2>1 DEF Neg
  <2>3. Sub(a, b) = -Inf
    BY <1>2, <2>1, <2>2 DEF Sub, Add
  <2> QED
    BY <1>1, <1>2, <1>4, <2>1, <2>3
<1>5. CASE b # Inf
  <2>1. /\ Neg(b) = -b /\ -b \in -MaxFinite .. MaxFinite
        /\ -b \notin {-Inf, Inf, NaN} /\ a + -b = a - b
    BY <1>1, <1>2, <1>3, <1>5 DEF Neg, Inf, NaN
  <2>2. Sub(a, b) = Round[(a + -b) * FeeDen]
    BY <1>2, <2>1 DEF Sub, Add
  <2>3. (a + -b) * FeeDen \in Exact
    BY <1>2, <2>1, SumIsExact
  <2>4. a - b \in Int /\ (b <= a => a - b \in -1..Dense + 1) /\ (b > a => a - b < 0)
    BY <1>1, <1>2, <1>3
  <2> QED
    BY <2>1, <2>2, <2>3, <2>4, RoundSmall
<1> QED
  BY <1>4, <1>5

LEMMA SubNegative ==
  ASSUME NEW a \in Double, a < 0, NEW b \in Amounts
  PROVE  ~GEq(Sub(a, b), 0)
<1>1. MaxFinite \in Nat /\ a \in Int /\ Inf \in Int /\ Inf > 0 /\ NaN > Inf
  BY DoubleConsts, DoubleRange
<1>2. b \in Nat /\ b # NaN /\ b # -Inf /\ (b # Inf => b \in -MaxFinite .. MaxFinite)
  BY AmountIs
<1>3. a # Inf /\ a # NaN /\ (a # -Inf => a \in -MaxFinite .. MaxFinite)
  BY <1>1, DoubleRange
<1>4. Neg(b) = -b /\ -b # NaN /\ -b # Inf
  BY <1>1, <1>2 DEF Neg
<1>5. CASE a = -Inf \/ b = Inf
  <2>1. -b # -a \/ a # -Inf
    BY <1>1, <1>2
  <2>2. -b = -Inf => b = Inf
    BY <1>1, <1>2
  <2>3. Sub(a, b) = -Inf
    BY <1>1, <1>2, <1>3, <1>4, <1>5, <2>1 DEF Sub, Add
  <2> QED
    BY <1>1, <2>3 DEF GEq
<1>6. CASE a # -Inf /\ b # Inf
  <2>1. a \in -MaxFinite .. MaxFinite /\ -b \in -MaxFinite .. MaxFinite /\ -b # -Inf
    BY <1>1, <1>2, <1>3, <1>6
  <2>2. Sub(a, b) = Round[(a + -b) * FeeDen]
    BY <1>3, <1>4, <1>6, <2>1 DEF Sub, Add
  <2>3. (a + -b) * FeeDen \in Exact /\ a + -b \in Int /\ a + -b < 0
    BY <1>1, <1>2, <2>1, SumIsExact
  <2>4. Round[(a + -b) * FeeDen] < 0 /\ Round[(a + -b) * FeeDen] \in Int
    BY <2>3, RoundSmall, RoundResult
  <2> QED
    BY <2>2, <2>4 DEF GEq
<1> QED
  BY <1>5, <1>6

\* Two subtractions that leave something were exact.
LEMMA SubTwice ==
  ASSUME NEW a \in 0..Dense, NEW b \in Amounts, NEW c \in Amounts,
         GEq(Sub(Sub(a, b), c), 0)
  PROVE  b + c <= a /\ Sub(Sub(a, b), c) = a - b - c
<1>1. Dense \in Nat /\ a \in Nat /\ b \in Nat /\ c \in Nat
  BY SupplyConsts, AmountIs
<1>2. a \in Double /\ b \in Double /\ Sub(a, b) \in Double
  BY SmallFinite, AmountIs, SubType DEF Amounts
<1>3. b <= a
  <2> SUFFICES ASSUME b > a PROVE FALSE
    BY <1>1
  <2>1. Sub(a, b) < 0
    BY SubSmall
  <2> QED
    BY <1>2, <2>1, SubNegative
<1>4. Sub(a, b) = a - b /\ a - b \in 0..Dense
  BY <1>1, <1>3, SubSmall
<1>5. c <= a - b
  <2> SUFFICES ASSUME c > a - b PROVE FALSE
    BY <1>1
  <2>1. Sub(a - b, c) < 0
    BY <1>4, SubSmall
  <2>2. Sub(a - b, c) >= 0
    BY <1>4 DEF GEq
  <2>3. Sub(a - b, c) \in Int
    BY <1>2, <1>4, AmountIs, SubType, DoubleRange
  <2> QED
    BY <2>1, <2>2, <2>3
<1>6. Sub(a - b, c) = a - b - c
  BY <1>4, <1>5, SubSmall
<1> QED
  BY <1>1, <1>4, <1>5, <1>6

-----------------------------------------------------------------------------
\* The total of a table of amounts, one of its rows, and what remains of the
\* total when that row is rewritten, added or dropped.
Holds(t) == t \in Table(Accounts, Amounts) /\ IsFiniteSet(DOMAIN t)

LEMMA RowsOf ==
  ASSUME NEW t, Holds(t)
  PROVE  /\ Total(t) \in Nat
         /\ \A n \in DOMAIN t : t[n] \in Amounts /\ t[n] \in Nat /\ t[n] <= Total(t)
<1>1. \A n \in DOMAIN t : t[n] \in Amounts
  BY TableIff DEF Holds
<1>2. \A n \in DOMAIN t : t[n] \in Nat /\ t[n] \in Int /\ t[n] >= 0
  BY <1>1, AmountIs
<1>3. Total(t) \in Int /\ Total(t) >= 0
  BY <1>2, SumSplits, TotalIs DEF Holds
<1>4. ASSUME NEW n \in DOMAIN t PROVE t[n] <= Total(t)
  <2>1. Total(t) = t[n] + SumOver(t, DOMAIN t \ {n})
    BY <1>2, SumSplits, TotalIs DEF Holds
  <2>2. IsFiniteSet(DOMAIN t \ {n}) /\ \A m \in DOMAIN t \ {n} : t[m] \in Int /\ t[m] >= 0
    BY <1>2, FS_RemoveElement DEF Holds
  <2>3. SumOver(t, DOMAIN t \ {n}) \in Int /\ SumOver(t, DOMAIN t \ {n}) >= 0
    BY <2>2, SumSplits
  <2> QED
    BY <1>2, <2>1, <2>3
<1> QED
  BY <1>1, <1>2, <1>3, <1>4

LEMMA TotalModified ==
  ASSUME NEW t, Holds(t), NEW n \in DOMAIN t, NEW v \in Amounts
  PROVE  /\ Holds(Modify(t, n, v)) /\ DOMAIN Modify(t, n, v) = DOMAIN t
         /\ Modify(t, n, v)[n] = v
         /\ \A m \in DOMAIN t \ {n} : Modify(t, n, v)[m] = t[m]
         /\ Total(Modify(t, n, v)) = Total(t) - t[n] + v
<1> DEFINE r == Modify(t, n, v)
           R == DOMAIN t \ {n}
<1>1. /\ r \in Table(Accounts, Amounts) /\ DOMAIN r = DOMAIN t
      /\ \A m \in DOMAIN t : r[m] = IF m = n THEN v ELSE t[m]
  BY ModifyTable DEF Holds
<1> HIDE DEF r
<1>2. Holds(r)
  BY <1>1 DEF Holds
<1>3. (\A m \in DOMAIN t : t[m] \in Int /\ r[m] \in Int) /\ v \in Int
  <2>1. (\A m \in DOMAIN t : t[m] \in Nat) /\ v \in Nat
    BY RowsOf, AmountIs
  <2> QED
    BY <1>1, <2>1
<1>4. Total(t) = t[n] + SumOver(t, R)
  BY <1>3, SumSplits, TotalIs DEF Holds
<1>5. Total(r) = r[n] + SumOver(r, R)
  BY <1>1, <1>2, <1>3, SumSplits, TotalIs DEF Holds
<1>6. IsFiniteSet(R) /\ \A m \in R : t[m] \in Int /\ r[m] = t[m]
  BY <1>1, <1>3, FS_RemoveElement DEF Holds
<1>7. SumOver(r, R) = SumOver(t, R) /\ SumOver(t, R) \in Int
  BY <1>6, SumSame, SumSplits
<1>8. r[n] = v /\ t[n] \in Int
  BY <1>1, <1>3
<1>9. Total(r) = Total(t) - t[n] + v
  BY <1>3, <1>4, <1>5, <1>7, <1>8
<1> QED
  BY <1>1, <1>2, <1>9 DEF r

LEMMA TotalOpened ==
  ASSUME NEW t, Holds(t), NEW n \in Accounts, n \notin DOMAIN t
  PROVE  Holds(Emplace(t, n, 0)) /\ Total(Emplace(t, n, 0)) = Total(t)
<1> DEFINE r == Emplace(t, n, 0)
<1>1. /\ r \in Table(Accounts, Amounts) /\ DOMAIN r = DOMAIN t \union {n}
      /\ \A m \in DOMAIN t \union {n} : r[m] = IF m = n THEN 0 ELSE t[m]
  <2>1. t \in Table(Accounts, Amounts) /\ 0 \in Amounts
    BY Constants DEF Holds
  <2> QED
    BY <2>1, EmplaceTable
<1> HIDE DEF r
<1>2. Holds(r)
  BY <1>1, FS_AddElement DEF Holds
<1>3. \A m \in DOMAIN r : r[m] \in Int
  BY <1>2, RowsOf
<1>4. Total(r) = r[n] + SumOver(r, DOMAIN r \ {n})
  BY <1>1, <1>2, <1>3, SumSplits, TotalIs DEF Holds
<1>5. DOMAIN r \ {n} = DOMAIN t /\ r[n] = 0 /\ \A m \in DOMAIN t : t[m] \in Int /\ r[m] = t[m]
  BY <1>1, <1>3
<1>6. SumOver(r, DOMAIN t) = Total(t)
  BY <1>5, SumSame, TotalIs DEF Holds
<1>7. Total(t) \in Int
  BY RowsOf
<1> QED
  BY <1>2, <1>4, <1>5, <1>6, <1>7 DEF r

LEMMA TotalDropped ==
  ASSUME NEW t, Holds(t), NEW n
  PROVE  Holds(Erase(t, n)) /\ Total(Erase(t, n)) <= Total(t)
<1> DEFINE r == Erase(t, n)
<1>1. /\ r \in Table(Accounts, Amounts) /\ DOMAIN r = DOMAIN t \ {n}
      /\ \A m \in DOMAIN t \ {n} : r[m] = t[m]
  <2>1. t \in Table(Accounts, Amounts)
    BY DEF Holds
  <2>2. Erase(t, n) \in Table(Accounts, Amounts)
    BY <2>1, EraseTable
  <2>3. DOMAIN Erase(t, n) = DOMAIN t \ {n} /\ \A m \in DOMAIN t \ {n} : Erase(t, n)[m] = t[m]
    BY DEF Erase
  <2> QED
    BY <2>2, <2>3
<1> HIDE DEF r
<1>2. Holds(r)
  BY <1>1, FS_RemoveElement DEF Holds
<1>3. \A m \in DOMAIN t : t[m] \in Int /\ t[m] >= 0
  BY RowsOf
<1>4. SumOver(t, DOMAIN r) = Total(r) /\ Total(r) \in Int /\ Total(t) \in Int
  <2>1. \A m \in DOMAIN r : r[m] \in Int /\ t[m] = r[m]
    BY <1>1, <1>3
  <2> QED
    BY <1>2, <2>1, SumSame, TotalIs, RowsOf DEF Holds
<1>5. CASE n \in DOMAIN t
  <2>1. Total(t) = t[n] + SumOver(t, DOMAIN r)
    BY <1>1, <1>3, <1>5, SumSplits, TotalIs DEF Holds
  <2> QED
    BY <1>2, <1>3, <1>4, <1>5, <2>1 DEF r
<1>6. CASE n \notin DOMAIN t
  <2>1. DOMAIN r = DOMAIN t
    BY <1>1, <1>6
  <2> QED
    BY <1>2, <1>4, <2>1, TotalIs DEF r
<1> QED
  BY <1>5, <1>6

-----------------------------------------------------------------------------
\* A table of amounts has finitely many rows: every action adds at most one.
Held == IInv /\ IsFiniteSet(DOMAIN userasset)

LEMMA HeldHolds == (Held => Holds(userasset)) /\ (Held' => Holds(userasset'))
<1>1. ASSUME NEW t \in Table(Accounts, Double), IsFiniteSet(DOMAIN t),
             \A n \in DOMAIN t : GEq(t[n], 0)
      PROVE  Holds(t)
  <2>1. DOMAIN t \subseteq Accounts /\ t \in [DOMAIN t -> Double]
    BY TableIff
  <2>2. t \in [DOMAIN t -> Amounts]
    BY <1>1, <2>1 DEF Amounts
  <2> QED
    BY <1>1, <2>1, <2>2, TableIff DEF Holds
<1> QED
  BY <1>1 DEF Held, IInv, TypeOK, FundsValid

LEMMA HeldNext == Held /\ [Next]_vars => Held'
<1> SUFFICES ASSUME Held, [Next]_vars PROVE IsFiniteSet(DOMAIN userasset')
  BY NextInv DEF Held
<1>1. CASE UNCHANGED vars
  BY <1>1 DEF vars, Held
<1>2. ASSUME NEW name \in NameArgs, NEW pubkey \in KeyArgs, NEW auth \in Signers,
             CreateAcnt(name, pubkey, auth)
      PROVE  IsFiniteSet(DOMAIN userasset')
  <2>1. DOMAIN userasset' = DOMAIN userasset \union {name}
    BY <1>2 DEF CreateAcnt, create_asset_data_by_account, Emplace
  <2> QED
    BY <2>1, FS_AddElement DEF Held
<1>3. ASSUME NEW name \in NameArgs, NEW auth \in Signers, DeleteAcnt(name, auth)
      PROVE  IsFiniteSet(DOMAIN userasset')
  <2>1. DOMAIN userasset' = DOMAIN userasset \ {name}
    BY <1>3 DEF DeleteAcnt, delete_asset_data_by_account, Erase
  <2> QED
    BY <2>1, FS_RemoveElement DEF Held
<1>4. ASSUME NEW name \in NameArgs, NEW auth \in Signers, NEW funds \in FundsArgs,
             NEW to \in NameArgs,
             Save(name, funds, auth) \/ Take(name, funds, auth)
               \/ Transfer(name, to, funds, auth)
      PROVE  IsFiniteSet(DOMAIN userasset')
  <2>1. DOMAIN userasset' = DOMAIN userasset
    BY <1>4 DEF Save, Take, Transfer, Debit, Credit, Modify
  <2> QED
    BY <2>1 DEF Held
<1> QED
  BY <1>1, <1>2, <1>3, <1>4 DEF Next

LEMMA AlwaysHeld == Spec => []Held
<1>1. Init => Held
  <2> SUFFICES ASSUME Init PROVE IsFiniteSet(DOMAIN userasset)
    BY InitInv DEF Held
  <2>1. DOMAIN userasset = {}
    BY NoRowsTable DEF Init
  <2> QED
    BY <2>1, FS_EmptySet
<1> QED
  BY <1>1, HeldNext, PTL DEF Spec

\* A transfer takes from its sender what it gives to the receiver and the
\* contract, in three writes each of which is exact.
LEMMA TransferTotal ==
  ASSUME Held, Small(userasset),
         NEW from, NEW to, NEW funds \in FundsArgs, NEW auth,
         Transfer(from, to, funds, auth)
  PROVE  Total(userasset') = Total(userasset)
<1> DEFINE fee      == TransferFee(funds)
           debited  == Debit(userasset, from, Add(fee, funds))
           credited == Credit(debited, to, funds)
           held     == userasset[from]
<1>1. /\ {from, to, Self} \subseteq DOMAIN userasset
      /\ funds \in Double /\ Gt(funds, 0)
      /\ GEq(Sub(Sub(held, fee), funds), 0)
      /\ userasset' = Credit(credited, Self, fee)
  BY Constants DEF Transfer, TransferOpen
<1>2. fee \in Amounts /\ funds \in Amounts /\ fee \in Nat /\ funds \in Nat
  BY <1>1, FeeIsAmount, AmountIs
<1>3. Holds(userasset) /\ Total(userasset) \in Nat /\ Total(userasset) <= Dense /\ Dense \in Nat
  BY HeldHolds, RowsOf, SupplyConsts DEF Small
<1>4. held \in Nat /\ held <= Total(userasset) /\ held \in 0..Dense
  BY <1>1, <1>3, RowsOf
<1> HIDE DEF fee
<1>5. fee + funds <= held
  BY <1>1, <1>2, <1>4, SubTwice
<1>6. Add(fee, funds) = fee + funds /\ fee + funds \in 0..Dense
  <2>1. fee \in 0..Dense /\ fee + funds <= Dense
    BY <1>2, <1>3, <1>4, <1>5
  <2> QED
    BY <1>2, <2>1, AddSmall
<1>7. Sub(held, fee + funds) = held - (fee + funds) /\ held - (fee + funds) \in 0..Dense
  <2>1. fee + funds \in Amounts
    BY <1>6, SmallFinite
  <2>2. Sub(held, fee + funds) = held - (fee + funds)
    BY <1>4, <1>5, <2>1, SubSmall
  <2> QED
    BY <1>2, <1>3, <1>4, <1>5, <2>2
<1>8. /\ Holds(debited) /\ DOMAIN debited = DOMAIN userasset
      /\ Total(debited) = Total(userasset) - (fee + funds)
  <2>1. debited = Modify(userasset, from, held - (fee + funds))
    BY <1>6, <1>7 DEF Debit
  <2>2. held - (fee + funds) \in Amounts
    BY <1>7, SmallFinite
  <2>3. /\ Holds(debited) /\ DOMAIN debited = DOMAIN userasset
        /\ Total(debited) = Total(userasset) - held + (held - (fee + funds))
    BY <1>1, <1>3, <2>1, <2>2, TotalModified
  <2> QED
    BY <1>2, <1>3, <1>4, <2>3
<1> HIDE DEF debited
<1>9. ASSUME NEW t, Holds(t), NEW n \in DOMAIN t, NEW v \in Amounts, v \in Nat,
             Total(t) + v <= Dense
      PROVE  /\ Holds(Credit(t, n, v)) /\ DOMAIN Credit(t, n, v) = DOMAIN t
             /\ Total(Credit(t, n, v)) = Total(t) + v
  <2>1. t[n] \in Nat /\ t[n] <= Total(t) /\ Total(t) \in Nat
    BY <1>9, RowsOf
  <2>2. t[n] \in 0..Dense /\ t[n] + v <= Dense /\ t[n] + v \in 0..Dense
    BY <1>3, <1>9, <2>1
  <2>3. Add(t[n], v) = t[n] + v /\ t[n] + v \in Amounts
    BY <2>2, AddSmall, SmallFinite
  <2>4. PICK w \in Amounts : w = t[n] + v /\ Credit(t, n, v) = Modify(t, n, w)
    BY <2>3 DEF Credit
  <2>5. /\ Holds(Modify(t, n, w)) /\ DOMAIN Modify(t, n, w) = DOMAIN t
        /\ Total(Modify(t, n, w)) = Total(t) - t[n] + w
    BY <1>9, TotalModified
  <2>6. Total(Modify(t, n, w)) = Total(t) + v
    BY <1>9, <2>1, <2>4, <2>5
  <2> QED
    BY <2>4, <2>5, <2>6
<1>10. /\ Holds(credited) /\ DOMAIN credited = DOMAIN userasset
       /\ Total(credited) = Total(userasset) - fee
  <2>1. to \in DOMAIN debited /\ Total(debited) + funds <= Dense
    BY <1>1, <1>2, <1>3, <1>8
  <2>2. /\ Holds(credited) /\ DOMAIN credited = DOMAIN debited
        /\ Total(credited) = Total(debited) + funds
    BY <1>2, <1>8, <1>9, <2>1
  <2> QED
    BY <1>2, <1>3, <1>8, <2>2
<1> HIDE DEF credited
<1>11. Self \in DOMAIN credited /\ Total(credited) + fee <= Dense
  BY <1>1, <1>2, <1>3, <1>10
<1>12. Total(userasset') = Total(credited) + fee
  BY <1>1, <1>2, <1>9, <1>10, <1>11
<1> QED
  BY <1>2, <1>3, <1>10, <1>12

\* A withdrawal lowers the sum: the account loses funds and fee, and the
\* contract's row is replaced by the fee.
LEMMA TakeTotal ==
  ASSUME Held, Small(userasset),
         NEW name, NEW funds \in FundsArgs, NEW auth, Take(name, funds, auth)
  PROVE  Total(userasset') <= Total(userasset)
<1> DEFINE fee  == TimesFeeRate(funds)
           held == userasset[name]
           rest == Remaining(held, funds)
           paid == Modify(userasset, Self, fee)
<1>1. /\ {name, Self} \subseteq DOMAIN userasset
      /\ funds \in Double /\ Gt(funds, 0)
      /\ GEq(Sub(Sub(held, funds), fee), 0)
      /\ rest = Sub(Sub(held, funds), fee)
      /\ userasset' = Modify(paid, name, rest)
  BY Constants DEF Take, AssetOpen, Remaining
<1>2. fee \in Amounts /\ funds \in Amounts /\ fee \in Nat /\ funds \in Nat
  BY <1>1, FeeIsAmount, AmountIs
<1>3. Holds(userasset) /\ Total(userasset) \in Nat /\ Total(userasset) <= Dense /\ Dense \in Nat
  BY HeldHolds, RowsOf, SupplyConsts DEF Small
<1>4. held \in Nat /\ held <= Total(userasset) /\ held \in 0..Dense
  BY <1>1, <1>3, RowsOf
<1> HIDE DEF fee, rest
<1>5. funds + fee <= held /\ rest = held - funds - fee
  BY <1>1, <1>2, <1>4, SubTwice
<1>6. rest \in 0..Dense /\ rest \in Amounts /\ rest \in Nat
  <2>1. rest \in 0..Dense
    BY <1>2, <1>3, <1>4, <1>5
  <2> QED
    BY <1>3, <2>1, SmallFinite
<1>7. /\ Holds(paid) /\ DOMAIN paid = DOMAIN userasset /\ paid[Self] = fee
      /\ \A m \in DOMAIN userasset \ {Self} : paid[m] = userasset[m]
      /\ Total(paid) = Total(userasset) - userasset[Self] + fee
  BY <1>1, <1>2, <1>3, TotalModified
<1> HIDE DEF paid
<1>8. Total(userasset') = Total(paid) - paid[name] + rest
  BY <1>1, <1>6, <1>7, TotalModified
<1>9. userasset[Self] \in Nat
  BY <1>1, <1>3, RowsOf
<1>10. CASE name = Self
  BY <1>2, <1>3, <1>4, <1>5, <1>6, <1>7, <1>8, <1>9, <1>10
<1>11. CASE name # Self
  <2>1. paid[name] = held
    BY <1>1, <1>7, <1>11
  <2> QED
    BY <1>2, <1>3, <1>4, <1>5, <1>6, <1>7, <1>8, <1>9, <2>1
<1> QED
  BY <1>10, <1>11

\* A saving that leaves the sum small was exact.
LEMMA SaveTotal ==
  ASSUME Held, Small(userasset), Small(userasset'), Held',
         NEW name, NEW funds \in FundsArgs, NEW auth, Save(name, funds, auth)
  PROVE  Total(userasset') = Total(userasset) + funds
<1> DEFINE held == userasset[name]
<1>1. /\ name \in DOMAIN userasset /\ funds \in Double /\ Gt(funds, 0)
      /\ userasset' = Modify(userasset, name, Add(held, funds))
  BY Constants DEF Save, AssetOpen
<1>2. funds \in Amounts /\ funds \in Nat
  BY <1>1, FeeIsAmount, AmountIs
<1>3. Holds(userasset) /\ Total(userasset) \in Nat /\ Total(userasset) <= Dense /\ Dense \in Nat
  BY HeldHolds, RowsOf, SupplyConsts DEF Small
<1>4. held \in Nat /\ held <= Total(userasset) /\ held \in 0..Dense /\ held \in Amounts
  BY <1>1, <1>3, RowsOf
<1>5. Add(held, funds) \in Amounts /\ Add(held, funds) \in Nat
  BY <1>2, <1>4, AddAmount, AmountIs
<1>6. /\ Holds(userasset') /\ DOMAIN userasset' = DOMAIN userasset
      /\ userasset'[name] = Add(held, funds)
      /\ Total(userasset') = Total(userasset) - held + Add(held, funds)
  BY <1>1, <1>3, <1>5, TotalModified
<1>7. Add(held, funds) <= Dense
  <2>1. userasset'[name] <= Total(userasset') /\ Total(userasset') \in Nat
    BY <1>1, <1>6, RowsOf
  <2> QED
    BY <1>3, <1>5, <1>6, <2>1 DEF Small
<1>8. Add(held, funds) = held + funds
  <2>1. ~(held + funds > Dense)
    BY <1>2, <1>3, <1>4, <1>5, <1>7, AddSmall
  <2>2. held + funds <= Dense
    BY <1>2, <1>3, <1>4, <2>1
  <2> QED
    BY <1>2, <1>4, <2>2, AddSmall
<1> QED
  BY <1>2, <1>3, <1>4, <1>6, <1>8

(***************************************************************************)
(* A transfer neither makes nor loses funds, whoever sends, receives and   *)
(* keeps the fee, and to whatever the fee is rounded, as long as all       *)
(* balances together are a sum that doubles represent.                     *)
(***************************************************************************)
THEOREM TransfersConserve == Spec => TransferConserves
<1>1. ASSUME Held, Next, receipt'.act = "transfer", Small(userasset)
      PROVE  Total(userasset') = Total(userasset)
  <2>1. PICK name \in NameArgs, auth \in Signers, funds \in FundsArgs, to \in NameArgs :
          Transfer(name, to, funds, auth)
    BY <1>1 DEF Next, CreateAcnt, DeleteAcnt, Save, Take, Receipt
  <2> QED
    BY <1>1, <2>1, TransferTotal
<1>2. Held /\ [Next]_vars =>
        [receipt'.act = "transfer" /\ Small(userasset) =>
           Total(userasset') = Total(userasset)]_vars
  BY <1>1
<1> QED
  BY <1>2, AlwaysHeld, PTL DEF Spec, TransferConserves

(***************************************************************************)
(* No action but a saving makes the sum of all balances grow, and that one *)
(* by what was saved.                                                      *)
(***************************************************************************)
THEOREM OnlySavingsMint == Spec => OnlySavingMints
<1> DEFINE Minted == /\ receipt'.act = "save"
                     /\ Total(userasset') = Total(userasset) + receipt'.funds
<1>1. ASSUME Held, Next, Small(userasset'), Total(userasset') > Total(userasset)
      PROVE  Minted
  <2>1. Held'
    BY <1>1, HeldNext
  <2>2. /\ Holds(userasset) /\ Holds(userasset')
        /\ Total(userasset) \in Nat /\ Total(userasset') \in Nat /\ Dense \in Nat
    <3>1. Holds(userasset) /\ Holds(userasset')
      BY <1>1, <2>1, HeldHolds
    <3> QED
      BY <3>1, RowsOf, SupplyConsts
  <2>3. Small(userasset)
    BY <1>1, <2>2 DEF Small
  <2>4. ASSUME NEW name \in NameArgs, NEW pubkey \in KeyArgs, NEW auth \in Signers,
               CreateAcnt(name, pubkey, auth)
        PROVE  Minted
    <3>1. name \in Accounts /\ name \notin DOMAIN userasset /\ userasset' = Emplace(userasset, name, 0)
      BY <2>4, KeephandConsts DEF CreateAcnt, create_asset_data_by_account
    <3>2. Total(userasset') = Total(userasset)
      BY <2>2, <3>1, TotalOpened
    <3> QED
      BY <1>1, <2>2, <3>2
  <2>5. ASSUME NEW name \in NameArgs, NEW auth \in Signers, DeleteAcnt(name, auth)
        PROVE  Minted
    <3>1. userasset' = Erase(userasset, name)
      BY <2>5 DEF DeleteAcnt, delete_asset_data_by_account
    <3>2. Total(userasset') <= Total(userasset)
      BY <2>2, <3>1, TotalDropped
    <3> QED
      BY <1>1, <2>2, <3>2
  <2>6. ASSUME NEW name \in NameArgs, NEW auth \in Signers, NEW funds \in FundsArgs,
               Save(name, funds, auth)
        PROVE  Minted
    <3>1. Total(userasset') = Total(userasset) + funds
      BY <1>1, <2>1, <2>3, <2>6, SaveTotal
    <3>2. receipt'.act = "save" /\ receipt'.funds = funds
      BY <2>6 DEF Save, Receipt
    <3> QED
      BY <3>1, <3>2
  <2>7. ASSUME NEW name \in NameArgs, NEW auth \in Signers, NEW funds \in FundsArgs,
               Take(name, funds, auth)
        PROVE  Minted
    <3>1. Total(userasset') <= Total(userasset)
      BY <1>1, <2>3, <2>7, TakeTotal
    <3> QED
      BY <1>1, <2>2, <3>1
  <2>8. ASSUME NEW name \in NameArgs, NEW auth \in Signers, NEW funds \in FundsArgs,
               NEW to \in NameArgs, Transfer(name, to, funds, auth)
        PROVE  Minted
    <3>1. Total(userasset') = Total(userasset)
      BY <1>1, <2>3, <2>8, TransferTotal
    <3> QED
      BY <1>1, <2>2, <3>1
  <2> QED
    BY <1>1, <2>4, <2>5, <2>6, <2>7, <2>8 DEF Next
<1>2. Held /\ [Next]_vars =>
        [Small(userasset') /\ Total(userasset') > Total(userasset) => Minted]_vars
  BY <1>1
<1> QED
  BY <1>2, AlwaysHeld, PTL DEF Spec, OnlySavingMints

-----------------------------------------------------------------------------
\* Subtracting an amount never gives more.
LEMMA SubShrinks ==
  ASSUME NEW a \in Amounts, NEW b \in Amounts, GEq(Sub(a, b), 0)
  PROVE  Sub(a, b) <= a /\ (a # Inf => b # Inf /\ Sub(a, b) = Round[(a + -b) * FeeDen])
<1>1. MaxFinite \in Nat /\ Inf \in Int /\ Inf > 0 /\ NaN > Inf /\ -Inf # NaN /\ Inf > MaxFinite
  BY DoubleConsts, DoubleRange DEF Inf, NaN
<1>2. a \in Nat /\ a # NaN /\ a # -Inf /\ (a # Inf => a \in -MaxFinite .. MaxFinite)
  BY AmountIs
<1>3. b \in Nat /\ b # NaN /\ b # -Inf /\ (b # Inf => b \in -MaxFinite .. MaxFinite)
  BY AmountIs
<1>4. Neg(b) = -b /\ -b # NaN /\ -b # Inf /\ (-b = -Inf <=> b = Inf)
  BY <1>1, <1>3 DEF Neg
<1>5. CASE a = Inf
  <2>1. Sub(a, b) \in {Inf, NaN}
    BY <1>1, <1>2, <1>3, <1>4, <1>5 DEF Sub, Add
  <2> QED
    BY <1>1, <1>5, <2>1 DEF GEq
<1>6. CASE a # Inf
  <2>1. b # Inf
    <3> SUFFICES ASSUME b = Inf PROVE FALSE
      OBVIOUS
    <3>1. Sub(a, b) = -Inf
      BY <1>1, <1>2, <1>4, <1>6 DEF Sub, Add
    <3> QED
      BY <1>1, <3>1 DEF GEq
  <2>2. Sub(a, b) = Round[(a + -b) * FeeDen]
    BY <1>2, <1>3, <1>4, <1>6, <2>1 DEF Sub, Add
  <2>3. a \in Finite /\ -b \in -MaxFinite .. MaxFinite /\ 0 \in -MaxFinite .. MaxFinite
    BY <1>1, <1>2, <1>3, <1>6, <2>1, DoubleRange DEF Amounts
  <2>4. (a + -b) * FeeDen \in Exact /\ (a + 0) * FeeDen \in Exact
    BY <1>2, <1>6, <2>3, SumIsExact
  <2>5. (a + -b) * FeeDen <= (a + 0) * FeeDen
    BY <1>2, <1>3, ScaleMono
  <2>6. Round[(a + -b) * FeeDen] <= Round[(a + 0) * FeeDen]
    BY <2>4, <2>5, RoundMono
  <2>7. Round[(a + 0) * FeeDen] = a
    BY <1>2, <2>3 DEF Finite
  <2> QED
    BY <2>1, <2>2, <2>6, <2>7
<1> QED
  BY <1>5, <1>6

\* What is debited with a fee and credited without leaves no more than before.
LEMMA BackAndForth ==
  ASSUME NEW held \in Amounts, NEW funds \in Amounts, funds > 0,
         GEq(Sub(held, Add(TransferFee(funds), funds)), 0)
  PROVE  Add(Sub(held, Add(TransferFee(funds), funds)), funds) <= held
           \/ Add(Sub(held, Add(TransferFee(funds), funds)), funds) = NaN
<1> DEFINE s == Add(TransferFee(funds), funds)
           d == Sub(held, s)
<1>1. /\ MaxFinite \in Nat /\ FeeDen \in Nat \ {0}
      /\ Inf \in Int /\ Inf > 0 /\ NaN > Inf /\ Inf > MaxFinite
  BY DoubleConsts, DoubleRange DEF Inf, NaN
<1>2. held \in Nat /\ (held # Inf => held \in -MaxFinite .. MaxFinite)
  BY AmountIs
<1>3. /\ funds \in Nat /\ funds # NaN /\ funds # -Inf /\ funds \in Double
      /\ (funds # Inf => funds \in -MaxFinite .. MaxFinite)
  BY AmountIs
<1>4. s \in Amounts
  <2>1. Gt(funds, 0)
    BY <1>1, <1>3 DEF Gt, NaN
  <2>2. TransferFee(funds) \in Amounts
    BY <1>3, <2>1, FeeIsAmount
  <2> QED
    BY <2>2, AddAmount
<1>5. funds # Inf => s > funds
  <2>1. funds # Inf => funds \in Finite
    BY <1>3, DoubleRange
  <2> QED
    BY <2>1, FeeShows
<1>0. GEq(Sub(held, s), 0)
  OBVIOUS
<1> HIDE DEF s
<1>6. d <= held /\ (held # Inf => s # Inf /\ d = Round[(held + -s) * FeeDen])
  BY <1>0, <1>4, SubShrinks
<1>7. d \in Amounts /\ d \in Nat /\ d # NaN /\ d # -Inf /\ (d # Inf => d \in -MaxFinite .. MaxFinite)
  <2>1. d \in Double
    BY <1>4, SubType, AmountIs
  <2>2. d \in Amounts
    BY <1>0, <2>1 DEF Amounts
  <2> QED
    BY <2>2, AmountIs
<1>8. CASE held = Inf
  <2>1. Add(d, funds) \in Double
    BY <1>7, AddAmount DEF Amounts
  <2>2. Add(d, funds) \in Int /\ (Add(d, funds) # NaN => Add(d, funds) <= Inf)
    BY <1>1, <2>1, DoubleRange
  <2> QED
    BY <1>8, <2>2 DEF s
<1>9. CASE held # Inf
  <2>1. held \in Finite /\ held \in -MaxFinite .. MaxFinite /\ s # Inf
    BY <1>2, <1>6, <1>9, DoubleRange, AmountIs
  <2>2. s \in Nat /\ s \in -MaxFinite .. MaxFinite /\ -s \in -MaxFinite .. MaxFinite
    BY <1>1, <1>4, <2>1, AmountIs
  <2>3. funds # Inf
    <3> SUFFICES ASSUME funds = Inf PROVE FALSE
      OBVIOUS
    <3>1. Gt(funds, 0)
      BY <1>1 DEF Gt
    <3>2. TransferFee(funds) \in Amounts
      BY <1>3, <3>1, FeeIsAmount
    <3>3. TransferFee(funds) \in Nat /\ TransferFee(funds) # NaN /\ TransferFee(funds) # -Inf
      BY <3>2, AmountIs
    <3>4. Add(TransferFee(funds), funds) = Inf
      BY <1>1, <3>3 DEF Add
    <3> QED
      BY <2>1, <3>4 DEF s
  <2>4. funds \in -MaxFinite .. MaxFinite /\ s > funds
    BY <1>3, <1>5, <2>3
  <2> DEFINE k == held + -s
  <2>5. k \in Int /\ k * FeeDen \in Exact /\ d = Round[k * FeeDen]
    BY <1>6, <1>9, <2>1, <2>2, SumIsExact
  <2>6. k >= 0 /\ k \in 0..MaxFinite /\ k <= held
    <3>1. ~(k < 0)
      BY <1>7, <2>5, RoundSmall
    <3> QED
      BY <1>1, <1>2, <2>1, <2>2, <2>5, <3>1
  <2>7. d # Inf /\ d \in -MaxFinite .. MaxFinite
    BY <1>1, <1>6, <1>7, <2>1
  <2>8. Add(d, funds) = Round[(d + funds) * FeeDen] /\ (d + funds) * FeeDen \in Exact
    BY <1>3, <1>7, <2>3, <2>4, <2>7, SumIsExact DEF Add
  <2> HIDE DEF d
  <2>9. Round[(d + funds) * FeeDen] <= held
    <3>1. CASE d + funds <= held
      <4>1. (d + funds) * FeeDen <= (held + 0) * FeeDen
        BY <1>2, <1>3, <1>7, <3>1, ScaleMono
      <4>2. (held + 0) * FeeDen \in Exact
        <5>1. 0 \in -MaxFinite .. MaxFinite
          BY <1>1
        <5> QED
          BY <2>1, <5>1, SumIsExact
      <4>3. Round[(d + funds) * FeeDen] <= Round[(held + 0) * FeeDen]
        BY <2>8, <4>1, <4>2, RoundMono
      <4>4. Round[(held + 0) * FeeDen] = held
        BY <1>2, <2>1 DEF Finite
      <4> QED
        BY <4>3, <4>4
    <3>2. CASE d + funds > held
      <4> DEFINE j == d + funds - held
      <4>1. j \in Int /\ j >= 0 /\ j <= d - k - 1 /\ held + j = d + funds
        BY <1>2, <1>3, <1>7, <2>2, <2>4, <3>2
      <4>2. j \in 0..Round[k * FeeDen] - k - 1
        BY <1>7, <2>5, <4>1
      <4> HIDE DEF j, k
      <4>3. Round[(held + j) * FeeDen] <= held
        BY <2>1, <2>6, <4>2, RoundFine
      <4> QED
        BY <4>1, <4>3
    <3> QED
      BY <1>2, <1>3, <1>7, <3>1, <3>2
  <2> QED
    BY <2>8, <2>9 DEF d, s
<1> QED
  BY <1>8, <1>9

(***************************************************************************)
(* A transfer never leaves its sender richer, also when it sends to        *)
(* itself: the fee is debited with the amount, and RoundFine says that     *)
(* rounding does not give it back.                                         *)
(***************************************************************************)
THEOREM SendersNeverGain == Spec => SenderNeverGains
<1>1. ASSUME IInv, NEW from, NEW to, NEW funds \in FundsArgs, NEW auth,
             Transfer(from, to, funds, auth), from # Self
      PROVE  userasset'[from] <= userasset[from]
  <2> DEFINE fee      == TransferFee(funds)
             held     == userasset[from]
             s        == Add(fee, funds)
             debited  == Debit(userasset, from, s)
             credited == Credit(debited, to, funds)
  <2>1. /\ from \in DOMAIN userasset /\ to \in DOMAIN userasset
        /\ funds \in Double /\ Gt(funds, 0)
        /\ GEq(debited[from], 0) /\ GEq(credited[to], 0)
        /\ userasset' = Credit(credited, Self, fee)
    BY <1>1, Constants DEF Transfer, TransferOpen
  <2>2. held \in Amounts /\ funds \in Amounts /\ fee \in Amounts /\ funds > 0
    BY <1>1, <2>1, FeeIsAmount, RowFacts DEF Gt
  <2>3. s \in Amounts
    BY <2>2, AddAmount
  <2>4. DOMAIN debited = DOMAIN userasset /\ debited[from] = Sub(held, s)
    BY <2>1 DEF Debit, Modify
  <2>5. GEq(Sub(held, s), 0) /\ Sub(held, s) <= held
    BY <2>1, <2>2, <2>3, <2>4, SubShrinks
  <2>6. userasset'[from] = credited[from]
    BY <1>1, <2>1, <2>4 DEF Credit, Modify
  <2>7. CASE to # from
    <3>1. credited[from] = debited[from]
      BY <2>1, <2>4, <2>7 DEF Credit, Modify
    <3> QED
      BY <2>4, <2>5, <2>6, <3>1
  <2>8. CASE to = from
    <3>1. credited[from] = Add(Sub(held, s), funds)
      BY <2>1, <2>4, <2>8 DEF Credit, Modify
    <3>2. credited[from] # NaN
      BY <2>1, <2>8 DEF GEq
    <3> QED
      BY <2>2, <2>5, <2>6, <3>1, <3>2, BackAndForth
  <2> QED
    BY <2>7, <2>8
<1>2. ASSUME IInv, Next, receipt'.act = "transfer", receipt'.name # Self
      PROVE  userasset'[receipt'.name] <= userasset[receipt'.name]
  <2>1. PICK name \in NameArgs, auth \in Signers, funds \in FundsArgs, to \in NameArgs :
          Transfer(name, to, funds, auth)
    BY <1>2 DEF Next, CreateAcnt, DeleteAcnt, Save, Take, Receipt
  <2>2. receipt'.name = name
    BY <2>1 DEF Transfer, Receipt
  <2> QED
    BY <1>1, <1>2, <2>1, <2>2
<1>3. IInv /\ [Next]_vars =>
        [receipt'.act = "transfer" /\ receipt'.name # Self =>
           userasset'[receipt'.name] <= userasset[receipt'.name]]_vars
  BY <1>2
<1> QED
  BY <1>3, Invariance, PTL DEF Spec, SenderNeverGains
=============================================================================

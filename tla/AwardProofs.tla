---------------------------- MODULE AwardProofs -----------------------------
(***************************************************************************)
(* The join of the award contract's two tables, for every set of accounts  *)
(* and keys and every code, collisions included.  OneDepositPerNode is     *)
(* inductive together with the type of the tables: createacnt's emplace    *)
(* into deposit refuses a code in use, and deleteacnt, which erases by     *)
(* code, can then only hit the row of the node it drops.                   *)
(***************************************************************************)
EXTENDS Award, TLAPS

-----------------------------------------------------------------------------
(* Tables, for any keys and rows. *)

\* A table is a function from some of the keys to rows.
LEMMA TableIff ==
  ASSUME NEW K, NEW R, NEW t
  PROVE  t \in Table(K, R) <=> DOMAIN t \subseteq K /\ t \in [DOMAIN t -> R]
BY DEF Table

\* The empty table.
LEMMA NoRowsTable ==
  ASSUME NEW K, NEW R
  PROVE  NoRows \in Table(K, R) /\ DOMAIN NoRows = {}
BY DEF NoRows, Table

\* emplace adds its row and keeps the others.
LEMMA EmplaceTable ==
  ASSUME NEW K, NEW R, NEW t \in Table(K, R), NEW k \in K, NEW row \in R
  PROVE  /\ Emplace(t, k, row) \in Table(K, R)
         /\ DOMAIN Emplace(t, k, row) = DOMAIN t \union {k}
         /\ \A x \in DOMAIN t \union {k} :
              Emplace(t, k, row)[x] = IF x = k THEN row ELSE t[x]
<1>1. DOMAIN t \subseteq K /\ t \in [DOMAIN t -> R]
  BY TableIff
<1>2. DOMAIN Emplace(t, k, row) = DOMAIN t \union {k}
  BY DEF Emplace
<1>3. Emplace(t, k, row) \in [DOMAIN t \union {k} -> R]
  BY <1>1 DEF Emplace
<1> QED
  BY <1>1, <1>2, <1>3, TableIff DEF Emplace

\* erase drops one row and keeps the others.
LEMMA EraseTable ==
  ASSUME NEW K, NEW R, NEW t \in Table(K, R), NEW k
  PROVE  /\ Erase(t, k) \in Table(K, R)
         /\ DOMAIN Erase(t, k) = DOMAIN t \ {k}
         /\ \A x \in DOMAIN t \ {k} : Erase(t, k)[x] = t[x]
<1>1. DOMAIN t \subseteq K /\ t \in [DOMAIN t -> R]
  BY TableIff
<1>2. DOMAIN Erase(t, k) = DOMAIN t \ {k}
  BY DEF Erase
<1>3. Erase(t, k) \in [DOMAIN t \ {k} -> R]
  BY <1>1 DEF Erase
<1> QED
  BY <1>1, <1>2, <1>3, TableIff DEF Erase
-----------------------------------------------------------------------------
IInv == TypeOK /\ OneDepositPerNode

Rows == [nodepubkey : Pubkeys, report : Reports]
Receipts == [act : Acts, pubkey : Pubkeys \union {NoKey},
             report : Reports, auth : SUBSET Accounts]

\* The receipts the handlers write are well formed.
LEMMA ReceiptType ==
  ASSUME NEW act \in Acts, NEW pubkey \in KeyArgs \union {NoKey},
         NEW report \in Reports, NEW auth \in Signers
  PROVE  Receipt(act, pubkey, report, auth) \in Receipts
BY AwardConsts DEF Receipt, Receipts

\* The empty tables satisfy the invariant.
LEMMA InitInv == Init => IInv
<1> SUFFICES ASSUME Init PROVE IInv
  OBVIOUS
<1>1. node \in Table(Accounts, Pubkeys) /\ deposit \in Table(Codes, Rows)
  BY NoRowsTable DEF Init
<1>2. receipt \in Receipts
  BY AwardConsts DEF Init, Receipt, Receipts, Acts
<1>3. OneDepositPerNode
  BY NoRowsTable DEF Init, OneDepositPerNode
<1> QED
  BY <1>1, <1>2, <1>3 DEF IInv, TypeOK, Rows, Receipts
-----------------------------------------------------------------------------
\* createacnt opens a row under a code no other node has.
LEMMA CreateInv ==
  ASSUME IInv,
         NEW name \in NameArgs, NEW pubkey \in KeyArgs, NEW auth \in Signers,
         CreateAcnt(name, pubkey, auth)
  PROVE  IInv'
<1> DEFINE code == Code[pubkey]
           row  == Deposit(pubkey, NoReport)
<1>1. /\ name \in Accounts /\ pubkey \in Pubkeys /\ code \in Codes /\ row \in Rows
      /\ name \notin DOMAIN node /\ code \notin DOMAIN deposit
      /\ node' = Emplace(node, name, pubkey)
      /\ deposit' = Emplace(deposit, code, row)
      /\ receipt' = Receipt("createacnt", pubkey, NoReport, auth)
  BY AwardConsts DEF CreateAcnt, create_deposit_data_by_account, Deposit, Rows
<1>2. node \in Table(Accounts, Pubkeys) /\ deposit \in Table(Codes, Rows)
  BY DEF IInv, TypeOK, Rows
<1>3. Emplace(node, name, pubkey) \in Table(Accounts, Pubkeys)
  BY <1>1, <1>2, EmplaceTable
<1>4. Emplace(deposit, code, row) \in Table(Codes, Rows)
  BY <1>1, <1>2, EmplaceTable
<1>5. receipt' \in Receipts
  BY <1>1, ReceiptType, AwardConsts DEF Acts
<1>6. TypeOK'
  BY <1>1, <1>3, <1>4, <1>5 DEF TypeOK, Rows, Receipts
<1>7. /\ DOMAIN node' = DOMAIN node \union {name}
      /\ DOMAIN deposit' = DOMAIN deposit \union {code}
      /\ node'[name] = pubkey /\ deposit'[code].nodepubkey = pubkey
      /\ \A n \in DOMAIN node : node'[n] = node[n]
      /\ \A c \in DOMAIN deposit : deposit'[c] = deposit[c]
  BY <1>1 DEF Emplace, Deposit
<1>8. /\ \A n \in DOMAIN node : Code[node[n]] \in DOMAIN deposit
      /\ \A n \in DOMAIN node : Code[node[n]] # code
  BY <1>1 DEF IInv, OneDepositPerNode
<1>9. OneDepositPerNode'
  <2>1. ASSUME NEW n \in DOMAIN node'
        PROVE  /\ Code[node'[n]] \in DOMAIN deposit'
               /\ deposit'[Code[node'[n]]].nodepubkey = node'[n]
    BY <1>7, <1>8 DEF IInv, OneDepositPerNode
  <2>2. ASSUME NEW c \in DOMAIN deposit'
        PROVE  \E n \in DOMAIN node' : Code[node'[n]] = c
    BY <1>7 DEF IInv, OneDepositPerNode
  <2>3. ASSUME NEW m \in DOMAIN node', NEW n \in DOMAIN node', Code[node'[m]] = Code[node'[n]]
        PROVE  m = n
    BY <1>7, <1>8, <2>3 DEF IInv, OneDepositPerNode
  <2> QED
    BY <2>1, <2>2, <2>3 DEF OneDepositPerNode
<1> QED
  BY <1>6, <1>9 DEF IInv

\* deleteacnt erases the row of the node it drops, and no other node's.
LEMMA DeleteInv ==
  ASSUME IInv,
         NEW name \in NameArgs, NEW pubkey \in KeyArgs, NEW auth \in Signers,
         DeleteAcnt(name, pubkey, auth)
  PROVE  IInv'
<1> DEFINE code == Code[pubkey]
<1>1. /\ name \in DOMAIN node /\ node[name] = pubkey
      /\ node' = Erase(node, name)
      /\ deposit' = Erase(deposit, code)
      /\ receipt' = Receipt("deleteacnt", pubkey, NoReport, auth)
  BY DEF DeleteAcnt, delete_deposit_data_by_account
<1>2. node \in Table(Accounts, Pubkeys) /\ deposit \in Table(Codes, Rows)
  BY DEF IInv, TypeOK, Rows
<1>3. Erase(node, name) \in Table(Accounts, Pubkeys)
  BY <1>2, EraseTable
<1>4. Erase(deposit, code) \in Table(Codes, Rows)
  BY <1>2, EraseTable
<1>5. receipt' \in Receipts
  BY <1>1, ReceiptType, AwardConsts DEF Acts
<1>6. TypeOK'
  BY <1>1, <1>3, <1>4, <1>5 DEF TypeOK, Rows, Receipts
<1>7. /\ DOMAIN node' = DOMAIN node \ {name}
      /\ DOMAIN deposit' = DOMAIN deposit \ {code}
      /\ \A n \in DOMAIN node' : node'[n] = node[n]
      /\ \A c \in DOMAIN deposit' : deposit'[c] = deposit[c]
  BY <1>1 DEF Erase
<1>8. \A n \in DOMAIN node' : Code[node[n]] # code
  BY <1>1, <1>7 DEF IInv, OneDepositPerNode
<1>9. OneDepositPerNode'
  <2>1. ASSUME NEW n \in DOMAIN node'
        PROVE  /\ Code[node'[n]] \in DOMAIN deposit'
               /\ deposit'[Code[node'[n]]].nodepubkey = node'[n]
    BY <1>7, <1>8 DEF IInv, OneDepositPerNode
  <2>2. ASSUME NEW c \in DOMAIN deposit'
        PROVE  \E n \in DOMAIN node' : Code[node'[n]] = c
    BY <1>1, <1>7 DEF IInv, OneDepositPerNode
  <2>3. ASSUME NEW m \in DOMAIN node', NEW n \in DOMAIN node', Code[node'[m]] = Code[node'[n]]
        PROVE  m = n
    BY <1>7, <2>3 DEF IInv, OneDepositPerNode
  <2> QED
    BY <2>1, <2>2, <2>3 DEF OneDepositPerNode
<1> QED
  BY <1>6, <1>9 DEF IInv

\* moddeposit rewrites reports only.
LEMMA ModInv ==
  ASSUME IInv,
         NEW pubkey \in KeyArgs, NEW report \in Reports, NEW auth \in Signers,
         ModDeposit(pubkey, report, auth)
  PROVE  IInv'
<1>1. /\ node' = node
      /\ DOMAIN deposit' = DOMAIN deposit
      /\ \A c \in DOMAIN deposit :
           deposit'[c] = IF c = Code[pubkey] THEN [deposit[c] EXCEPT !.report = report]
                         ELSE deposit[c]
      /\ deposit' \in [DOMAIN deposit -> {deposit'[c] : c \in DOMAIN deposit}]
      /\ receipt' = Receipt("moddeposit", pubkey, report, auth)
  BY DEF ModDeposit
<1>2. DOMAIN deposit \subseteq Codes /\ deposit \in [DOMAIN deposit -> Rows]
  BY TableIff DEF IInv, TypeOK, Rows
<1>3. ASSUME NEW c \in DOMAIN deposit
      PROVE  deposit'[c] \in Rows /\ deposit'[c].nodepubkey = deposit[c].nodepubkey
  <2>1. deposit[c] \in Rows
    BY <1>2
  <2> QED
    BY <1>1, <2>1 DEF Rows
<1>4. deposit' \in [DOMAIN deposit' -> Rows]
  BY <1>1, <1>3
<1>5. deposit' \in Table(Codes, Rows)
  BY <1>1, <1>2, <1>4, TableIff
<1>6. receipt' \in Receipts
  BY <1>1, ReceiptType DEF Acts
<1>7. TypeOK'
  BY <1>1, <1>5, <1>6 DEF IInv, TypeOK, Rows, Receipts
<1>8. OneDepositPerNode'
  BY <1>1, <1>3 DEF IInv, OneDepositPerNode
<1> QED
  BY <1>7, <1>8 DEF IInv
-----------------------------------------------------------------------------
LEMMA NextInv == IInv /\ [Next]_vars => IInv'
<1> SUFFICES ASSUME IInv, [Next]_vars PROVE IInv'
  OBVIOUS
<1>1. ASSUME NEW auth \in Signers, Hello(auth) \/ Issue(auth) PROVE IInv'
  <2>1. receipt' \in Receipts
    BY <1>1, ReceiptType, AwardConsts DEF Hello, Issue, Acts
  <2>2. node' = node /\ deposit' = deposit
    BY <1>1 DEF Hello, Issue
  <2> QED
    BY <2>1, <2>2 DEF IInv, TypeOK, OneDepositPerNode, Receipts
<1>2. CASE UNCHANGED vars
  BY <1>2 DEF vars, IInv, TypeOK, OneDepositPerNode
<1> QED
  BY <1>1, <1>2, CreateInv, DeleteInv, ModInv DEF Next

\* The inductive invariant holds in every reachable state.
THEOREM Invariance == Spec => []IInv
BY InitInv, NextInv, PTL DEF Spec

\* Both tables hold keys under names and codes.
THEOREM TypeCorrect == Spec => []TypeOK
<1>1. IInv => TypeOK
  BY DEF IInv
<1> QED
  BY <1>1, Invariance, PTL

(***************************************************************************)
(* One deposit row per node, under its key's code and carrying its key,    *)
(* whatever keys the codes confuse.                                        *)
(***************************************************************************)
THEOREM AlwaysOneDepositPerNode == Spec => []OneDepositPerNode
<1>1. IInv => OneDepositPerNode
  BY DEF IInv
<1> QED
  BY <1>1, Invariance, PTL

(***************************************************************************)
(* A node's report changes, while the node stays registered, only in an    *)
(* action that node has signed.                                            *)
(***************************************************************************)
THEOREM ReportsStayTheNodes == Spec => ReportsAreTheNodes
<1> DEFINE Own(n) ==
             LET c == Code[node[n]]
             IN  /\ n \in DOMAIN node' /\ node'[n] = node[n]
                 /\ (c \notin DOMAIN deposit' \/ deposit'[c] # deposit[c])
                 => n \in receipt'.auth
<1>1. ASSUME IInv, Next, NEW n \in DOMAIN node PROVE Own(n)
  <2> DEFINE c == Code[node[n]]
  <2> SUFFICES ASSUME n \in DOMAIN node', node'[n] = node[n],
                      c \notin DOMAIN deposit' \/ deposit'[c] # deposit[c]
               PROVE  n \in receipt'.auth
    OBVIOUS
  <2>1. c \in DOMAIN deposit
    BY <1>1 DEF IInv, OneDepositPerNode
  <2>2. ASSUME NEW auth \in Signers, Hello(auth) \/ Issue(auth) PROVE FALSE
    BY <2>1, <2>2 DEF Hello, Issue
  <2>3. ASSUME NEW name \in NameArgs, NEW pubkey \in KeyArgs, NEW auth \in Signers,
               CreateAcnt(name, pubkey, auth)
        PROVE  FALSE
    BY <2>1, <2>3 DEF CreateAcnt, create_deposit_data_by_account, Emplace
  <2>4. ASSUME NEW name \in NameArgs, NEW pubkey \in KeyArgs, NEW auth \in Signers,
               DeleteAcnt(name, pubkey, auth)
        PROVE  FALSE
    <3>1. name \in DOMAIN node /\ node[name] = pubkey /\ n # name
      BY <2>4 DEF DeleteAcnt, delete_deposit_data_by_account, Erase
    <3>2. c # Code[pubkey]
      BY <1>1, <3>1 DEF IInv, OneDepositPerNode
    <3> QED
      BY <2>1, <2>4, <3>2 DEF DeleteAcnt, delete_deposit_data_by_account, Erase
  <2>5. ASSUME NEW pubkey \in KeyArgs, NEW report \in Reports, NEW auth \in Signers,
               ModDeposit(pubkey, report, auth)
        PROVE  n \in receipt'.auth
    <3>1. c = Code[pubkey]
      BY <2>1, <2>5 DEF ModDeposit
    <3>2. PICK found \in Registered(pubkey) : found \in auth
      BY <2>5 DEF ModDeposit
    <3>3. found = n
      BY <1>1, <3>1, <3>2 DEF Registered, IInv, OneDepositPerNode
    <3> QED
      BY <2>5, <3>2, <3>3 DEF ModDeposit, Receipt
  <2> QED
    BY <1>1, <2>2, <2>3, <2>4, <2>5 DEF Next
<1>2. IInv /\ [Next]_vars => [\A n \in DOMAIN node : Own(n)]_vars
  BY <1>1
<1> QED
  BY <1>2, Invariance, PTL DEF Spec, ReportsAreTheNodes

(***************************************************************************)
(* A moddeposit that is accepted finds a deposit row to write, so the      *)
(* missing else of its search never matters.                               *)
(***************************************************************************)
THEOREM ReportAlwaysWritten == Spec => ReportWritten
<1> DEFINE Written ==
             receipt'.act = "moddeposit" =>
               \E c \in DOMAIN deposit' : /\ c = Code[receipt'.pubkey]
                                          /\ deposit'[c].report = receipt'.report
<1>1. ASSUME IInv, Next PROVE Written
  <2>1. ASSUME NEW auth \in Signers, Hello(auth) \/ Issue(auth) PROVE Written
    BY <2>1 DEF Hello, Issue, Receipt
  <2>2. ASSUME NEW name \in NameArgs, NEW pubkey \in KeyArgs, NEW auth \in Signers,
               CreateAcnt(name, pubkey, auth) \/ DeleteAcnt(name, pubkey, auth)
        PROVE  Written
    BY <2>2 DEF CreateAcnt, DeleteAcnt, Receipt
  <2>3. ASSUME NEW pubkey \in KeyArgs, NEW report \in Reports, NEW auth \in Signers,
               ModDeposit(pubkey, report, auth)
        PROVE  Written
    <3> DEFINE c == Code[pubkey]
    <3>1. c \in DOMAIN deposit
      BY <1>1, <2>3 DEF ModDeposit, Registered, IInv, OneDepositPerNode
    <3>2. deposit \in [DOMAIN deposit -> Rows]
      BY <1>1, TableIff DEF IInv, TypeOK, Rows
    <3>3. DOMAIN deposit' = DOMAIN deposit /\ deposit'[c].report = report
      BY <2>3, <3>1, <3>2 DEF ModDeposit, Rows
    <3> QED
      BY <2>3, <3>1, <3>3 DEF ModDeposit, Receipt
  <2> QED
    BY <1>1, <2>1, <2>2, <2>3 DEF Next
<1>2. IInv /\ [Next]_vars => [Written]_vars
  BY <1>1
<1> QED
  BY <1>2, Invariance, PTL DEF Spec, ReportWritten
=============================================================================

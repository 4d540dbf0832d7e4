------------------------------- MODULE Award --------------------------------
(***************************************************************************)
(* The award contract: nodes registered under an account name with their   *)
(* public key (table nodeinfo), and what each node reports of itself       *)
(* (table deposit).  The two tables are joined by the key, but only        *)
(* through string_to_name(pubkey), a 64-bit code of its first thirteen     *)
(* characters in which capital letters and the digits 6 to 9 all count as  *)
(* zero: different keys can have the same code.  As in module Keephand,    *)
(* each action is one committed transaction.                               *)
(***************************************************************************)
EXTENDS MultiIndex

CONSTANTS Accounts,  \* account names a transaction can mention
          Self,      \* the contract's own account, _self
          NoName,    \* the name 0
          Pubkeys,   \* public key strings
          NoKey,     \* the empty string
          Codes,     \* the codes of keys
          Code,      \* string_to_name, on keys
          Reports,   \* what a node reports: its (score, cpu, disk, net)
          NoReport,  \* (0, 0, 0, 0)
          NameArgs,  \* what callers pass: names (NoName among them),
          KeyArgs,   \* keys (NoKey among them)
          Signers    \* and the sets of accounts that sign the action

ASSUME AwardConsts == /\ Self \in Accounts
                      /\ NoName \notin Accounts
                      /\ NoKey \notin Pubkeys
                      /\ Code \in [Pubkeys \union {NoKey} -> Codes]
                      /\ NoReport \in Reports
                      /\ NameArgs \subseteq Accounts \union {NoName}
                      /\ KeyArgs \subseteq Pubkeys \union {NoKey}
                      /\ Signers \subseteq SUBSET Accounts

VARIABLES node,    \* the nodeinfo table: name -> pubkey
          deposit, \* the deposit table: code of nodepubkey -> row
          receipt  \* the chain's record of the last action executed

vars == <<node, deposit, receipt>>

Acts == {"none", "hello", "createacnt", "deleteacnt", "moddeposit", "issue"}

Receipt(act, pubkey, report, auth) ==
  [act |-> act, pubkey |-> pubkey, report |-> report, auth |-> auth]

Deposit(pubkey, report) == [nodepubkey |-> pubkey, report |-> report]

Init ==
  /\ node = NoRows
  /\ deposit = NoRows
  /\ receipt = Receipt("none", NoKey, NoReport, {})

\* hello and issue print and return.
Hello(auth) == receipt' = Receipt("hello", NoKey, NoReport, auth) /\ UNCHANGED <<node, deposit>>
Issue(auth) == receipt' = Receipt("issue", NoKey, NoReport, auth) /\ UNCHANGED <<node, deposit>>

create_deposit_data_by_account(pubkey) ==
  Emplace(deposit, Code[pubkey], Deposit(pubkey, NoReport))
\* The row under the key's code, if there is one.
delete_deposit_data_by_account(pubkey) == Erase(deposit, Code[pubkey])

\* Mutant: createacnt without the check of pubkey.size().
CreateAcntAnyKey(name, pubkey, auth) ==
  /\ name # NoName /\ Self \in auth
  /\ name \notin DOMAIN node /\ Code[pubkey] \notin DOMAIN deposit
  /\ node' = Emplace(node, name, pubkey)
  /\ deposit' = create_deposit_data_by_account(pubkey)
  /\ receipt' = Receipt("createacnt", pubkey, NoReport, auth)

\* Mutant: createacnt that keeps the deposit row it finds under the code.
CreateAcntShared(name, pubkey, auth) ==
  /\ name # NoName /\ pubkey # NoKey /\ Self \in auth
  /\ name \notin DOMAIN node
  /\ node' = Emplace(node, name, pubkey)
  /\ deposit' = IF Code[pubkey] \in DOMAIN deposit THEN deposit
                ELSE create_deposit_data_by_account(pubkey)
  /\ receipt' = Receipt("createacnt", pubkey, NoReport, auth)

(***************************************************************************)
(* createacnt: the contract registers a node and opens its deposit row     *)
(* (create_deposit_data_by_account).  That row's primary key is the code,  *)
(* so a key whose code is taken undoes the registration as well.           *)
(***************************************************************************)
CreateAcnt(name, pubkey, auth) ==
  /\ name # NoName
  /\ pubkey # NoKey
  /\ Self \in auth
  /\ name \notin DOMAIN node
  /\ node' = Emplace(node, name, pubkey)
  /\ Code[pubkey] \notin DOMAIN deposit
  /\ deposit' = create_deposit_data_by_account(pubkey)
  /\ receipt' = Receipt("createacnt", pubkey, NoReport, auth)

\* Mutant: deleteacnt without the comparison of existing->pubkey.
DeleteAcntAnyKey(name, pubkey, auth) ==
  /\ name # NoName /\ pubkey # NoKey /\ Self \in auth
  /\ name \in DOMAIN node
  /\ node' = Erase(node, name)
  /\ deposit' = delete_deposit_data_by_account(pubkey)
  /\ receipt' = Receipt("deleteacnt", pubkey, NoReport, auth)

(***************************************************************************)
(* deleteacnt: the contract drops a node, named with its key, and the      *)
(* deposit row under the key's code if there is one.                       *)
(***************************************************************************)
DeleteAcnt(name, pubkey, auth) ==
  /\ name # NoName
  /\ pubkey # NoKey
  /\ Self \in auth
  /\ name \in DOMAIN node
  /\ node[name] = pubkey
  /\ node' = Erase(node, name)
  /\ deposit' = delete_deposit_data_by_account(pubkey)
  /\ receipt' = Receipt("deleteacnt", pubkey, NoReport, auth)

\* The nodes the pubkey index holds under the code of a key.
Registered(pubkey) == {n \in DOMAIN node : Code[node[n]] = Code[pubkey]}

\* Mutant: moddeposit with the require_auth(_self) it has commented out.
ModDepositBySelf(pubkey, report, auth) ==
  /\ pubkey # NoKey /\ Registered(pubkey) # {} /\ Self \in auth
  /\ deposit' = [c \in DOMAIN deposit |->
                   IF c = Code[pubkey] THEN [deposit[c] EXCEPT !.report = report]
                   ELSE deposit[c]]
  /\ receipt' = Receipt("moddeposit", pubkey, report, auth)
  /\ UNCHANGED node

(***************************************************************************)
(* moddeposit: a node replaces its report.  The index finds a node by the  *)
(* code of the key given (one of them, were there several), that node must *)
(* sign, and the deposit row of the code is rewritten if there is one.     *)
(***************************************************************************)
ModDeposit(pubkey, report, auth) ==
  /\ pubkey # NoKey
  /\ \E found \in Registered(pubkey) : found \in auth
  /\ deposit' = [c \in DOMAIN deposit |->
                   IF c = Code[pubkey] THEN [deposit[c] EXCEPT !.report = report]
                   ELSE deposit[c]]
  /\ receipt' = Receipt("moddeposit", pubkey, report, auth)
  /\ UNCHANGED node

Next ==
  \E auth \in Signers :
     \/ Hello(auth)
     \/ Issue(auth)
     \/ \E pubkey \in KeyArgs :
           \/ \E name \in NameArgs : \/ CreateAcnt(name, pubkey, auth)
                                     \/ DeleteAcnt(name, pubkey, auth)
           \/ \E report \in Reports : ModDeposit(pubkey, report, auth)

Spec == Init /\ [][Next]_vars
-----------------------------------------------------------------------------
\* Both tables hold keys under names and codes; rows are well formed.
TypeOK ==
  /\ node \in Table(Accounts, Pubkeys)
  /\ deposit \in Table(Codes, [nodepubkey : Pubkeys, report : Reports])
  /\ receipt \in [act : Acts, pubkey : Pubkeys \union {NoKey},
                  report : Reports, auth : SUBSET Accounts]

(***************************************************************************)
(* The deposit table has one row per node, under the code of the node's    *)
(* key and carrying that very key, and no two nodes share a code: so the   *)
(* pubkey index of nodeinfo, which is not unique by itself, finds one node *)
(* at most, and deleteacnt never removes another node's row.               *)
(***************************************************************************)
OneDepositPerNode ==
  /\ \A n \in DOMAIN node : /\ Code[node[n]] \in DOMAIN deposit
                            /\ deposit[Code[node[n]]].nodepubkey = node[n]
  /\ \A c \in DOMAIN deposit : \E n \in DOMAIN node : Code[node[n]] = c
  /\ \A m, n \in DOMAIN node : Code[node[m]] = Code[node[n]] => m = n

(***************************************************************************)
(* As long as a node stays registered, its report changes only in an       *)
(* action it has signed itself: not even the contract can rewrite it, and  *)
(* no node can through a key that resembles another's.                     *)
(***************************************************************************)
ReportsAreTheNodes ==
  [][\A n \in DOMAIN node :
       LET c == Code[node[n]]
       IN  /\ n \in DOMAIN node' /\ node'[n] = node[n]
           /\ (c \notin DOMAIN deposit' \/ deposit'[c] # deposit[c])
           => n \in receipt'.auth]_vars

(***************************************************************************)
(* A moddeposit that goes through has written the report: the search of    *)
(* the deposit table (award.cpp:105), whose failure is passed over without *)
(* a word, succeeds whenever the search of nodeinfo has.                   *)
(***************************************************************************)
ReportWritten ==
  [][receipt'.act = "moddeposit" =>
       \E c \in DOMAIN deposit' : /\ c = Code[receipt'.pubkey]
                                  /\ deposit'[c].report = receipt'.report]_vars

(***************************************************************************)
(* moddeposit asserts "pubkey not foud on accounts" (award.cpp:90): a key  *)
(* it accepts is the key of a registered node.  Not so in the code, which  *)
(* compares codes and not keys.                                            *)
(***************************************************************************)
OnlyKnownKeys ==
  [][receipt'.act = "moddeposit" =>
       \E n \in DOMAIN node : node[n] = receipt'.pubkey]_vars
=============================================================================

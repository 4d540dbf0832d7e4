------------------------------ MODULE Snapshot ------------------------------
(***************************************************************************)
(* The snapshot loader: it reads the lines of snapshot.csv, keeps one user *)
(* for each ulord address, then asks cleos, for each of them, to create an *)
(* account and to transfer its quantity, and appends the lines it refused  *)
(* to error.csv.  The results of the cleos calls are never looked at.  The *)
(* loader may be stopped anywhere and is started again from the beginning; *)
(* only error.csv and the chain outlive a run.                             *)
(*                                                                         *)
(* A line is the sequence of its fields, << >> the empty one, BadEscape    *)
(* one with an escape the tokenizer does not know.                         *)
(***************************************************************************)
EXTENDS Integers, Sequences, FiniteSets

CONSTANTS Files,      \* the snapshots the loader may be given
          BadEscape,  \* a line the tokenizer throws on
          Texts,      \* what a field can hold
          Unset,      \* the empty string
          Long,       \* the texts of at least 12 characters
          Blanked,    \* a text with its first '\r' made ' '
          Order,      \* the texts in the order of std::string::operator<
          CounterMax, \* the largest int8_t
          Taken,      \* accounts on the chain beforehand, with their keys
          MaxRuns     \* bound on the runs of the loader

ASSUME SnapshotConsts ==
  /\ Files \subseteq Seq(Seq(Texts) \union {BadEscape})
  /\ Unset \in Texts
  /\ Long \subseteq Texts \ {Unset}
  /\ Blanked \in [Texts -> Texts]
  /\ \A t \in Texts : \E i \in 1..Len(Order) : Order[i] = t
  /\ CounterMax \in Nat /\ CounterMax >= 4
  /\ \A t \in Taken : DOMAIN t \subseteq Texts
  /\ MaxRuns \in Nat

VARIABLES file,       \* the snapshot of this instance
          pc,         \* where the loader is
          pos,        \* the next line to read
          g_mapuser,  \* ulord address -> stuser
          seterr,     \* the lines refused
          g_failload, \* lines counted by checkinfo
          g_failitem, \* the numbers of those refused
          todo,       \* the addresses the loop of run() has not done
          errfile,    \* error.csv: what each finished run appended
          owner,      \* the chain's accounts: name -> key
          ledger,     \* the transfers the chain has executed
          runs        \* runs started

loader == <<pos, g_mapuser, seterr, g_failload, g_failitem, todo>>
chain  == <<owner, ledger>>
vars   == <<file, pc, loader, errfile, chain, runs>>

Users == [account : Texts, pubkey : Texts, quantity : Texts]
NoUser == [account |-> Unset, pubkey |-> Unset, quantity |-> Unset]
NoEntry == [a \in {} |-> NoUser]

Init ==
  /\ file \in Files
  /\ pc = "stopped"
  /\ pos = 1 /\ todo = {}
  /\ g_mapuser = NoEntry /\ seterr = {} /\ g_failload = 0 /\ g_failitem = << >>
  /\ errfile = << >>
  /\ owner \in Taken /\ ledger = << >>
  /\ runs = 0

\* A new process: its globals are empty, the file is read from its start.
Start ==
  /\ pc \in {"stopped", "done"} /\ runs < MaxRuns
  /\ runs' = runs + 1
  /\ pc' = "load" /\ pos' = 1 /\ todo' = {}
  /\ g_mapuser' = NoEntry /\ seterr' = {} /\ g_failload' = 0 /\ g_failitem' = << >>
  /\ UNCHANGED <<file, errfile, chain>>

\* calfiled when the tokenizer is at field p: it starts at 1 and wraps.
calfiled(p) == ((p + CounterMax + 1) % (2 * CounterMax + 2)) - (CounterMax + 1)

\* What the switch leaves of field k: the last field it was reached with.
Field(line, k) ==
  LET at == {p \in DOMAIN line : calfiled(p) = k}
  IN  IF at = {} THEN Unset ELSE line[CHOOSE p \in at : \A q \in at : q <= p]

\* Mutant: the user's fields outlive the line, a short one inherits a quantity.
UserOfKept(line) ==
  LET kept == {g_mapuser[a].quantity : a \in DOMAIN g_mapuser} \union {Unset} IN
  [account  |-> Field(line, 2),
   pubkey   |-> Field(line, 3),
   quantity |-> IF Len(line) < 4 THEN CHOOSE q \in kept : kept # {Unset} => q # Unset
                ELSE Blanked[Field(line, 4)]]

UserOf(line) == [account  |-> Field(line, 2),
                 pubkey   |-> Field(line, 3),
                 quantity |-> Blanked[Field(line, 4)]]

\* Mutant: any account that is not empty.
checkinfoSet(usr) == usr.account # Unset

checkinfo(usr) == usr.account \in Long

\* parse on the line at pos.  An empty line is not counted; a line the
\* tokenizer throws on ends the program, which catches nothing.
ReadLine ==
  /\ pc = "load" /\ pos <= Len(file)
  /\ file[pos] # BadEscape
  /\ pos' = pos + 1
  /\ LET line == file[pos] IN
       IF line = << >> THEN UNCHANGED <<g_mapuser, seterr, g_failload, g_failitem>>
       ELSE LET usr == UserOf(line)
                address == Field(line, 1)
            IN /\ g_failload' = g_failload + 1
               /\ IF checkinfo(usr)
                  THEN /\ g_mapuser' = [a \in DOMAIN g_mapuser \union {address} |->
                                          IF a = address THEN usr ELSE g_mapuser[a]]
                       /\ UNCHANGED <<seterr, g_failitem>>
                  ELSE /\ seterr' = seterr \union {line}
                       /\ g_failitem' = Append(g_failitem, g_failload')
                       /\ UNCHANGED g_mapuser
  /\ UNCHANGED <<file, pc, todo, errfile, chain, runs>>

Terminate ==
  /\ pc = "load" /\ pos <= Len(file)
  /\ file[pos] = BadEscape
  /\ pc' = "stopped"
  /\ UNCHANGED <<file, loader, errfile, chain, runs>>

\* Mutant: the loop tests its end after the body.
EndOfFileDo ==
  /\ pc = "load" /\ pos > Len(file)
  /\ todo' = DOMAIN g_mapuser
  /\ pc' = "create"
  /\ UNCHANGED <<file, pos, g_mapuser, seterr, g_failload, g_failitem, errfile, chain, runs>>

\* Mutant: the program returns when nobody was loaded.
EndOfFileQuiet ==
  /\ pc = "load" /\ pos > Len(file)
  /\ todo' = DOMAIN g_mapuser
  /\ pc' = IF todo' = {} THEN "done" ELSE "create"
  /\ UNCHANGED <<file, pos, g_mapuser, seterr, g_failload, g_failitem, errfile, chain, runs>>

EndOfFile ==
  /\ pc = "load" /\ pos > Len(file)
  /\ todo' = DOMAIN g_mapuser
  /\ pc' = IF todo' = {} THEN "save" ELSE "create"
  /\ UNCHANGED <<file, pos, g_mapuser, seterr, g_failload, g_failitem, errfile, chain, runs>>

\* The map is walked in the order of its keys.
Rank(t) == CHOOSE i \in 1..Len(Order) : Order[i] = t
iter == CHOOSE a \in todo : \A b \in todo : Rank(a) <= Rank(b)

\* The chain, when a call reaches it.
NewAccount(account, key) ==
  owner' = [a \in DOMAIN owner \union {account} |->
              IF a \in DOMAIN owner THEN owner[a] ELSE key]
TransferTo(account, quantity) ==
  ledger' = IF account \in DOMAIN owner
            THEN Append(ledger, [account |-> account, quantity |-> quantity])
            ELSE ledger

\* Mutant: the key is that of the first user of the map.
CreateFirstKey ==
  /\ pc = "create"
  /\ LET first == CHOOSE a \in DOMAIN g_mapuser : \A b \in DOMAIN g_mapuser : Rank(a) <= Rank(b)
     IN  \/ NewAccount(g_mapuser[iter].account, g_mapuser[first].pubkey)
         \/ UNCHANGED owner
  /\ pc' = "transfer"
  /\ UNCHANGED <<file, loader, errfile, ledger, runs>>

\* system(cmd) returns when cleos has: the call reached the chain or was lost.
Create ==
  /\ pc = "create"
  /\ \/ NewAccount(g_mapuser[iter].account, g_mapuser[iter].pubkey)
     \/ UNCHANGED owner
  /\ pc' = "transfer"
  /\ UNCHANGED <<file, loader, errfile, ledger, runs>>

\* Mutant: a transfer whose answer was lost is sent again.
TransferRetried ==
  /\ pc = "transfer"
  /\ \/ TransferTo(g_mapuser[iter].account, g_mapuser[iter].quantity)
     \/ UNCHANGED ledger
  /\ \/ todo' = todo \ {iter} /\ pc' = IF todo' = {} THEN "save" ELSE "create"
     \/ UNCHANGED <<todo, pc>>
  /\ UNCHANGED <<file, pos, g_mapuser, seterr, g_failload, g_failitem, errfile, owner, runs>>

Transfer ==
  /\ pc = "transfer"
  /\ \/ TransferTo(g_mapuser[iter].account, g_mapuser[iter].quantity)
     \/ UNCHANGED ledger
  /\ todo' = todo \ {iter}
  /\ pc' = IF todo' = {} THEN "save" ELSE "create"
  /\ UNCHANGED <<file, pos, g_mapuser, seterr, g_failload, g_failitem, errfile, owner, runs>>

\* An error.csv that cannot be opened takes nothing, and nobody is told.
savefile ==
  /\ pc = "save"
  /\ errfile' \in {Append(errfile, seterr), Append(errfile, {})}
  /\ pc' = "done"
  /\ UNCHANGED <<file, loader, chain, runs>>

\* The process is killed.
Stop ==
  /\ pc \in {"load", "create", "transfer", "save"}
  /\ pc' = "stopped"
  /\ UNCHANGED <<file, loader, errfile, chain, runs>>

Step == ReadLine \/ Terminate \/ EndOfFile \/ Create \/ Transfer \/ savefile
Next == Start \/ Step \/ Stop

\* The loader runs on until it is stopped; nobody has to start it again.
Spec == Init /\ [][Next]_vars /\ WF_vars(Step)

-----------------------------------------------------------------------------
TypeOK ==
  /\ file \in Files
  /\ pc \in {"stopped", "load", "create", "transfer", "save", "done"}
  /\ pos \in 1..Len(file) + 1
  /\ DOMAIN g_mapuser \subseteq Texts /\ \A a \in DOMAIN g_mapuser : g_mapuser[a] \in Users
  /\ seterr \subseteq {file[i] : i \in DOMAIN file} \ {<< >>, BadEscape}
  /\ g_failload < pos
  /\ \A n \in DOMAIN g_failitem : g_failitem[n] \in 1..g_failload
  /\ todo \subseteq DOMAIN g_mapuser
  /\ pc \in {"create", "transfer"} => todo # {}
  /\ \A n \in DOMAIN errfile : errfile[n] \subseteq {file[i] : i \in DOMAIN file}
  /\ DOMAIN owner \subseteq Texts
  /\ \A n \in DOMAIN ledger : ledger[n] \in [account : DOMAIN owner, quantity : Texts]
  /\ runs \in 0..MaxRuns

\* The snapshot as a table: what column k of a line says, the lines that name
\* an account, and those the last of their address.
Column(line, k) == IF k <= Len(line) THEN line[k] ELSE Unset
Read    == {i \in DOMAIN file : file[i] \notin {<< >>, BadEscape}}
Listed  == {i \in Read : Column(file[i], 2) \in Long}
Final   == {i \in Listed : \A j \in Listed : j > i => Column(file[j], 1) # Column(file[i], 1)}
HasBadEscape == \E i \in DOMAIN file : file[i] = BadEscape
\* The columns are read for what they are up to the field where calfiled is
\* back at 1.
Fits == \A i \in Read : Len(file[i]) <= 2 * CounterMax + 2

(***************************************************************************)
(* Once a snapshot of lines that fit is loaded, every line of it is        *)
(* accounted for: the map holds the last listed line of each address and   *)
(* nothing else, the error set holds the others, and the numbers reported  *)
(* for them count the lines that are not empty (parse and checkinfo).      *)
(***************************************************************************)
LoadAccountsForAll ==
  pc \in {"create", "transfer", "save", "done"} /\ Fits =>
    /\ DOMAIN g_mapuser = {Column(file[i], 1) : i \in Listed}
    /\ \A i \in Final :
         g_mapuser[Column(file[i], 1)] = [account  |-> Column(file[i], 2),
                                          pubkey   |-> Column(file[i], 3),
                                          quantity |-> Blanked[Column(file[i], 4)]]
    /\ seterr = {file[i] : i \in Read \ Listed}
    /\ {g_failitem[n] : n \in DOMAIN g_failitem}
         = {Cardinality({j \in Read : j <= i}) : i \in Read \ Listed}

(***************************************************************************)
(* What the chain has been made to pay, over all runs, is what the last    *)
(* line of some address says, to the account it says; a snapshot with a    *)
(* line the tokenizer throws on pays nothing, however many good lines come *)
(* before it (parse, run).                                                 *)
(***************************************************************************)
PaysTheLine ==
  Fits => \A n \in DOMAIN ledger :
    /\ ~HasBadEscape
    /\ \E i \in Final : /\ ledger[n].account = Column(file[i], 2)
                        /\ ledger[n].quantity = Blanked[Column(file[i], 4)]

(***************************************************************************)
(* However calls are lost and runs are stopped, an account is paid at most *)
(* once per run and per address that names it: run() ignores the result of *)
(* a call, so it never repeats one.  Each further run may pay it again.    *)
(***************************************************************************)
PaidOncePerRun ==
  Fits => \A i \in Final :
    LET account == Column(file[i], 2)
    IN  Cardinality({n \in DOMAIN ledger : ledger[n].account = account})
          <= runs * Cardinality({j \in Final : Column(file[j], 2) = account})

(***************************************************************************)
(* An account paid for one address only, and free before the first run,    *)
(* belongs to the key of that address's line: the transfer that follows a  *)
(* newaccount that failed cannot reach somebody else's account.            *)
(***************************************************************************)
PaidKeyIsListed ==
  Fits => \A i \in Final :
    LET account == Column(file[i], 2)
        alone   == \A j \in Final \ {i} : Column(file[j], 2) # account
        free    == \A t \in Taken : account \notin DOMAIN t
        paid    == \E n \in DOMAIN ledger : ledger[n].account = account
    IN  alone /\ free /\ paid => owner[account] = Column(file[i], 3)

(***************************************************************************)
(* A line that was refused is appended to error.csv sooner or later,       *)
(* unless the run is stopped first or error.csv cannot be opened (savefile *)
(* is reached whatever the chain answers, and also when no user was        *)
(* loaded).                                                                *)
(***************************************************************************)
RefusedIsSaved ==
  LET unopened == pc = "done" /\ errfile # << >> /\ errfile[Len(errfile)] = {}
  IN  \A line \in UNION {{f[i] : i \in DOMAIN f} : f \in Files} :
        line \in seterr ~>
          (pc = "stopped" \/ unopened \/ \E n \in DOMAIN errfile : line \in errfile[n])
=============================================================================

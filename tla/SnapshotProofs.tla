--------------------------- MODULE SnapshotProofs ---------------------------
(***************************************************************************)
(* What the snapshot loader makes the chain pay, for any snapshot, any     *)
(* number of stops and reruns and any calls lost.  Loaded says what the    *)
(* map holds after the first lines; file never changes, so what the ledger *)
(* may hold can be said in terms of it, over all runs.  Counted says how   *)
(* many lines were read and which of them failed.                          *)
(***************************************************************************)
EXTENDS Snapshot, SequenceTheorems, FiniteSetTheorems, TLAPS

\* A set of naturals has a least one.
LEMMA Least ==
  ASSUME NEW S \in SUBSET Nat, S # {}
  PROVE  \E m \in S : \A k \in S : m <= k
<1> DEFINE R == OpToRel(<, Nat)
<1>1. IsWellFoundedOn(R, Nat)
  BY NatLessThanWellFounded
<1>2. \A x, y \in Nat : x < y => <<x, y>> \in R
  BY DEF OpToRel
<1> HIDE DEF R
<1>3. PICK m \in S : \A k \in S : ~(<<k, m>> \in R)
  BY <1>1, WFMin
<1>4. ASSUME NEW k \in S PROVE m <= k
  <2>1. ~(k < m)
    BY <1>2, <1>3
  <2> QED
    BY <2>1
<1> QED
  BY <1>4

\* The counter is the number of the field as far as it does not come round.
LEMMA Counter ==
  ASSUME NEW p \in 1..(2 * CounterMax + 2), NEW k \in 1..4
  PROVE  calfiled(p) = k <=> p = k
<1> DEFINE M == 2 * CounterMax + 2
<1>0. CounterMax \in Nat /\ CounterMax >= 4 /\ M \in Nat /\ M > 0
  BY SnapshotConsts
<1>1. \A x \in Nat : x < M => x % M = x
  BY <1>0
<1>2. \A x \in Nat : M <= x /\ x < 2 * M => x % M = x - M
  BY <1>0
<1>3. CASE p <= CounterMax
  BY <1>0, <1>1, <1>3 DEF calfiled
<1>4. CASE p > CounterMax
  BY <1>0, <1>2, <1>4 DEF calfiled
<1> QED
  BY <1>0, <1>3, <1>4

\* On a line that fits, the switch leaves in each field its column.
LEMMA FieldIsColumn ==
  ASSUME NEW line \in Seq(Texts), Len(line) <= 2 * CounterMax + 2, NEW k \in 1..4
  PROVE  Field(line, k) = Column(line, k)
<1> DEFINE at == {p \in DOMAIN line : calfiled(p) = k}
<1>1. DOMAIN line = 1..Len(line) /\ Len(line) \in Nat
  BY LenProperties
<1>2. \A p \in 1..Len(line) : calfiled(p) = k <=> p = k
  BY <1>1, Counter, SnapshotConsts
<1>3. CASE k <= Len(line)
  <2>1. at = {k}
    BY <1>1, <1>2, <1>3
  <2>2. (CHOOSE p \in at : \A q \in at : q <= p) = k
    BY <2>1
  <2> QED
    BY <1>3, <2>1, <2>2 DEF Field, Column
<1>4. CASE k > Len(line)
  <2>1. at = {}
    BY <1>1, <1>2, <1>4
  <2> QED
    BY <1>1, <1>4, <2>1 DEF Field, Column
<1> QED
  BY <1>1, <1>3, <1>4

\* The loop of run() takes an address that is left.
LEMMA IterInTodo ==
  ASSUME todo \subseteq Texts, todo # {}
  PROVE  iter \in todo
<1>1. \A t \in Texts : Rank(t) \in Nat
  <2> TAKE t \in Texts
  <2>1. \E i \in 1..Len(Order) : Order[i] = t
    BY SnapshotConsts
  <2> QED
    BY <2>1 DEF Rank
<1>2. PICK m \in {Rank(t) : t \in todo} : \A k \in {Rank(t) : t \in todo} : m <= k
  <2>1. {Rank(t) : t \in todo} \in SUBSET Nat /\ {Rank(t) : t \in todo} # {}
    BY <1>1
  <2> QED
    BY <2>1, Least
<1>3. \E a \in todo : \A b \in todo : Rank(a) <= Rank(b)
  BY <1>2
<1> QED
  BY <1>3 DEF iter
-----------------------------------------------------------------------------
\* The user a line gives, by its columns.
LineUser(line) == [account  |-> Column(line, 2),
                   pubkey   |-> Column(line, 3),
                   quantity |-> Blanked[Column(line, 4)]]

\* Line i is the last so far to give the user of its address.
Latest(i) ==
  /\ i \in Listed /\ i < pos
  /\ \A j \in Listed : i < j /\ j < pos => Column(file[j], 1) # Column(file[i], 1)

Loaded ==
  /\ file \in Files
  /\ pos \in Nat \ {0}
  /\ \A i \in DOMAIN file : i < pos => file[i] # BadEscape
  /\ DOMAIN g_mapuser \subseteq Texts
  /\ \A a \in DOMAIN g_mapuser :
       \E i \in Listed : /\ Latest(i) /\ Column(file[i], 1) = a
                         /\ g_mapuser[a] = LineUser(file[i])
  /\ todo \subseteq DOMAIN g_mapuser
  /\ pc \in {"stopped", "load", "create", "transfer", "save", "done"}
  /\ pc \in {"create", "transfer"} => todo # {} /\ pos > Len(file)

\* What may be paid: for the last line of some address, if all can be read.
Payments ==
  {[account |-> Column(file[i], 2), quantity |-> Blanked[Column(file[i], 4)]] :
     i \in {j \in Final : ~HasBadEscape}}

\* Who may own an account that is free beforehand and named by one line only.
Owned ==
  \A i \in Final :
    LET account == Column(file[i], 2)
    IN  /\ \A j \in Final \ {i} : Column(file[j], 2) # account
        /\ \A t \in Taken : account \notin DOMAIN t
        /\ account \in DOMAIN owner
        => owner[account] = Column(file[i], 3)

IInv ==
  Fits => /\ Loaded
          /\ ledger \in Seq({p \in Payments : p.account \in DOMAIN owner})
          /\ Owned

\* A line that was read, and its columns.
LEMMA Lines ==
  ASSUME file \in Files
  PROVE  /\ DOMAIN file = 1..Len(file) /\ Len(file) \in Nat
         /\ \A i \in DOMAIN file : file[i] # BadEscape => file[i] \in Seq(Texts)
         /\ \A i \in Read, k \in 1..4 : Column(file[i], k) \in Texts
<1>1. file \in Seq(Seq(Texts) \union {BadEscape})
  BY SnapshotConsts
<1>2. DOMAIN file = 1..Len(file) /\ Len(file) \in Nat
  BY <1>1, LenProperties
<1>3. \A i \in DOMAIN file : file[i] # BadEscape => file[i] \in Seq(Texts)
  BY <1>1, <1>2, ElementOfSeq
<1>4. ASSUME NEW i \in Read, NEW k \in 1..4 PROVE Column(file[i], k) \in Texts
  <2>1. file[i] \in Seq(Texts)
    BY <1>3 DEF Read
  <2>2. Len(file[i]) \in Nat
    BY <2>1, LenProperties
  <2> QED
    BY <2>1, <2>2, ElementOfSeq, SnapshotConsts DEF Column
<1> QED
  BY <1>2, <1>3, <1>4

\* What parse makes of a line that fits.
LEMMA ParsedUser ==
  ASSUME file \in Files, Fits, NEW i \in Read
  PROVE  /\ UserOf(file[i]) = LineUser(file[i])
         /\ Field(file[i], 1) = Column(file[i], 1)
<1>1. file[i] \in Seq(Texts) /\ Len(file[i]) <= 2 * CounterMax + 2
  BY Lines DEF Read, Fits
<1>2. \A k \in 1..4 : Field(file[i], k) = Column(file[i], k)
  BY <1>1, FieldIsColumn
<1> QED
  BY <1>2 DEF UserOf, LineUser

\* Once the file is read to its end, a user of the map is that of a final line.
LEMMA FinalUser ==
  ASSUME Loaded, pos > Len(file), NEW a \in DOMAIN g_mapuser
  PROVE  /\ ~HasBadEscape
         /\ \E i \in Final : /\ Latest(i) /\ Column(file[i], 1) = a
                            /\ g_mapuser[a] = LineUser(file[i])
<1>1. DOMAIN file = 1..Len(file) /\ Len(file) \in Nat /\ pos \in Nat
  BY Lines DEF Loaded
<1>2. \A i \in DOMAIN file : i < pos
  BY <1>1
<1>3. PICK i \in Listed : /\ Latest(i) /\ Column(file[i], 1) = a
                         /\ g_mapuser[a] = LineUser(file[i])
  BY DEF Loaded
<1>4. i \in Final
  <2>1. \A j \in Listed : j \in DOMAIN file
    BY DEF Listed, Read
  <2>2. ASSUME NEW j \in Listed, j > i PROVE Column(file[j], 1) # Column(file[i], 1)
    BY <1>1, <1>2, <1>3, <2>1, <2>2 DEF Latest
  <2> QED
    BY <2>2 DEF Final
<1> QED
  BY <1>2, <1>3, <1>4 DEF Loaded, HasBadEscape
-----------------------------------------------------------------------------
\* What the snapshot says does not change, since it is never written.
LEMMA SnapshotStays ==
  ASSUME UNCHANGED file
  PROVE  UNCHANGED <<Fits, Read, Listed, Final, HasBadEscape, Payments>>
BY DEF Fits, Read, Listed, Final, HasBadEscape, Payments

\* The loader starts, before its first run, with nothing loaded and nothing paid.
LEMMA InitInv == Init => IInv
<1> SUFFICES ASSUME Init PROVE IInv
  OBVIOUS
<1>1. Loaded
  <2>1. DOMAIN file = 1..Len(file)
    BY Lines DEF Init
  <2> QED
    BY <2>1 DEF Init, Loaded, NoEntry
<1>2. ledger \in Seq({p \in Payments : p.account \in DOMAIN owner})
  BY DEF Init
<1>3. Owned
  BY DEF Init, Owned
<1> QED
  BY <1>1, <1>2, <1>3 DEF IInv

\* One line more is read.
LEMMA ReadLineLoaded ==
  ASSUME Fits, Loaded, ReadLine
  PROVE  Loaded'
<1>1. /\ pc = "load" /\ pos \in 1..Len(file) /\ pos \in DOMAIN file /\ file[pos] # BadEscape
      /\ pos' = pos + 1 /\ UNCHANGED <<file, pc, todo>>
  <2>1. pos \in DOMAIN file
    BY SnapshotConsts, Lines DEF ReadLine, Loaded, Read
  <2> QED
    BY <2>1, Lines DEF ReadLine, Loaded
<1>2. UNCHANGED <<Read, Listed>>
  BY <1>1, SnapshotStays
<1>3. \A i \in DOMAIN file : i < pos' <=> i < pos \/ i = pos
  BY <1>1, Lines DEF Loaded
<1>4. \A i \in DOMAIN file : i < pos' => file[i] # BadEscape
  BY <1>1, <1>3 DEF Loaded
<1>5. CASE pos \notin Listed
  <2>1. UNCHANGED g_mapuser
    <3>1. CASE file[pos] = << >>
      BY <1>1, <3>1 DEF ReadLine
    <3>2. CASE file[pos] # << >>
      <4>1. pos \in Read
        BY <1>1, <3>2 DEF Read
      <4>2. ~checkinfo(UserOf(file[pos]))
        <5>1. UserOf(file[pos]).account = Column(file[pos], 2)
          <6>1. UserOf(file[pos]) = LineUser(file[pos])
            BY <4>1, ParsedUser DEF Loaded
          <6> QED
            BY <6>1 DEF LineUser
        <5> QED
          BY <1>5, <4>1, <5>1 DEF Listed, checkinfo
      <4> QED
        BY <3>2, <4>2 DEF ReadLine
    <3> QED
      BY <3>1, <3>2
  <2>2. \A i \in Listed : Latest(i) => Latest(i)'
    BY <1>1, <1>2, <1>3, <1>5 DEF Latest, Listed, Read
  <2> QED
    BY <1>1, <1>2, <1>4, <2>1, <2>2 DEF Loaded
<1>6. CASE pos \in Listed
  <2>0. PICK p : p = pos
    OBVIOUS
  <2> DEFINE address == Column(file[p], 1)
  <2>1. p \in Read /\ file[p] # << >> /\ checkinfo(LineUser(file[p]))
    BY <1>6, <2>0 DEF Listed, Read, checkinfo, LineUser
  <2>2. UserOf(file[p]) = LineUser(file[p]) /\ Field(file[p], 1) = address
    BY <2>1, ParsedUser DEF Loaded
  <2>3. g_mapuser' = [a \in DOMAIN g_mapuser \union {address} |->
                        IF a = address THEN LineUser(file[p]) ELSE g_mapuser[a]]
    BY <2>0, <2>1, <2>2 DEF ReadLine
  <2>4. address \in Texts
    BY <2>1, Lines DEF Loaded
  <2>5. \A i \in Listed : i \in DOMAIN file /\ i \in Nat
    BY Lines DEF Listed, Read, Loaded
  <2>6. Latest(p)'
    BY <1>1, <1>2, <1>6, <2>0, <2>5 DEF Latest, Loaded
  <2>7. \A i \in Listed : Latest(i) /\ Column(file[i], 1) # address => Latest(i)'
    BY <1>1, <1>2, <1>3, <2>0, <2>5 DEF Latest
  <2>8. ASSUME NEW a \in DOMAIN g_mapuser'
        PROVE  \E i \in Listed' : /\ Latest(i)' /\ Column(file'[i], 1) = a
                                  /\ g_mapuser'[a] = LineUser(file'[i])
    <3>1. CASE a = address
      BY <1>1, <1>2, <1>6, <2>0, <2>3, <2>6, <3>1
    <3>2. CASE a # address
      <4>1. a \in DOMAIN g_mapuser /\ g_mapuser'[a] = g_mapuser[a]
        BY <2>3, <3>2
      <4>2. PICK i \in Listed : Latest(i) /\ Column(file[i], 1) = a
                                /\ g_mapuser[a] = LineUser(file[i])
        BY <4>1 DEF Loaded
      <4> QED
        BY <1>1, <1>2, <2>7, <3>2, <4>1, <4>2
    <3> QED
      BY <3>1, <3>2
  <2> QED
    <3>1. DOMAIN g_mapuser' \subseteq Texts /\ todo' \subseteq DOMAIN g_mapuser'
      BY <1>1, <2>3, <2>4 DEF Loaded
    <3>2. /\ file' \in Files /\ pos' \in Nat \ {0} /\ pc' = "load"
          /\ \A i \in DOMAIN file' : i < pos' => file'[i] # BadEscape
      BY <1>1, <1>4, Lines DEF Loaded
    <3> QED
      BY <2>8, <3>1, <3>2 DEF Loaded
<1> QED
  BY <1>5, <1>6

\* Every step keeps the map of users equal to what the lines read so far give.
LEMMA LoadedNext ==
  ASSUME Fits, Loaded, [Next]_vars
  PROVE  Loaded'
<1>1. CASE Start
  BY <1>1, Lines DEF Start, Loaded, NoEntry
<1>2. CASE ReadLine
  BY <1>2, ReadLineLoaded
<1>3. ASSUME UNCHANGED <<file, pos, g_mapuser>>, todo' \subseteq DOMAIN g_mapuser,
             pc' \in {"stopped", "load", "create", "transfer", "save", "done"},
             pc' \in {"create", "transfer"} => todo' # {} /\ pos > Len(file)
      PROVE  Loaded'
  BY <1>3, SnapshotStays DEF Loaded, Latest
<1>4. CASE EndOfFile
  BY <1>3, <1>4 DEF EndOfFile
<1>5. CASE Create
  BY <1>3, <1>5 DEF Create, loader, Loaded
<1>6. CASE Transfer
  BY <1>3, <1>6 DEF Transfer, Loaded
<1>7. CASE Terminate \/ savefile \/ Stop \/ UNCHANGED vars
  BY <1>3, <1>7 DEF Terminate, savefile, Stop, vars, loader, Loaded
<1> QED
  BY <1>1, <1>2, <1>4, <1>5, <1>6, <1>7 DEF Next, Step

\* The user run() is at is that of a final line.
LEMMA IterUser ==
  ASSUME Loaded, pc \in {"create", "transfer"}
  PROVE  /\ ~HasBadEscape
         /\ \E i \in Final : /\ Column(file[i], 1) = iter
                            /\ g_mapuser[iter] = LineUser(file[i])
<1>1. iter \in DOMAIN g_mapuser
  BY IterInTodo DEF Loaded
<1> QED
  BY <1>1, FinalUser DEF Loaded

\* Every step, a stop included, keeps the inductive invariant.
LEMMA NextInv == IInv /\ [Next]_vars => IInv'
<1> SUFFICES ASSUME IInv, [Next]_vars, Fits' PROVE IInv'
  BY DEF IInv
<1> DEFINE Safe == {p \in Payments : p.account \in DOMAIN owner}
<1>1. UNCHANGED file
  BY DEF Next, Start, Step, ReadLine, Terminate, EndOfFile, Create, Transfer, savefile, Stop, vars
<1>2. UNCHANGED <<Fits, Final, Payments>>
  BY <1>1, SnapshotStays
<1>3. Loaded /\ Owned /\ ledger \in Seq(Safe) /\ Loaded'
  BY <1>2, LoadedNext DEF IInv
<1>4. CASE UNCHANGED <<owner, ledger>>
  BY <1>1, <1>2, <1>3, <1>4 DEF IInv, Owned
<1>5. CASE Create /\ ~UNCHANGED owner
  <2>1. PICK j \in Final : g_mapuser[iter] = LineUser(file[j])
    BY <1>3, <1>5, IterUser DEF Create
  <2> DEFINE new == Column(file[j], 2)
  <2>2. /\ owner' = [a \in DOMAIN owner \union {new} |->
                       IF a \in DOMAIN owner THEN owner[a] ELSE Column(file[j], 3)]
        /\ UNCHANGED ledger
    BY <1>5, <2>1 DEF Create, NewAccount, LineUser
  <2>3. Safe \subseteq Safe'
    BY <1>2, <2>2
  <2>4. ledger' \in Seq(Safe')
    BY <1>3, <2>2, <2>3, SeqMonotonic
  <2>5. Owned'
    BY <1>1, <1>2, <1>3, <2>2 DEF Owned
  <2> QED
    BY <1>3, <2>4, <2>5 DEF IInv
<1>6. CASE Transfer /\ ~UNCHANGED ledger
  <2>1. ~HasBadEscape
    BY <1>3, <1>6, IterUser DEF Transfer
  <2>2. PICK j \in Final : g_mapuser[iter] = LineUser(file[j])
    BY <1>3, <1>6, IterUser DEF Transfer
  <2> DEFINE pay == [account |-> Column(file[j], 2), quantity |-> Blanked[Column(file[j], 4)]]
  <2>3. ledger' = Append(ledger, pay) /\ pay.account \in DOMAIN owner /\ UNCHANGED owner
    BY <1>6, <2>2 DEF Transfer, TransferTo, LineUser
  <2>4. pay \in Safe
    BY <2>1, <2>3 DEF Payments
  <2>5. Append(ledger, pay) \in Seq(Safe)
    BY <1>3, <2>4, AppendProperties
  <2> QED
    BY <1>1, <1>2, <1>3, <2>3, <2>5 DEF IInv, Owned
<1> QED
  BY <1>4, <1>5, <1>6
  DEF Next, Start, Step, ReadLine, Terminate, EndOfFile, Create, Transfer, savefile, Stop,
      vars, chain

\* The inductive invariant holds in every run of the loader, after any number of
\* stops (snapshoot/main.cpp).
THEOREM Invariance == Spec => []IInv
BY InitInv, NextInv, PTL DEF Spec

(***************************************************************************)
(* Over all runs, stops and lost calls the chain is made to pay only what  *)
(* the last line of an address says, and nothing if a line is unreadable.  *)
(***************************************************************************)
THEOREM AlwaysPaysTheLine == Spec => []PaysTheLine
<1>1. IInv => PaysTheLine
  <2> SUFFICES ASSUME IInv, Fits, NEW n \in DOMAIN ledger
               PROVE  /\ ~HasBadEscape
                      /\ \E i \in Final : /\ ledger[n].account = Column(file[i], 2)
                                          /\ ledger[n].quantity = Blanked[Column(file[i], 4)]
    BY DEF PaysTheLine
  <2>1. ledger[n] \in Payments
    BY LenProperties, ElementOfSeq DEF IInv
  <2> QED
    BY <2>1 DEF Payments
<1> QED
  BY <1>1, Invariance, PTL

(***************************************************************************)
(* An account paid that was free before and that one line names belongs to *)
(* the key of that line, whether or not newaccount went through each time. *)
(***************************************************************************)
THEOREM PaidKeyAlwaysListed == Spec => []PaidKeyIsListed
<1>1. IInv => PaidKeyIsListed
  <2> SUFFICES ASSUME IInv, Fits PROVE PaidKeyIsListed
    BY DEF PaidKeyIsListed
  <2>1. \A n \in DOMAIN ledger : ledger[n].account \in DOMAIN owner
    BY LenProperties, ElementOfSeq DEF IInv
  <2> QED
    BY <2>1 DEF PaidKeyIsListed, IInv, Owned
<1> QED
  BY <1>1, Invariance, PTL
-----------------------------------------------------------------------------
\* The lines of the file that the loader has read.
Passed == {i \in Read : i < pos}

\* The address of a line, and its number among those that are not empty.
Address == [i \in Read |-> Column(file[i], 1)]
Number  == [i \in Read |-> Cardinality({j \in Read : j <= i})]

\* What the loading pass has kept of the lines it has read.
Counted ==
  /\ DOMAIN g_mapuser = {Address[i] : i \in Listed \intersect Passed}
  /\ seterr = {file[i] : i \in Passed \ Listed}
  /\ g_failload = Cardinality(Passed)
  /\ g_failitem \in Seq(Nat)
  /\ {g_failitem[n] : n \in DOMAIN g_failitem} = {Number[i] : i \in Passed \ Listed}
  /\ pc \in {"create", "transfer", "save", "done"} => pos > Len(file)

\* The lines read are finitely many.
LEMMA ReadFinite ==
  ASSUME file \in Files
  PROVE  /\ IsFiniteSet(Read) /\ Read \subseteq Nat \ {0}
         /\ \A S \in SUBSET Read : IsFiniteSet(S) /\ Cardinality(S) \in Nat
<1>1. DOMAIN file = 1..Len(file) /\ Len(file) \in Nat
  BY Lines
<1>2. IsFiniteSet(1..Len(file))
  BY <1>1, FS_Interval
<1>3. Read \subseteq 1..Len(file)
  BY <1>1 DEF Read
<1>4. IsFiniteSet(Read)
  BY <1>2, <1>3, FS_Subset
<1> QED
  <2>1. ASSUME NEW S \in SUBSET Read PROVE IsFiniteSet(S) /\ Cardinality(S) \in Nat
    BY <1>4, FS_Subset, FS_CardinalityType
  <2> QED
    BY <1>1, <1>3, <1>4, <2>1

\* What the lines are does not change while they are read.
LEMMA LinesStay ==
  ASSUME UNCHANGED file
  PROVE  UNCHANGED <<Read, Listed, Address, Number>>
<1>1. UNCHANGED <<Read, Listed>>
  BY SnapshotStays
<1> QED
  BY <1>1 DEF Address, Number

\* Appending to a sequence adds one element to its range.
LEMMA AppendRange ==
  ASSUME NEW S, NEW s \in Seq(S), NEW e \in S
  PROVE  {Append(s, e)[n] : n \in DOMAIN Append(s, e)} = {s[n] : n \in DOMAIN s} \union {e}
<1>1. /\ Len(s) \in Nat /\ DOMAIN s = 1..Len(s)
      /\ DOMAIN Append(s, e) = 1..Len(s) + 1
      /\ \A n \in 1..Len(s) : Append(s, e)[n] = s[n]
      /\ Append(s, e)[Len(s) + 1] = e
  BY AppendProperties, LenProperties
<1>2. 1..Len(s) + 1 = 1..Len(s) \union {Len(s) + 1}
  BY <1>1
<1> QED
  BY <1>1, <1>2

\* One line more is counted.
LEMMA ReadLineCounted ==
  ASSUME Fits, Loaded, Counted, ReadLine
  PROVE  Counted'
<1>1. /\ pc = "load" /\ pos \in DOMAIN file /\ file[pos] # BadEscape /\ pos \in Nat
      /\ pos' = pos + 1 /\ UNCHANGED <<file, pc>>
  BY Lines DEF ReadLine, Loaded
<1>2. /\ UNCHANGED <<Read, Listed, Address, Number>>
      /\ Listed \subseteq Read /\ Read \subseteq DOMAIN file
  BY <1>1, LinesStay DEF Listed, Read
<1>3. Read \subseteq Nat /\ IsFiniteSet(Passed) /\ Cardinality(Passed) \in Nat
  BY ReadFinite DEF Passed, Loaded
<1>4. CASE file[pos] = << >>
  <2>1. UNCHANGED <<g_mapuser, seterr, g_failload, g_failitem>>
    BY <1>4 DEF ReadLine
  <2>2. pos \notin Read
    BY <1>4 DEF Read
  <2>3. Passed' = Passed
    BY <1>1, <1>2, <1>3, <2>2 DEF Passed
  <2> QED
    BY <1>1, <1>2, <2>1, <2>3 DEF Counted
<1>5. CASE file[pos] # << >>
  <2>0. PICK p : p = pos
    OBVIOUS
  <2>1. p \in Read
    BY <1>1, <1>5, <2>0 DEF Read
  <2>2. Passed' = Passed \union {p} /\ p \notin Passed
    BY <1>1, <1>2, <1>3, <2>0, <2>1 DEF Passed
  <2>3. Cardinality(Passed') = Cardinality(Passed) + 1
    BY <1>3, <2>2, FS_AddElement
  <2>4. Number[p] = Cardinality(Passed')
    <3>1. {j \in Read : j <= p} = Passed'
      BY <1>1, <1>2, <1>3, <2>0 DEF Passed
    <3> QED
      BY <2>1, <3>1 DEF Number
  <2>5. UserOf(file[p]) = LineUser(file[p]) /\ Field(file[p], 1) = Address[p]
    BY <2>1, ParsedUser DEF Loaded, Address
  <2>6. checkinfo(UserOf(file[p])) <=> p \in Listed
    BY <2>1, <2>5 DEF checkinfo, LineUser, Listed
  <2>7. g_failload' = Cardinality(Passed')
    BY <1>5, <2>3 DEF ReadLine, Counted
  <2>8. CASE p \in Listed
    <3>1. DOMAIN g_mapuser' = DOMAIN g_mapuser \union {Address[p]}
      BY <1>5, <2>0, <2>5, <2>6, <2>8 DEF ReadLine
    <3>2. UNCHANGED <<seterr, g_failitem>>
      BY <1>5, <2>0, <2>6, <2>8 DEF ReadLine
    <3>3. Passed' \ Listed = Passed \ Listed
          /\ Listed \intersect Passed' = (Listed \intersect Passed) \union {p}
      BY <2>2, <2>8
    <3>4. DOMAIN g_mapuser' = {Address'[j] : j \in Listed' \intersect Passed'}
      BY <1>2, <3>1, <3>3 DEF Counted
    <3>5. seterr' = {file'[j] : j \in Passed' \ Listed'}
      BY <1>1, <1>2, <3>2, <3>3 DEF Counted
    <3>6. /\ g_failitem' \in Seq(Nat)
          /\ {g_failitem'[n] : n \in DOMAIN g_failitem'} = {Number'[j] : j \in Passed' \ Listed'}
      BY <1>2, <3>2, <3>3 DEF Counted
    <3>7. pc' = "load"
      BY <1>1
    <3> QED
      BY <2>7, <3>4, <3>5, <3>6, <3>7 DEF Counted
  <2>9. CASE p \notin Listed
    <3>1. /\ UNCHANGED g_mapuser /\ seterr' = seterr \union {file[p]}
          /\ g_failitem' = Append(g_failitem, Cardinality(Passed'))
      BY <1>5, <2>0, <2>6, <2>7, <2>9 DEF ReadLine
    <3>2. Passed' \ Listed = (Passed \ Listed) \union {p}
          /\ Listed \intersect Passed' = Listed \intersect Passed
      BY <2>2, <2>9
    <3>3. Cardinality(Passed') \in Nat
      BY <1>3, <2>3
    <3>4. g_failitem' \in Seq(Nat)
      BY <3>1, <3>3, AppendProperties DEF Counted
    <3>5. {g_failitem'[n] : n \in DOMAIN g_failitem'}
            = {g_failitem[n] : n \in DOMAIN g_failitem} \union {Cardinality(Passed')}
      BY <3>1, <3>3, AppendRange DEF Counted
    <3>7. seterr' = {file[i] : i \in Passed' \ Listed}
      BY <3>1, <3>2 DEF Counted
    <3>8. {g_failitem'[n] : n \in DOMAIN g_failitem'} = {Number[i] : i \in Passed' \ Listed}
      BY <2>4, <3>2, <3>5 DEF Counted
    <3>9. /\ DOMAIN g_mapuser' = {Address'[j] : j \in Listed' \intersect Passed'}
          /\ seterr' = {file'[j] : j \in Passed' \ Listed'}
          /\ {g_failitem'[n] : n \in DOMAIN g_failitem'} = {Number'[j] : j \in Passed' \ Listed'}
      <4>1. DOMAIN g_mapuser' = {Address'[j] : j \in Listed' \intersect Passed'}
        BY <1>2, <3>1, <3>2 DEF Counted
      <4>2. seterr' = {file'[j] : j \in Passed' \ Listed'}
        BY <1>1, <1>2, <3>7
      <4> QED
        BY <1>2, <3>8, <4>1, <4>2
    <3>10. pc' = "load"
      BY <1>1
    <3> QED
      BY <2>7, <3>4, <3>9, <3>10 DEF Counted
  <2> QED
    BY <2>8, <2>9
<1> QED
  BY <1>4, <1>5

\* Every step keeps account of the lines read.
LEMMA CountedNext ==
  ASSUME Fits, Loaded, Counted, [Next]_vars
  PROVE  Counted'
<1>1. CASE Start
  <2>1. Passed' = {}
    BY <1>1, ReadFinite DEF Start, Passed, Loaded, Read
  <2>2. UNCHANGED <<Read, Listed, Address, Number>>
    BY <1>1, LinesStay DEF Start
  <2>3. /\ DOMAIN g_mapuser' = {} /\ seterr' = {} /\ g_failload' = 0 /\ g_failitem' = << >>
        /\ pc' = "load"
    BY <1>1 DEF Start, NoEntry
  <2> QED
    BY <2>1, <2>2, <2>3, FS_EmptySet DEF Counted
<1>2. CASE ReadLine
  BY <1>2, ReadLineCounted
<1>3. ASSUME UNCHANGED <<file, pos, g_mapuser, seterr, g_failload, g_failitem>>,
             pc' \in {"create", "transfer", "save", "done"} => pos > Len(file)
      PROVE  Counted'
  BY <1>3, LinesStay DEF Counted, Passed
<1>4. CASE Terminate \/ EndOfFile \/ Create \/ Transfer \/ savefile \/ Stop \/ UNCHANGED vars
  BY <1>3, <1>4 DEF Terminate, EndOfFile, Create, Transfer, savefile, Stop, vars, loader, Counted
<1> QED
  BY <1>1, <1>2, <1>4 DEF Next, Step

LEMMA CountedInit == Init /\ Fits => Counted
<1> SUFFICES ASSUME Init, Fits PROVE Counted
  OBVIOUS
<1>1. Passed = {}
  BY ReadFinite DEF Init, Passed
<1> QED
  BY <1>1, FS_EmptySet DEF Init, Counted, NoEntry

(***************************************************************************)
(* However often the loader was stopped before, a run that has read its    *)
(* file holds every line of it as a user or as refused (parse).            *)
(***************************************************************************)
THEOREM LoadAlwaysAccountsForAll == Spec => []LoadAccountsForAll
<1>1. Init => (Fits => Counted)
  BY CountedInit
<1>2. IInv /\ (Fits => Counted) /\ [Next]_vars => (Fits => Counted)'
  <2> SUFFICES ASSUME IInv, Fits => Counted, [Next]_vars, Fits' PROVE Counted'
    OBVIOUS
  <2>1. UNCHANGED file
    BY DEF Next, Start, Step, ReadLine, Terminate, EndOfFile, Create, Transfer, savefile, Stop, vars
  <2> QED
    BY <2>1, SnapshotStays, CountedNext DEF IInv
<1>3. IInv /\ (Fits => Counted) => LoadAccountsForAll
  <2> SUFFICES ASSUME Fits, Loaded, Counted, pos > Len(file)
               PROVE  LoadAccountsForAll
    BY DEF IInv, Counted, LoadAccountsForAll
  <2>1. Passed = Read /\ Listed \intersect Passed = Listed /\ Passed \ Listed = Read \ Listed
    BY Lines DEF Passed, Read, Loaded, Listed
  <2>2. ASSUME NEW i \in Final
        PROVE  g_mapuser[Column(file[i], 1)] = LineUser(file[i])
    <3>1. i \in Listed /\ Column(file[i], 1) \in DOMAIN g_mapuser
      BY <2>1 DEF Final, Counted, Address, Listed
    <3>2. PICK j \in Final : /\ Column(file[j], 1) = Column(file[i], 1)
                             /\ g_mapuser[Column(file[i], 1)] = LineUser(file[j])
      BY <3>1, FinalUser
    <3>3. i \in Nat /\ j \in Nat /\ j \in Listed
      BY <3>1, <3>2, ReadFinite DEF Final, Listed, Loaded
    <3>4. i = j
      BY <3>1, <3>2, <3>3 DEF Final
    <3> QED
      BY <3>2, <3>4
  <2> QED
    <3>1. /\ {Address[i] : i \in Listed} = {Column(file[i], 1) : i \in Listed}
          /\ {Number[i] : i \in Read \ Listed}
               = {Cardinality({j \in Read : j <= i}) : i \in Read \ Listed}
      BY DEF Address, Number, Listed
    <3> QED
      BY <2>1, <2>2, <3>1 DEF Counted, LoadAccountsForAll, LineUser
<1> QED
  BY <1>1, <1>2, <1>3, Invariance, PTL DEF Spec
-----------------------------------------------------------------------------
\* The lines that name an account and are the last of their address; those of
\* them whose address the run under way is done with; the transfers l holds to it.
Naming(account)  == {i \in Final : Column(file[i], 2) = account}
Served(account)  == {i \in Naming(account) : Column(file[i], 1) \notin todo}
To(l, account)   == {n \in DOMAIN l : l[n].account = account}

\* How many transfers an account may have had: one per line that names it for
\* each run before, and in a run that pays one per line served.
Paid ==
  /\ runs \in Nat
  /\ pc \in {"load", "create", "transfer"} => runs # 0
  /\ \A account :
       Cardinality(To(ledger, account))
         <= CASE pc = "load" -> (runs - 1) * Cardinality(Naming(account))
              [] pc \in {"create", "transfer"} ->
                   (runs - 1) * Cardinality(Naming(account)) + Cardinality(Served(account))
              [] OTHER -> runs * Cardinality(Naming(account))

\* The sets counted are finite.
LEMMA FinalFinite ==
  ASSUME file \in Files, NEW account
  PROVE  /\ IsFiniteSet(Naming(account)) /\ Cardinality(Naming(account)) \in Nat
         /\ IsFiniteSet(Served(account)) /\ Cardinality(Served(account)) \in Nat
         /\ Cardinality(Served(account)) <= Cardinality(Naming(account))
<1>1. Naming(account) \in SUBSET Read /\ Served(account) \in SUBSET Naming(account)
  BY DEF Naming, Served, Final, Listed
<1> QED
  BY <1>1, ReadFinite, FS_Subset

\* A run more may pay each line once more.
LEMMA OneRunMore ==
  ASSUME NEW n \in Nat \ {0}, NEW k \in Nat
  PROVE  (n - 1) * k \in Nat /\ n * k \in Nat /\ (n - 1) * k + k = n * k
<1>1. n - 1 \in Nat
  OBVIOUS
<1>2. \A m \in Nat : m * k \in Nat /\ (m + 1) * k = m * k + k
  OBVIOUS
<1> QED
  BY <1>1, <1>2

\* The transfers to an account are finitely many.
LEMMA ToFinite ==
  ASSUME NEW S, NEW l \in Seq(S), NEW account
  PROVE  IsFiniteSet(To(l, account)) /\ Cardinality(To(l, account)) \in Nat
<1>1. DOMAIN l = 1..Len(l) /\ Len(l) \in Nat
  BY LenProperties
<1>2. IsFiniteSet(1..Len(l))
  BY <1>1, FS_Interval
<1>3. To(l, account) \in SUBSET (1..Len(l))
  BY <1>1 DEF To
<1>4. IsFiniteSet(To(l, account))
  BY <1>2, <1>3, FS_Subset
<1> QED
  BY <1>4, FS_CardinalityType

\* Which transfers are counted after one more.
LEMMA ToAppend ==
  ASSUME NEW S, NEW l \in Seq(S), NEW e \in S, NEW account
  PROVE  Cardinality(To(Append(l, e), account))
           = Cardinality(To(l, account)) + (IF e.account = account THEN 1 ELSE 0)
<1>1. /\ Len(l) \in Nat /\ DOMAIN l = 1..Len(l)
      /\ DOMAIN Append(l, e) = 1..Len(l) + 1
      /\ \A n \in 1..Len(l) : Append(l, e)[n] = l[n]
      /\ Append(l, e)[Len(l) + 1] = e
  BY AppendProperties, LenProperties
<1>2. IsFiniteSet(To(l, account)) /\ Cardinality(To(l, account)) \in Nat
  BY ToFinite
<1>3. CASE e.account = account
  <2>1. To(Append(l, e), account) = To(l, account) \union {Len(l) + 1}
        /\ Len(l) + 1 \notin To(l, account)
    BY <1>1, <1>3 DEF To
  <2>2. Cardinality(To(Append(l, e), account)) = Cardinality(To(l, account)) + 1
    BY <1>2, <2>1, FS_AddElement
  <2> QED
    BY <1>2, <1>3, <2>2
<1>4. CASE e.account # account
  <2>1. To(Append(l, e), account) = To(l, account)
    BY <1>1, <1>4 DEF To
  <2> QED
    BY <1>2, <1>4, <2>1
<1> QED
  BY <1>3, <1>4

\* A transfer, lost or not, serves one line more and pays it at most once.
LEMMA TransferPaid ==
  ASSUME Fits, Loaded, ledger \in Seq(Payments), Paid, Transfer
  PROVE  Paid'
<1>1. /\ pc = "transfer" /\ todo' = todo \ {iter} /\ pc' \in {"save", "create"}
      /\ UNCHANGED <<file, runs>> /\ runs \in Nat \ {0} /\ file \in Files
  BY DEF Transfer, Paid, Loaded
<1>2. ~HasBadEscape /\ iter \in todo
  BY <1>1, IterUser, IterInTodo DEF Loaded
<1>3. PICK j \in Final : Column(file[j], 1) = iter /\ g_mapuser[iter] = LineUser(file[j])
  BY <1>1, IterUser
<1> DEFINE pay == [account |-> Column(file[j], 2), quantity |-> Blanked[Column(file[j], 4)]]
<1>4. pay \in Payments
  BY <1>2 DEF Payments
<1>5. ledger' \in {ledger, Append(ledger, pay)}
  BY <1>3 DEF Transfer, TransferTo, LineUser
<1>6. UNCHANGED Final
  BY <1>1, SnapshotStays
<1>7. ASSUME NEW account
      PROVE  Cardinality(To(ledger', account))
               <= (runs - 1) * Cardinality(Naming(account)) + Cardinality(Served(account)')
  <2>1. UNCHANGED Naming(account)
    BY <1>1, <1>6 DEF Naming
  <2>2. /\ Cardinality(To(ledger, account)) \in Nat
        /\ Cardinality(To(ledger, account)) <= (runs - 1) * Cardinality(Naming(account))
                                             + Cardinality(Served(account))
        /\ (runs - 1) * Cardinality(Naming(account)) \in Nat
        /\ Cardinality(Served(account)) \in Nat /\ IsFiniteSet(Served(account))
    BY <1>1, ToFinite, FinalFinite, OneRunMore DEF Paid
  <2>0. \/ To(ledger', account) = To(ledger, account)
        \/ Cardinality(To(ledger', account))
             = Cardinality(To(ledger, account)) + (IF Column(file[j], 2) = account THEN 1 ELSE 0)
    <3>1. PICK e \in Payments : e = pay
      BY <1>4
    <3>2. Cardinality(To(Append(ledger, e), account))
            = Cardinality(To(ledger, account)) + (IF e.account = account THEN 1 ELSE 0)
      BY ToAppend
    <3> QED
      BY <1>5, <3>1, <3>2
  <2>3. CASE Column(file[j], 2) = account
    <3>1. /\ Cardinality(To(ledger', account)) \in Nat
          /\ Cardinality(To(ledger', account)) <= Cardinality(To(ledger, account)) + 1
      BY <2>0, <2>2, <2>3
    <3>2. Served(account) \union {j} \subseteq Served(account)' /\ j \notin Served(account)
      BY <1>1, <1>2, <1>3, <2>1, <2>3 DEF Served, Naming
    <3>3. /\ IsFiniteSet(Served(account)') /\ Cardinality(Served(account)') \in Nat
      <4>1. Served(account)' \in SUBSET Naming(account)
        BY <2>1 DEF Served
      <4> QED
        BY <1>1, <4>1, FinalFinite, FS_Subset, FS_CardinalityType
    <3>4. Cardinality(Served(account)') >= Cardinality(Served(account)) + 1
      BY <2>2, <3>2, <3>3, FS_AddElement, FS_Subset
    <3> QED
      BY <2>2, <3>1, <3>3, <3>4
  <2>4. CASE Column(file[j], 2) # account
    <3>1. Cardinality(To(ledger', account)) = Cardinality(To(ledger, account))
      BY <2>0, <2>2, <2>4
    <3>2. Served(account) \subseteq Served(account)'
      BY <1>1, <2>1 DEF Served
    <3>3. /\ IsFiniteSet(Served(account)') /\ Cardinality(Served(account)') \in Nat
      <4>1. Served(account)' \in SUBSET Naming(account)
        BY <2>1 DEF Served
      <4> QED
        BY <1>1, <4>1, FinalFinite, FS_Subset, FS_CardinalityType
    <3>4. Cardinality(Served(account)') >= Cardinality(Served(account))
      BY <3>2, <3>3, FS_Subset
    <3> QED
      BY <2>2, <3>1, <3>3, <3>4
  <2> QED
    BY <2>3, <2>4
<1>8. ASSUME NEW account
      PROVE  /\ Cardinality(Served(account)') \in Nat
             /\ Cardinality(Served(account)') <= Cardinality(Naming(account))
             /\ Naming(account)' = Naming(account)
             /\ Cardinality(To(ledger', account)) \in Nat
             /\ Cardinality(Naming(account)) \in Nat
  <2>1. UNCHANGED Naming(account)
    BY <1>1, <1>6 DEF Naming
  <2>2. Served(account)' \in SUBSET Naming(account)
    BY <2>1 DEF Served
  <2>3. Cardinality(To(ledger', account)) \in Nat
    <3>1. ledger' \in Seq(Payments)
      BY <1>4, <1>5, AppendProperties
    <3> QED
      BY <3>1, ToFinite
  <2> QED
    BY <1>1, <2>1, <2>2, <2>3, FinalFinite, FS_Subset, FS_CardinalityType
<1>9. CASE pc' = "save"
  <2>1. ASSUME NEW account
        PROVE  Cardinality(To(ledger', account)) <= runs * Cardinality(Naming(account))
    <3>1. /\ (runs - 1) * Cardinality(Naming(account)) \in Nat
          /\ (runs - 1) * Cardinality(Naming(account)) + Cardinality(Naming(account))
               = runs * Cardinality(Naming(account))
          /\ runs * Cardinality(Naming(account)) \in Nat
      BY <1>1, <1>8, OneRunMore
    <3> QED
      BY <1>7, <1>8, <3>1
  <2> QED
    BY <1>1, <1>8, <1>9, <2>1 DEF Paid
<1>10. CASE pc' = "create"
  BY <1>1, <1>7, <1>8, <1>10 DEF Paid
<1> QED
  BY <1>1, <1>9, <1>10

\* Every step pays no more than the runs so far may.
LEMMA PaidNext ==
  ASSUME Fits, Loaded, ledger \in Seq(Payments), Paid, [Next]_vars
  PROVE  Paid'
<1>1. file \in Files
  BY DEF Loaded
<1>2. ASSUME NEW account
      PROVE  /\ Cardinality(Naming(account)) \in Nat
             /\ Cardinality(Served(account)) \in Nat
             /\ Cardinality(Served(account)) <= Cardinality(Naming(account))
             /\ Cardinality(To(ledger, account)) \in Nat
             /\ runs * Cardinality(Naming(account)) \in Nat
             /\ runs # 0 => /\ (runs - 1) * Cardinality(Naming(account)) \in Nat
                            /\ (runs - 1) * Cardinality(Naming(account))
                                 + Cardinality(Naming(account))
                                 = runs * Cardinality(Naming(account))
             /\ (runs + 1 - 1) * Cardinality(Naming(account))
                  = runs * Cardinality(Naming(account))
  <2>1. Cardinality(To(ledger, account)) \in Nat
    BY ToFinite
  <2>2. /\ Cardinality(Naming(account)) \in Nat /\ Cardinality(Served(account)) \in Nat
        /\ Cardinality(Served(account)) <= Cardinality(Naming(account))
    BY <1>1, FinalFinite
  <2>3. runs \in Nat /\ runs + 1 - 1 = runs
    BY DEF Paid
  <2>4. runs * Cardinality(Naming(account)) \in Nat
    BY <2>2, <2>3
  <2>5. runs # 0 => /\ (runs - 1) * Cardinality(Naming(account)) \in Nat
                    /\ (runs - 1) * Cardinality(Naming(account))
                         + Cardinality(Naming(account))
                         = runs * Cardinality(Naming(account))
    BY <2>2, <2>3, OneRunMore
  <2> QED
    BY <2>1, <2>2, <2>3, <2>4, <2>5
<1>3. ASSUME UNCHANGED file, UNCHANGED ledger, NEW account
      PROVE  UNCHANGED <<Naming(account), To(ledger, account)>>
  BY <1>3, SnapshotStays DEF Naming
<1>4. ASSUME UNCHANGED <<file, todo>>, NEW account
      PROVE  UNCHANGED Served(account)
  BY <1>4, SnapshotStays DEF Naming, Served
<1>5. CASE Start
  <2>1. /\ pc \in {"stopped", "done"} /\ runs' = runs + 1 /\ pc' = "load"
        /\ UNCHANGED <<file, ledger>> /\ runs \in Nat
    BY <1>5 DEF Start, chain, Paid
  <2>2. ASSUME NEW account
        PROVE  Cardinality(To(ledger', account))
                 <= (runs' - 1) * Cardinality(Naming(account)')
    BY <1>2, <1>3, <2>1 DEF Paid
  <2> QED
    BY <2>1, <2>2 DEF Paid
<1>6. CASE ReadLine \/ UNCHANGED vars \/ Create
  <2>1. /\ UNCHANGED <<file, todo, ledger, runs>>
        /\ pc' = pc \/ (pc = "create" /\ pc' = "transfer")
    BY <1>6 DEF ReadLine, vars, loader, chain, Create
  <2> QED
    BY <1>3, <1>4, <2>1 DEF Paid
<1>7. CASE EndOfFile
  <2>1. /\ pc = "load" /\ pc' \in {"save", "create"} /\ UNCHANGED <<file, ledger, runs>>
        /\ runs \in Nat \ {0}
    BY <1>7 DEF EndOfFile, chain, Paid
  <2>2. ASSUME NEW account
        PROVE  /\ Cardinality(To(ledger', account))
                    <= (runs - 1) * Cardinality(Naming(account)')
               /\ (runs - 1) * Cardinality(Naming(account)') \in Nat
               /\ Cardinality(To(ledger', account)) \in Nat
               /\ (runs - 1) * Cardinality(Naming(account)')
                    <= runs * Cardinality(Naming(account)')
               /\ runs * Cardinality(Naming(account)') \in Nat
               /\ Cardinality(Served(account)') \in Nat
    <3>1. Served(account)' \in SUBSET Naming(account)
      BY <1>3, <2>1 DEF Served
    <3>2. Cardinality(Served(account)') \in Nat
      BY <1>1, <3>1, FinalFinite, FS_Subset, FS_CardinalityType
    <3> QED
      BY <1>2, <1>3, <2>1, <3>2 DEF Paid
  <2>3. CASE pc' = "create"
    BY <2>1, <2>2, <2>3 DEF Paid
  <2>4. CASE pc' = "save"
    <3>1. ASSUME NEW account
          PROVE  Cardinality(To(ledger', account)) <= runs * Cardinality(Naming(account)')
      BY <2>1, <2>2
    <3> QED
      BY <2>1, <2>4, <3>1 DEF Paid
  <2> QED
    BY <2>1, <2>3, <2>4
<1>8. CASE Terminate \/ Stop \/ savefile
  <2>1. UNCHANGED <<file, ledger, runs>> /\ pc' \in {"stopped", "done"} /\ runs \in Nat
    BY <1>8 DEF Terminate, Stop, savefile, chain, Paid
  <2>2. ASSUME NEW account
        PROVE  Cardinality(To(ledger', account)) <= runs * Cardinality(Naming(account)')
    BY <1>2, <1>3, <2>1 DEF Paid
  <2> QED
    BY <2>1, <2>2 DEF Paid
<1> QED
  BY <1>5, <1>6, <1>7, <1>8, TransferPaid DEF Next, Step

(***************************************************************************)
(* Over any number of runs, stopped anywhere and with any calls lost, an   *)
(* account is paid at most once per run and line that names it (run).      *)
(***************************************************************************)
THEOREM AlwaysPaidOncePerRun == Spec => []PaidOncePerRun
<1>1. Init => (Fits => Paid)
  <2> SUFFICES ASSUME Init, NEW account
               PROVE  Cardinality(To(ledger, account)) <= runs * Cardinality(Naming(account))
    BY DEF Init, Paid
  <2>1. To(ledger, account) = {}
    BY DEF To, Init
  <2>2. Cardinality(Naming(account)) \in Nat /\ runs = 0
    BY FinalFinite DEF Init
  <2> QED
    BY <2>1, <2>2, FS_EmptySet
<1>2. IInv /\ (Fits => Paid) /\ [Next]_vars => (Fits => Paid)'
  <2> SUFFICES ASSUME IInv, Fits => Paid, [Next]_vars, Fits' PROVE Paid'
    OBVIOUS
  <2>1. UNCHANGED file
    BY DEF Next, Start, Step, ReadLine, Terminate, EndOfFile, Create, Transfer, savefile, Stop, vars
  <2>2. Fits /\ Loaded /\ ledger \in Seq({p \in Payments : p.account \in DOMAIN owner})
    BY <2>1, SnapshotStays DEF IInv
  <2>3. ledger \in Seq(Payments)
    BY <2>2, SeqMonotonic
  <2> QED
    BY <2>2, <2>3, PaidNext
<1>3. IInv /\ (Fits => Paid) => PaidOncePerRun
  <2> SUFFICES ASSUME Fits, Loaded, Paid, NEW i \in Final,
                      ledger \in Seq({p \in Payments : p.account \in DOMAIN owner})
               PROVE  Cardinality(To(ledger, Column(file[i], 2)))
                        <= runs * Cardinality(Naming(Column(file[i], 2)))
    BY DEF IInv, PaidOncePerRun, To, Naming
  <2> DEFINE account == Column(file[i], 2)
  <2>1. /\ Cardinality(Naming(account)) \in Nat /\ Cardinality(Served(account)) \in Nat
        /\ Cardinality(Served(account)) <= Cardinality(Naming(account))
    BY FinalFinite DEF Loaded
  <2>2. Cardinality(To(ledger, account)) \in Nat
    BY ToFinite
  <2>3. runs # 0 => /\ (runs - 1) * Cardinality(Naming(account)) \in Nat
                    /\ (runs - 1) * Cardinality(Naming(account))
                         + Cardinality(Naming(account))
                         = runs * Cardinality(Naming(account))
    BY <2>1, OneRunMore DEF Paid
  <2> QED
    BY <2>1, <2>2, <2>3 DEF Paid
<1> QED
  BY <1>1, <1>2, <1>3, Invariance, PTL DEF Spec
-----------------------------------------------------------------------------
\* The lines of the snapshot, and those that can be refused.
AllLines == {file[i] : i \in DOMAIN file}

\* The type invariant, with the sequences it says the elements of.
Typed ==
  /\ TypeOK
  /\ pos \in Nat /\ g_failload \in Nat /\ g_failitem \in Seq(Nat)
  /\ errfile \in Seq(SUBSET AllLines)
  /\ ledger \in Seq([account : DOMAIN owner, quantity : Texts])

\* A field of a line is a text or empty, also when the counter has come round.
LEMMA FieldIsText ==
  ASSUME NEW line \in Seq(Texts), NEW k
  PROVE  Field(line, k) \in Texts
<1> DEFINE at == {p \in DOMAIN line : calfiled(p) = k}
<1>1. DOMAIN line = 1..Len(line) /\ Len(line) \in Nat
  BY LenProperties
<1>2. CASE at = {}
  BY <1>2, SnapshotConsts DEF Field
<1>3. CASE at # {}
  <2> DEFINE back == {Len(line) - p : p \in at}
  <2>1. back \in SUBSET Nat /\ back # {}
    BY <1>1, <1>3
  <2> HIDE DEF back
  <2>2. PICK m \in back : \A b \in back : m <= b
    BY <2>1, Least
  <2> USE DEF back
  <2>3. PICK p \in at : m = Len(line) - p
    BY <2>2
  <2>4. ASSUME NEW q \in at PROVE q <= p
    <3>1. Len(line) - q \in back
      OBVIOUS
    <3>2. m <= Len(line) - q
      BY <2>2, <3>1
    <3>3. q \in Nat /\ p \in Nat
      BY <1>1
    <3> QED
      BY <1>1, <2>3, <3>2, <3>3
  <2>5. (CHOOSE p0 \in at : \A q \in at : q <= p0) \in at
    BY <2>4
  <2>6. \A q \in at : line[q] \in Texts
    BY <1>1, ElementOfSeq
  <2> QED
    BY <1>3, <2>5, <2>6 DEF Field
<1> QED
  BY <1>2, <1>3

\* So what parse makes of any line is a user.
LEMMA UserTyped ==
  ASSUME NEW line \in Seq(Texts)
  PROVE  UserOf(line) \in Users /\ Field(line, 1) \in Texts
BY FieldIsText, SnapshotConsts DEF UserOf, Users

\* One line more keeps the types.
LEMMA ReadLineTyped ==
  ASSUME Typed, ReadLine
  PROVE  Typed'
<1>1. /\ pc = "load" /\ pos \in DOMAIN file /\ pos \in Nat /\ file[pos] # BadEscape
      /\ pos' = pos + 1 /\ pos' \in 1..Len(file) + 1 /\ pos' \in Nat
      /\ UNCHANGED <<file, pc, todo, errfile, owner, ledger, runs>> /\ file \in Files
  BY Lines DEF ReadLine, Typed, TypeOK, chain
<1>2. UNCHANGED AllLines
  BY <1>1 DEF AllLines
<1>3. CASE file[pos] = << >>
  BY <1>1, <1>2, <1>3 DEF ReadLine, Typed, TypeOK
<1>4. CASE file[pos] # << >>
  <2>1. file[pos] \in Seq(Texts)
    BY <1>1, Lines
  <2>2. UserOf(file[pos]) \in Users /\ Field(file[pos], 1) \in Texts
    BY <2>1, UserTyped
  <2>3. /\ g_failload' = g_failload + 1 /\ g_failload' < pos' /\ g_failload' \in Nat
    BY <1>1, <1>4 DEF ReadLine, Typed, TypeOK
  <2>4. CASE checkinfo(UserOf(file[pos]))
    <3>1. UNCHANGED <<seterr, g_failitem>>
      BY <1>4, <2>4 DEF ReadLine
    <3>2. /\ DOMAIN g_mapuser \subseteq DOMAIN g_mapuser'
          /\ DOMAIN g_mapuser' \subseteq Texts
          /\ \A a \in DOMAIN g_mapuser' : g_mapuser'[a] \in Users
      <4>1. g_mapuser' = [a \in DOMAIN g_mapuser \union {Field(file[pos], 1)} |->
                            IF a = Field(file[pos], 1) THEN UserOf(file[pos]) ELSE g_mapuser[a]]
        BY <1>4, <2>4 DEF ReadLine
      <4> QED
        BY <2>2, <4>1 DEF Typed, TypeOK
    <3>3. \A n \in DOMAIN g_failitem : g_failitem[n] \in 1..g_failload'
      BY <2>3, LenProperties, ElementOfSeq DEF Typed, TypeOK
    <3> QED
      BY <1>1, <1>2, <2>3, <3>1, <3>2, <3>3 DEF Typed, TypeOK
  <2>5. CASE ~checkinfo(UserOf(file[pos]))
    <3>1. /\ UNCHANGED g_mapuser /\ seterr' = seterr \union {file[pos]}
          /\ g_failitem' = Append(g_failitem, g_failload')
      BY <1>4, <2>5 DEF ReadLine
    <3>2. seterr' \subseteq {file[i] : i \in DOMAIN file} \ {<< >>, BadEscape}
      BY <1>1, <1>4, <3>1 DEF Typed, TypeOK
    <3>3. g_failitem' \in Seq(Nat)
      BY <2>3, <3>1, AppendProperties DEF Typed
    <3>4. \A n \in DOMAIN g_failitem' : g_failitem'[n] \in 1..g_failload'
      <4>1. /\ DOMAIN g_failitem = 1..Len(g_failitem) /\ Len(g_failitem) \in Nat
            /\ DOMAIN g_failitem' = 1..Len(g_failitem) + 1
            /\ \A n \in 1..Len(g_failitem) : g_failitem'[n] = g_failitem[n]
            /\ g_failitem'[Len(g_failitem) + 1] = g_failload'
        BY <2>3, <3>1, <3>3, LenProperties, AppendProperties DEF Typed
      <4>2. \A n \in 1..Len(g_failitem) : g_failitem[n] \in 1..g_failload
        BY <4>1 DEF Typed, TypeOK
      <4> QED
        BY <2>3, <4>1, <4>2 DEF Typed
    <3> QED
      BY <1>1, <1>2, <2>3, <3>1, <3>2, <3>3, <3>4 DEF Typed, TypeOK
  <2> QED
    BY <2>4, <2>5
<1> QED
  BY <1>3, <1>4

\* So do the calls to the chain, which only ever gains accounts.
LEMMA CallTyped ==
  ASSUME Typed, Create \/ Transfer
  PROVE  Typed'
<1>1. /\ file \in Files /\ iter \in todo /\ iter \in DOMAIN g_mapuser
      /\ g_mapuser[iter] \in Users
  BY IterInTodo DEF Typed, TypeOK, Create, Transfer
<1>2. CASE Create
  <2>1. /\ pc' = "transfer" /\ pc = "create"
        /\ UNCHANGED <<file, pos, g_mapuser, seterr, g_failload, g_failitem, todo>>
        /\ UNCHANGED <<errfile, ledger, runs>>
    BY <1>2 DEF Create, loader
  <2>2. DOMAIN owner \subseteq DOMAIN owner' /\ DOMAIN owner' \subseteq Texts
    BY <1>1, <1>2 DEF Create, NewAccount, Users, Typed, TypeOK
  <2>3. ledger' \in Seq([account : DOMAIN owner', quantity : Texts])
    BY <2>1, <2>2, SeqMonotonic DEF Typed
  <2>4. \A n \in DOMAIN ledger' : ledger'[n] \in [account : DOMAIN owner', quantity : Texts]
    BY <2>3, LenProperties, ElementOfSeq
  <2>5. UNCHANGED AllLines
    BY <2>1 DEF AllLines
  <2> QED
    BY <2>1, <2>2, <2>3, <2>4, <2>5 DEF Typed, TypeOK
<1>3. CASE Transfer
  <2>1. /\ todo' = todo \ {iter} /\ pc' = IF todo' = {} THEN "save" ELSE "create"
        /\ UNCHANGED <<file, pos, g_mapuser, seterr, g_failload, g_failitem, errfile, owner, runs>>
    BY <1>3 DEF Transfer
  <2>2. ledger' \in Seq([account : DOMAIN owner, quantity : Texts])
    <3>1. CASE UNCHANGED ledger
      BY <3>1 DEF Typed
    <3>2. CASE /\ g_mapuser[iter].account \in DOMAIN owner
               /\ ledger' = Append(ledger, [account  |-> g_mapuser[iter].account,
                                            quantity |-> g_mapuser[iter].quantity])
      BY <1>1, <3>2, AppendProperties DEF Typed, Users
    <3> QED
      BY <1>3, <3>1, <3>2 DEF Transfer, TransferTo
  <2>3. \A n \in DOMAIN ledger' : ledger'[n] \in [account : DOMAIN owner, quantity : Texts]
    BY <2>2, LenProperties, ElementOfSeq
  <2>4. UNCHANGED AllLines
    BY <2>1 DEF AllLines
  <2> QED
    BY <2>1, <2>2, <2>3, <2>4 DEF Typed, TypeOK
<1> QED
  BY <1>2, <1>3

\* Every step keeps the types.
LEMMA TypedNext == Typed /\ [Next]_vars => Typed'
<1> SUFFICES ASSUME Typed, [Next]_vars PROVE Typed'
  OBVIOUS
<1>1. CASE Start
  <2>1. UNCHANGED AllLines
    BY <1>1 DEF Start, AllLines
  <2>2. /\ file \in Files /\ 1 \in 1..Len(file) + 1 /\ runs + 1 \in 0..MaxRuns
    BY <1>1, Lines, SnapshotConsts DEF Start, Typed, TypeOK
  <2> QED
    BY <1>1, <2>1, <2>2, EmptySeq DEF Start, Typed, TypeOK, NoEntry, chain
<1>2. CASE ReadLine
  BY <1>2, ReadLineTyped
<1>3. CASE Create \/ Transfer
  BY <1>3, CallTyped
<1>4. CASE savefile
  <2>1. UNCHANGED AllLines /\ seterr \subseteq AllLines
    BY <1>4 DEF savefile, AllLines, Typed, TypeOK
  <2>2. errfile' \in Seq(SUBSET AllLines)
    <3>1. PICK S \in SUBSET AllLines : errfile' = Append(errfile, S)
      BY <1>4, <2>1 DEF savefile
    <3> QED
      BY <3>1, AppendProperties DEF Typed
  <2>3. \A n \in DOMAIN errfile' : errfile'[n] \subseteq AllLines
    BY <2>2, LenProperties, ElementOfSeq
  <2> QED
    BY <1>4, <2>1, <2>2, <2>3 DEF savefile, Typed, TypeOK, AllLines, loader, chain
<1>5. ASSUME UNCHANGED <<file, pos, g_mapuser, seterr, g_failload, g_failitem>>,
             UNCHANGED <<errfile, owner, ledger, runs>>,
             todo' \subseteq DOMAIN g_mapuser,
             pc' \in {"stopped", "load", "create", "transfer", "save", "done"},
             pc' \in {"create", "transfer"} => todo' # {}
      PROVE  Typed'
  BY <1>5 DEF Typed, TypeOK, AllLines
<1>6. CASE Terminate \/ EndOfFile \/ Stop \/ UNCHANGED vars
  BY <1>5, <1>6 DEF Terminate, EndOfFile, Stop, vars, loader, chain, Typed, TypeOK
<1> QED
  BY <1>1, <1>2, <1>3, <1>4, <1>6 DEF Next, Step

(***************************************************************************)
(* The variables keep their types for any lines, those the field counter   *)
(* wraps on included: what is left of a field is one of the texts (parse). *)
(***************************************************************************)
THEOREM TypeCorrect == Spec => []TypeOK
<1>1. Init => Typed
  <2> SUFFICES ASSUME Init PROVE Typed
    OBVIOUS
  <2>1. file \in Files /\ 1 \in 1..Len(file) + 1 /\ DOMAIN owner \subseteq Texts
    BY Lines, SnapshotConsts DEF Init
  <2> QED
    BY <2>1, EmptySeq, SnapshotConsts DEF Init, Typed, TypeOK, NoEntry
<1>2. Typed => TypeOK
  BY DEF Typed
<1> QED
  BY <1>1, <1>2, TypedNext, PTL DEF Spec
=============================================================================

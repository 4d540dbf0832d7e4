---------------------------- MODULE RenameProofs ----------------------------
(***************************************************************************)
(* The rename tool, for any trees, any nameMap whose replacements do not   *)
(* disturb each other, any order Go ranges over it in, and any number of   *)
(* runs stopped anywhere.  Cleaned says what the replacements make of a    *)
(* text, Listing what the list of paths has to do with the tree.           *)
(***************************************************************************)
EXTENDS Rename, SequenceTheorems, FiniteSetTheorems, TLAPS

Pattern == DOMAIN Renaming

\* What is assumed of nameMap and of the orders Go may range over it in.
LEMMA Patterns ==
  /\ \A n \in Pattern :
       /\ n \in Name /\ Len(n) \in Nat \ {0} /\ Renaming[n] \in Name
       /\ Len(Renaming[n]) = Len(n) /\ Renaming[n][1] \in Nat
       /\ \A k \in 2..Len(n) : Renaming[n][k] = n[k]
       /\ \A m \in Pattern :
            /\ \A k \in 2..Len(n) : n[k] # m[1]
            /\ \A k \in 1..Len(n) : n[k] # Renaming[m][1]
            /\ n[1] = m[1] => Renaming[n][1] = Renaming[m][1]
  /\ Orders # {}
  /\ \A ord \in Orders : ord \in Seq(Pattern) /\ Len(ord) \in Nat
                         /\ {ord[k] : k \in 1..Len(ord)} = Pattern
<1>1. ASSUME NEW n \in Pattern
      PROVE  /\ n \in Name /\ Len(n) \in Nat \ {0} /\ Renaming[n] \in Name
             /\ Len(Renaming[n]) = Len(n) /\ Renaming[n][1] \in Nat
  <2>1. /\ n \in Name /\ n # << >> /\ Renaming[n] \in Name /\ Len(Renaming[n]) = Len(n)
    BY RenamingConsts DEF Pattern
  <2>2. Len(n) \in Nat \ {0}
    BY <2>1, EmptySeq DEF Name
  <2>3. 1 \in 1..Len(Renaming[n])
    BY <2>1, <2>2
  <2> QED
    BY <2>1, <2>2, <2>3, ElementOfSeq DEF Name
<1>2. ASSUME NEW n \in Pattern
      PROVE  /\ \A k \in 2..Len(n) : Renaming[n][k] = n[k]
             /\ \A m \in Pattern :
                  /\ \A k \in 2..Len(n) : n[k] # m[1]
                  /\ \A k \in 1..Len(n) : n[k] # Renaming[m][1]
                  /\ n[1] = m[1] => Renaming[n][1] = Renaming[m][1]
  BY RenamingConsts DEF Pattern
<1>3. ASSUME NEW ord \in Orders
      PROVE  ord \in Seq(Pattern) /\ Len(ord) \in Nat /\ {ord[k] : k \in 1..Len(ord)} = Pattern
  <2>1. ord \in Seq(Pattern) /\ {ord[k] : k \in DOMAIN ord} = Pattern
    BY RenamingConsts DEF Pattern
  <2>2. DOMAIN ord = 1..Len(ord) /\ Len(ord) \in Nat
    BY <2>1, LenProperties
  <2> QED
    BY <2>1, <2>2
<1>4. Orders # {}
  BY RenamingConsts
<1> QED
  BY <1>1, <1>2, <1>3, <1>4

LEMMA PatternIs ==
  ASSUME NEW n \in Pattern
  PROVE  n \in Name /\ Len(n) \in Nat \ {0} /\ 1 \in 1..Len(n)
<1>1. n \in Name /\ Len(n) \in Nat \ {0}
  BY Patterns
<1> QED
  BY <1>1

LEMMA Apart ==
  ASSUME NEW n \in Pattern, NEW m \in Pattern
  PROVE  /\ \A j \in 2..Len(n) : n[j] # m[1]
         /\ \A j \in 1..Len(n) : n[j] # Renaming[m][1]
         /\ n[1] = m[1] => Renaming[n][1] = Renaming[m][1]
BY Patterns

\* Texts are functions of their positions.
LEMMA Chars ==
  ASSUME NEW t \in Name
  PROVE  /\ Len(t) \in Nat /\ DOMAIN t = 1..Len(t)
         /\ \A k \in 1..Len(t) : t[k] \in Nat
         /\ t = [k \in 1..Len(t) |-> t[k]]
BY LenProperties DEF Name

\* A function of the positions is a text, and texts are equal when they agree.
LEMMA TextOf ==
  ASSUME NEW n \in Nat, NEW f \in [1..n -> Nat]
  PROVE  f \in Name /\ Len(f) = n
BY DEF Name

\* The pattern n is in t, from k on.
Occurs(n, t, k) ==
  /\ k \in Nat /\ 1 <= k /\ k + Len(n) <= Len(t) + 1
  /\ \A j \in 1..Len(n) : t[k + j - 1] = n[j]

\* SubSeq tells where a pattern is.
LEMMA Found ==
  ASSUME NEW n \in Name, Len(n) \in Nat \ {0}, NEW t \in Name, NEW k \in 1..Len(t) - Len(n) + 1
  PROVE  SubSeq(t, k, k + Len(n) - 1) = n <=> Occurs(n, t, k)
<1> DEFINE l == Len(n)
           s == SubSeq(t, k, k + l - 1)
<1>1. l \in Nat \ {0} /\ Len(t) \in Nat /\ k \in Nat /\ 1 <= k /\ k + l <= Len(t) + 1
  BY Chars
<1>2. /\ s \in Seq(Nat)
      /\ Len(s) = IF k <= k + l - 1 THEN (k + l - 1) - k + 1 ELSE 0
      /\ \A j \in 1..(k + l - 1) - k + 1 : s[j] = t[k + j - 1]
  <2>1. \A j \in k..k + l - 1 : t[j] \in Nat
    <3> TAKE j \in k..k + l - 1
    <3>1. j \in 1..Len(t)
      BY <1>1
    <3> QED
      BY <3>1, Chars
  <2>2. k \in Int /\ k + l - 1 \in Int
    BY <1>1
  <2> QED
    BY <2>1, <2>2, SubSeqProperties
<1> HIDE DEF s
<1>3. Len(s) = l /\ (k + l - 1) - k + 1 = l
  BY <1>1, <1>2
<1>4. s = n <=> \A j \in 1..l : s[j] = n[j]
  <2>1. n \in Seq(Nat)
    BY DEF Name
  <2> QED
    BY <1>2, <1>3, <2>1, SeqEqual
<1>5. \A j \in 1..l : s[j] = t[k + j - 1]
  BY <1>2, <1>3
<1>6. s = n <=> \A j \in 1..l : t[k + j - 1] = n[j]
  BY <1>4, <1>5
<1> QED
  BY <1>1, <1>6 DEF s, Occurs

\* strings.Replace changes the first character where the pattern is.
LEMMA ReplaceIs ==
  ASSUME NEW n \in Pattern, NEW t \in Name
  PROVE  LET r == Replace(t, n, Renaming[n])
         IN  /\ r \in Name /\ Len(r) = Len(t)
             /\ \A k \in 1..Len(t) : r[k] = IF Occurs(n, t, k) THEN Renaming[n][1] ELSE t[k]
<1> DEFINE new == Renaming[n]
           l == Len(n)
           starts == {k \in 1..Len(t) - l + 1 : SubSeq(t, k, k + l - 1) = n}
           Hit(k) == {j \in starts : k \in j..j + l - 1}
           At(k) == IF Hit(k) = {} THEN t[k] ELSE new[k - (CHOOSE j \in Hit(k) : TRUE) + 1]
           r == Replace(t, n, new)
<1>1. /\ n \in Name /\ l \in Nat \ {0} /\ new[1] \in Nat
      /\ \A k \in 2..l : new[k] = n[k] /\ n[k] # n[1]
      /\ Len(t) \in Nat /\ \A k \in 1..Len(t) : t[k] \in Nat
  BY Patterns, Chars
<1>2. \A k : k \in starts <=> Occurs(n, t, k)
  <2>1. \A k \in 1..Len(t) - l + 1 : SubSeq(t, k, k + l - 1) = n <=> Occurs(n, t, k)
    BY <1>1, Found
  <2>2. \A k : Occurs(n, t, k) => k \in 1..Len(t) - l + 1
    BY <1>1 DEF Occurs
  <2> QED
    BY <2>1, <2>2
<1>3. r = [k \in 1..Len(t) |-> At(k)]
  BY Zenon DEF Replace
<1> HIDE DEF r, starts
<1>4. ASSUME NEW k \in 1..Len(t)
      PROVE  At(k) = IF Occurs(n, t, k) THEN new[1] ELSE t[k]
  <2>1. CASE Hit(k) = {}
    <3>1. ~Occurs(n, t, k)
      <4> SUFFICES ASSUME Occurs(n, t, k) PROVE FALSE
        OBVIOUS
      <4>1. k \in starts /\ k \in k..k + l - 1
        BY <1>1, <1>2
      <4> QED
        BY <2>1, <4>1
    <3> QED
      BY <2>1, <3>1
  <2>2. CASE Hit(k) # {}
    <3> DEFINE j == CHOOSE j \in Hit(k) : TRUE
    <3>1. j \in Hit(k)
      BY <2>2
    <3>2. At(k) = new[k - j + 1]
      BY <2>2
    <3> HIDE DEF j, At
    <3>3. Occurs(n, t, j) /\ k \in j..j + l - 1 /\ j \in Nat
      BY <1>2, <3>1 DEF Occurs
    <3>4. t[k] = n[k - j + 1] /\ k - j + 1 \in 1..l
      <4>1. k - j + 1 \in 1..l /\ j + (k - j + 1) - 1 = k
        BY <1>1, <3>3
      <4>2. t[j + (k - j + 1) - 1] = n[k - j + 1]
        BY <3>3, <4>1 DEF Occurs
      <4> QED
        BY <4>1, <4>2
    <3>5. CASE k = j
      <4>1. k - j + 1 = 1
        BY <3>5
      <4> QED
        BY <3>2, <3>3, <3>5, <4>1
    <3>6. CASE k # j
      <4>1. k - j + 1 \in 2..l
        BY <1>1, <3>3, <3>6
      <4>2. At(k) = t[k] /\ t[k] # n[1]
        BY <1>1, <3>2, <3>4, <4>1
      <4>3. ~Occurs(n, t, k)
        <5> SUFFICES ASSUME Occurs(n, t, k) PROVE FALSE
          OBVIOUS
        <5>1. 1 \in 1..l /\ k + 1 - 1 = k
          BY <1>1
        <5>2. t[k + 1 - 1] = n[1]
          BY <5>1 DEF Occurs
        <5> QED
          BY <4>2, <5>1, <5>2
      <4> QED
        BY <4>2, <4>3
    <3> QED
      BY <3>5, <3>6
  <2> QED
    BY <2>1, <2>2
<1> HIDE DEF At
<1>5. r \in [1..Len(t) -> Nat]
  BY <1>1, <1>3, <1>4
<1>6. r \in Name /\ Len(r) = Len(t)
  BY <1>1, <1>5, TextOf
<1>7. \A k \in 1..Len(t) : r[k] = IF Occurs(n, t, k) THEN new[1] ELSE t[k]
  BY <1>3, <1>4
<1> QED
  BY <1>6, <1>7 DEF r

-----------------------------------------------------------------------------
(***************************************************************************)
(* The loop over nameMap.                                                  *)
(***************************************************************************)

\* A set of naturals has a least one.
LEMMA LeastOf ==
  ASSUME NEW S \in SUBSET Nat, S # {}
  PROVE  \E m \in S : \A k \in S : m <= k
<1> DEFINE R == OpToRel(<, Nat)
<1>1. IsWellFoundedOn(R, Nat)
  BY NatLessThanWellFounded
<1>2. \A x, y \in Nat : x < y => <<x, y>> \in R
  BY DEF OpToRel
<1> HIDE DEF R
<1>3. PICK m \in S : \A k \in S : ~(<<k, m>> \in R)
  BY <1>1, WFMin
<1>4. ASSUME NEW k \in S PROVE m <= k
  <2>1. ~(k < m)
    BY <1>2, <1>3
  <2> QED
    BY <2>1
<1> QED
  BY <1>4

\* What holds of 0, and of k when it holds of k - 1, holds up to n.
LEMMA UpTo ==
  ASSUME NEW n \in Nat, NEW T, 0 \in T, \A k \in 1..n : k - 1 \in T => k \in T
  PROVE  \A k \in 0..n : k \in T
<1> DEFINE S == {k \in 0..n : k \notin T}
<1> SUFFICES ASSUME S # {} PROVE FALSE
  OBVIOUS
<1>1. PICK m \in S : \A k \in S : m <= k
  <2>1. S \in SUBSET Nat
    OBVIOUS
  <2> QED
    BY <2>1, LeastOf
<1>2. m \in 1..n /\ m \notin T
  BY <1>1
<1>3. m - 1 \in 0..n /\ ~(m <= m - 1)
  BY <1>2
<1> QED
  BY <1>1, <1>2, <1>3

\* r is t with the patterns in S replaced.
Cleansed(t, S, r) ==
  /\ r \in Name /\ Len(r) = Len(t)
  /\ \A k \in 1..Len(t) :
       /\ \A n \in S : Occurs(n, t, k) => r[k] = Renaming[n][1]
       /\ (\A n \in S : ~Occurs(n, t, k)) => r[k] = t[k]

\* What was replaced is in no pattern, so no pattern comes to be or gets lost.
LEMMA OccursStays ==
  ASSUME NEW t \in Name, NEW S \in SUBSET Pattern, NEW r, Cleansed(t, S, r),
         NEW n \in Pattern, NEW k \in 1..Len(t), \A m \in S : ~Occurs(m, t, k)
  PROVE  Occurs(n, r, k) <=> Occurs(n, t, k)
<1>1. /\ n \in Name /\ Len(n) \in Nat \ {0} /\ Len(t) \in Nat /\ Len(r) = Len(t)
      /\ k + Len(n) <= Len(t) + 1 => \A j \in 1..Len(n) : k + j - 1 \in 1..Len(t)
  <2>1. /\ n \in Name /\ Len(n) \in Nat \ {0} /\ Len(t) \in Nat /\ Len(r) = Len(t)
    BY PatternIs, Chars DEF Cleansed
  <2> QED
    BY <2>1
<1>2. ASSUME Occurs(n, t, k), NEW j \in 1..Len(n)
      PROVE  r[k + j - 1] = n[j]
  <2>1. t[k + j - 1] = n[j] /\ k + j - 1 \in 1..Len(t)
    BY <1>1, <1>2 DEF Occurs
  <2>2. ASSUME NEW m \in S PROVE ~Occurs(m, t, k + j - 1)
    <3>1. CASE j = 1
      <4>1. k + j - 1 = k
        BY <3>1
      <4> QED
        BY <2>2, <4>1
    <3>2. CASE j # 1
      <4>1. j \in 2..Len(n) /\ n[j] # m[1]
        <5>1. j \in 2..Len(n)
          BY <1>1, <3>2
        <5> QED
          BY <2>2, <5>1, Apart
      <4> SUFFICES ASSUME Occurs(m, t, k + j - 1) PROVE FALSE
        OBVIOUS
      <4>2. 1 \in 1..Len(m) /\ (k + j - 1) + 1 - 1 = k + j - 1
        BY <2>2, <2>1, PatternIs
      <4>3. t[(k + j - 1) + 1 - 1] = m[1]
        BY <4>2 DEF Occurs
      <4> QED
        BY <2>1, <4>1, <4>2, <4>3
    <3> QED
      BY <3>1, <3>2
  <2>3. r[k + j - 1] = t[k + j - 1]
    BY <2>1, <2>2 DEF Cleansed
  <2> QED
    BY <2>1, <2>3
<1>3. ASSUME Occurs(n, r, k), NEW j \in 1..Len(n)
      PROVE  t[k + j - 1] = n[j]
  <2>1. r[k + j - 1] = n[j] /\ k + j - 1 \in 1..Len(t)
    BY <1>1, <1>3 DEF Occurs
  <2>2. ASSUME NEW m \in S PROVE ~Occurs(m, t, k + j - 1)
    <3> SUFFICES ASSUME Occurs(m, t, k + j - 1) PROVE FALSE
      OBVIOUS
    <3>1. r[k + j - 1] = Renaming[m][1]
      BY <2>1, <2>2 DEF Cleansed
    <3>2. n \in Pattern /\ m \in Pattern /\ j \in 1..Len(n)
      BY <2>2
    <3>3. n[j] # Renaming[m][1]
      BY <3>2, Apart
    <3> QED
      BY <2>1, <3>1, <3>3
  <2>3. r[k + j - 1] = t[k + j - 1]
    BY <2>1, <2>2 DEF Cleansed
  <2> QED
    BY <2>1, <2>3
<1>4. Occurs(n, t, k) => Occurs(n, r, k)
  BY <1>1, <1>2 DEF Occurs
<1>5. Occurs(n, r, k) => Occurs(n, t, k)
  BY <1>1, <1>3 DEF Occurs
<1> QED
  BY <1>4, <1>5

\* One turn of the loop.
LEMMA CleansesMore ==
  ASSUME NEW t \in Name, NEW S \in SUBSET Pattern, NEW r, Cleansed(t, S, r), NEW n \in Pattern
  PROVE  Cleansed(t, S \union {n}, Replace(r, n, Renaming[n]))
<1> DEFINE q == Replace(r, n, Renaming[n])
<1>1. /\ r \in Name /\ Len(r) = Len(t)
      /\ q \in Name /\ Len(q) = Len(t)
      /\ \A k \in 1..Len(t) : q[k] = IF Occurs(n, r, k) THEN Renaming[n][1] ELSE r[k]
  BY ReplaceIs DEF Cleansed
<1> HIDE DEF q
<1>2. ASSUME NEW k \in 1..Len(t)
      PROVE  /\ \A m \in S \union {n} : Occurs(m, t, k) => q[k] = Renaming[m][1]
             /\ (\A m \in S \union {n} : ~Occurs(m, t, k)) => q[k] = t[k]
  <2>1. CASE \A m \in S : ~Occurs(m, t, k)
    <3>1. (Occurs(n, r, k) <=> Occurs(n, t, k)) /\ r[k] = t[k]
      BY <2>1, OccursStays DEF Cleansed
    <3> QED
      BY <1>1, <2>1, <3>1
  <2>2. ASSUME NEW m \in S, Occurs(m, t, k)
        PROVE  /\ \A j \in S \union {n} : Occurs(j, t, k) => q[k] = Renaming[j][1]
               /\ \E j \in S \union {n} : Occurs(j, t, k)
    <3>1. r[k] = Renaming[m][1]
      BY <2>2 DEF Cleansed
    <3>2. ~Occurs(n, r, k)
      <4> SUFFICES ASSUME Occurs(n, r, k) PROVE FALSE
        OBVIOUS
      <4>1. 1 \in 1..Len(n) /\ k + 1 - 1 = k
        BY PatternIs
      <4>2. r[k + 1 - 1] = n[1]
        BY <4>1 DEF Occurs
      <4> QED
        BY <2>2, <3>1, <4>1, <4>2, Apart
    <3>3. q[k] = Renaming[m][1]
      BY <1>1, <3>1, <3>2
    <3>4. ASSUME NEW j \in S \union {n}, Occurs(j, t, k) PROVE q[k] = Renaming[j][1]
      <4>1. /\ j \in Pattern /\ 1 \in 1..Len(j) /\ 1 \in 1..Len(m) /\ k + 1 - 1 = k
        BY <2>2, <3>4, PatternIs
      <4>2. t[k + 1 - 1] = j[1] /\ t[k + 1 - 1] = m[1]
        BY <2>2, <3>4, <4>1 DEF Occurs
      <4>3. Renaming[j][1] = Renaming[m][1]
        <5>1. j \in Pattern /\ m \in Pattern /\ j[1] = m[1]
          BY <2>2, <4>1, <4>2
        <5> QED
          BY <5>1, Apart
      <4> QED
        BY <3>3, <4>3
    <3> QED
      BY <2>2, <3>4
  <2> QED
    BY <2>1, <2>2
<1>3. Cleansed(t, S \union {n}, q)
  BY <1>1, <1>2 DEF Cleansed
<1> QED
  BY <1>3 DEF q

\* Nothing is replaced at first; what is replaced in the end is determined.
LEMMA CleansedNone ==
  ASSUME NEW t \in Name
  PROVE  Cleansed(t, {}, t)
BY DEF Cleansed

LEMMA CleansedOnce ==
  ASSUME NEW t \in Name, NEW S, NEW r, NEW q, Cleansed(t, S, r), Cleansed(t, S, q)
  PROVE  r = q
<1>1. r \in Seq(Nat) /\ q \in Seq(Nat) /\ Len(r) = Len(t) /\ Len(q) = Len(t)
  BY DEF Cleansed, Name
<1>2. \A k \in 1..Len(t) : r[k] = q[k]
  BY DEF Cleansed
<1> QED
  BY <1>1, <1>2, SeqEqual

\* In what has been replaced there is nothing to replace.
LEMMA NoneLeft ==
  ASSUME NEW t \in Name, NEW r, Cleansed(t, Pattern, r)
  PROVE  \A k \in 1..Len(r), n \in Pattern : ~Occurs(n, r, k)
<1>1. ASSUME NEW k \in 1..Len(r), NEW n \in Pattern PROVE ~Occurs(n, r, k)
  <2> SUFFICES ASSUME Occurs(n, r, k) PROVE FALSE
    OBVIOUS
  <2>0. k \in 1..Len(t) /\ Pattern \in SUBSET Pattern
    BY <1>1 DEF Cleansed
  <2>1. 1 \in 1..Len(n) /\ k + 1 - 1 = k
    BY <1>1, PatternIs
  <2>2. r[k] = n[1]
    BY <2>1 DEF Occurs
  <2>3. CASE \A m \in Pattern : ~Occurs(m, t, k)
    <3>1. Occurs(n, t, k)
      BY <2>0, <2>3, OccursStays
    <3> QED
      BY <2>3, <3>1
  <2>4. ASSUME NEW m \in Pattern, Occurs(m, t, k) PROVE FALSE
    <3>1. r[k] = Renaming[m][1]
      BY <2>0, <2>4 DEF Cleansed
    <3> QED
      <4>1. n[1] # Renaming[m][1]
        BY <1>1, <2>1, <2>4, Apart
      <4> QED
        BY <2>2, <3>1, <4>1
  <2> QED
    BY <2>3, <2>4
<1> QED
  BY <1>1

LEMMA CleansedStays ==
  ASSUME NEW t \in Name, NEW r, Cleansed(t, Pattern, r)
  PROVE  Cleansed(r, Pattern, r)
BY NoneLeft DEF Cleansed

\* The loop is a function of its turns: there are that many texts.
LoopRun(t, ord, f) ==
  f = [k \in 0..Len(ord) |-> IF k = 0 THEN t ELSE Replace(f[k - 1], ord[k], Renaming[ord[k]])]

LEMMA LoopTurns ==
  ASSUME NEW t, NEW ord, NEW g, LoopRun(t, ord, g)
  PROVE  \E f : LoopRun(t, ord, f) /\ ReplaceAll(t, ord) = f[Len(ord)]
BY Zenon DEF ReplaceAll, LoopRun

\* The first l of them.
Turns(t, ord, l, f) ==
  f \in [0..l -> Name] /\ f[0] = t
  /\ \A k \in 1..l : f[k] = Replace(f[k - 1], ord[k], Renaming[ord[k]])

LEMMA LoopExists ==
  ASSUME NEW t \in Name, NEW ord \in Orders
  PROVE  \E f : LoopRun(t, ord, f)
<1> DEFINE n == Len(ord)
           After(x, k) == Replace(x, ord[k], Renaming[ord[k]])
           T == {l \in 0..n : \E f : Turns(t, ord, l, f)}
<1>1. n \in Nat /\ \A k \in 1..n : ord[k] \in Pattern
  BY Patterns
<1>2. \A x \in Name, k \in 1..n : After(x, k) \in Name
  BY <1>1, ReplaceIs
<1> HIDE DEF n
<1>3. 0 \in T
  <2> DEFINE f == [k \in 0..0 |-> t]
  <2>1. f \in [0..0 -> Name] /\ f[0] = t /\ \A k \in 1..0 : f[k] = After(f[k - 1], k)
    OBVIOUS
  <2>2. 0 \in 0..n
    BY <1>1
  <2> HIDE DEF f
  <2> QED
    BY <2>1, <2>2 DEF Turns
<1>4. ASSUME NEW l \in 1..n, l - 1 \in T PROVE l \in T
  <2>1. PICK f : Turns(t, ord, l - 1, f)
    BY <1>4
  <2> DEFINE g == [k \in 0..l |-> IF k = l THEN After(f[l - 1], l) ELSE f[k]]
  <2>2. l \in Nat /\ l # 0 /\ l - 1 \in 0..l - 1 /\ \A k \in 0..l : k # l => k \in 0..l - 1
    BY <1>1
  <2>3. /\ f \in [0..l - 1 -> Name] /\ f[0] = t
        /\ \A k \in 1..l - 1 : f[k] = After(f[k - 1], k)
    BY <2>1 DEF Turns
  <2> HIDE DEF After
  <2>4. g \in [0..l -> Name]
    BY <1>2, <2>2, <2>3
  <2>5. g[0] = t
    BY <2>2, <2>3
  <2>6. \A k \in 1..l : g[k] = After(g[k - 1], k)
    <3> TAKE k \in 1..l
    <3>1. CASE k = l
      <4>1. g[l] = After(f[l - 1], l) /\ g[l - 1] = f[l - 1]
        BY <2>2
      <4> QED
        BY <3>1, <4>1
    <3>2. CASE k # l
      <4>1. k \in 1..l - 1 /\ k - 1 \in 0..l /\ k - 1 # l
        BY <3>2, <2>2
      <4>2. g[k] = f[k] /\ g[k - 1] = f[k - 1]
        BY <3>2, <4>1
      <4> QED
        BY <2>3, <4>1, <4>2
    <3> QED
      BY <3>1, <3>2
  <2>7. l \in 0..n
    BY <1>1
  <2> HIDE DEF g
  <2> QED
    BY <2>4, <2>5, <2>6, <2>7 DEF Turns, After
<1> HIDE DEF T
<1>5. n \in T
  <2>1. \A k \in 0..n : k \in T
    BY <1>1, <1>3, <1>4, UpTo
  <2> QED
    BY <1>1, <2>1
<1>6. PICK f : Turns(t, ord, n, f)
  BY <1>5 DEF T
<1>7. LoopRun(t, ord, f)
  <2>1. /\ f = [k \in 0..n |-> f[k]] /\ f[0] = t
        /\ \A k \in 1..n : f[k] = After(f[k - 1], k)
    BY <1>6 DEF Turns
  <2>2. \A k \in 0..n : k # 0 => k \in 1..n
    BY <1>1
  <2> HIDE DEF After
  <2>3. f = [k \in 0..n |-> IF k = 0 THEN t ELSE After(f[k - 1], k)]
    BY <2>1, <2>2
  <2> QED
    BY <2>3 DEF LoopRun, After, n
<1> QED
  BY <1>7

\* In whatever order, the loop replaces all patterns.
LEMMA LoopCleanses ==
  ASSUME NEW t \in Name, NEW ord \in Orders
  PROVE  Cleansed(t, Pattern, ReplaceAll(t, ord))
<1> DEFINE n == Len(ord)
<1>1. n \in Nat /\ (\A k \in 1..n : ord[k] \in Pattern) /\ {ord[k] : k \in 1..n} = Pattern
  BY Patterns
<1>2. PICK f : LoopRun(t, ord, f) /\ ReplaceAll(t, ord) = f[n]
  BY LoopExists, LoopTurns
<1> DEFINE Seen(k) == {ord[j] : j \in 1..k}
           T == {k \in 0..n : Cleansed(t, Seen(k), f[k])}
<1>3. f[0] = t /\ \A k \in 1..n : f[k] = Replace(f[k - 1], ord[k], Renaming[ord[k]])
  <2>1. 0 \in 0..n /\ \A k \in 1..n : k \in 0..n /\ k # 0
    BY <1>1
  <2> QED
    BY <1>2, <2>1 DEF LoopRun
<1> HIDE DEF n
<1>4. 0 \in T
  <2>1. Seen(0) = {} /\ 0 \in 0..n
    BY <1>1
  <2> QED
    BY <1>3, <2>1, CleansedNone
<1>5. ASSUME NEW k \in 1..n, k - 1 \in T PROVE k \in T
  <2>1. Cleansed(t, Seen(k - 1), f[k - 1])
    BY <1>5
  <2>2. Seen(k) = Seen(k - 1) \union {ord[k]} /\ Seen(k - 1) \in SUBSET Pattern
        /\ k \in 0..n /\ ord[k] \in Pattern
    <3>1. 1..k = (1..k - 1) \union {k} /\ 1..k - 1 \subseteq 1..n
      BY <1>1
    <3> QED
      BY <1>1, <3>1
  <2> HIDE DEF Seen
  <2>3. Cleansed(t, Seen(k - 1) \union {ord[k]}, f[k])
    <3>1. f[k] = Replace(f[k - 1], ord[k], Renaming[ord[k]])
      BY <1>3
    <3> DEFINE S == Seen(k - 1)
               q == f[k - 1]
               o == ord[k]
    <3>2. Cleansed(t, S, q) /\ S \in SUBSET Pattern /\ o \in Pattern
      BY <2>1, <2>2
    <3> HIDE DEF S, q, o
    <3>3. Cleansed(t, S \union {o}, Replace(q, o, Renaming[o]))
      BY <3>2, CleansesMore
    <3> QED
      BY <3>1, <3>3 DEF S, q, o
  <2> QED
    BY <2>2, <2>3
<1> HIDE DEF T
<1>6. n \in T
  <2>1. \A k \in 0..n : k \in T
    BY <1>1, <1>4, <1>5, UpTo
  <2> QED
    BY <1>1, <2>1
<1>7. Cleansed(t, Seen(n), f[n])
  BY <1>6 DEF T
<1> QED
  BY <1>1, <1>2, <1>7

\* What a name or a text is cleaned to.
Cl(t) == ReplaceAll(t, CHOOSE ord \in Orders : TRUE)

LEMMA ClCleanses ==
  ASSUME NEW t \in Name
  PROVE  Cleansed(t, Pattern, Cl(t))
<1> DEFINE some == CHOOSE ord \in Orders : TRUE
<1>1. some \in Orders
  BY Patterns
<1> HIDE DEF some
<1> QED
  BY <1>1, LoopCleanses DEF Cl, some

\* Any order gives the same, a second pass changes nothing, and nothing comes of
\* an empty text.
LEMMA Cleaning ==
  /\ \A t \in Name : /\ Cl(t) \in Name /\ Cl(Cl(t)) = Cl(t)
                     /\ \A ord \in Orders : ReplaceAll(t, ord) = Cl(t)
  /\ Cl(<< >>) = << >>
<1>1. ASSUME NEW t \in Name
      PROVE  /\ Cl(t) \in Name /\ Cleansed(t, Pattern, Cl(t))
             /\ \A ord \in Orders : ReplaceAll(t, ord) = Cl(t)
  <2>1. Cleansed(t, Pattern, Cl(t))
    BY ClCleanses
  <2>2. ASSUME NEW ord \in Orders PROVE ReplaceAll(t, ord) = Cl(t)
    BY <2>1, LoopCleanses, CleansedOnce
  <2> QED
    BY <2>1, <2>2 DEF Cleansed
<1>2. ASSUME NEW t \in Name PROVE Cl(Cl(t)) = Cl(t)
  <2>1. Cleansed(Cl(t), Pattern, Cl(t))
    BY <1>1, CleansedStays
  <2>2. Cleansed(Cl(t), Pattern, Cl(Cl(t)))
    BY <1>1
  <2> QED
    BY <1>1, <2>1, <2>2, CleansedOnce
<1>3. Cl(<< >>) = << >>
  <2>1. << >> \in Name /\ Len(<< >>) = 0
    BY EmptySeq DEF Name
  <2>2. Cl(<< >>) \in Seq(Nat) /\ Len(Cl(<< >>)) = 0
    BY <1>1, <2>1 DEF Cleansed, Name
  <2> QED
    BY <2>2, EmptySeq
<1> QED
  BY <1>1, <1>2, <1>3

LEMMA Prefix ==
  ASSUME NEW A, NEW s \in Seq(A), NEW k \in 0..Len(s)
  PROVE  /\ SubSeq(s, 1, k) \in Seq(A) /\ Len(SubSeq(s, 1, k)) = k
         /\ \A j \in 1..k : SubSeq(s, 1, k)[j] = s[j]
<1>1. Len(s) \in Nat /\ \A j \in 1..Len(s) : s[j] \in A
  BY LenProperties
<1>2. (\A j \in 1..k : s[j] \in A) /\ 1 \in Int /\ k \in Int
  BY <1>1
<1>3. /\ SubSeq(s, 1, k) \in Seq(A)
      /\ Len(SubSeq(s, 1, k)) = IF 1 <= k THEN k - 1 + 1 ELSE 0
      /\ \A j \in 1..k - 1 + 1 : SubSeq(s, 1, k)[j] = s[1 + j - 1]
  BY <1>2, SubSeqProperties
<1> QED
  BY <1>1, <1>3

\* What was written of a text: nothing, all, or the beginning of a beginning.
LEMMA Beginnings ==
  ASSUME NEW t \in Name
  PROVE  /\ Begins(<< >>, t) /\ Begins(t, t)
         /\ \A s : Begins(s, t) => s \in Name /\ \A r : Begins(r, s) => Begins(r, t)
<1>1. t \in Seq(Nat) /\ Len(t) \in Nat /\ 0 \in 0..Len(t) /\ Len(t) \in 0..Len(t)
  BY Chars DEF Name
<1>2. SubSeq(t, 1, 0) = << >> /\ SubSeq(t, 1, Len(t)) = t
  <2>1. Len(SubSeq(t, 1, 0)) = 0 /\ SubSeq(t, 1, 0) \in Seq(Nat)
    BY <1>1, Prefix
  <2>2. SubSeq(t, 1, 0) = << >>
    BY <2>1, EmptySeq
  <2>3. /\ Len(SubSeq(t, 1, Len(t))) = Len(t) /\ SubSeq(t, 1, Len(t)) \in Seq(Nat)
        /\ \A j \in 1..Len(t) : SubSeq(t, 1, Len(t))[j] = t[j]
    BY <1>1, Prefix
  <2>4. SubSeq(t, 1, Len(t)) = t
    BY <1>1, <2>3, SeqEqual
  <2> QED
    BY <2>2, <2>4
<1>3. ASSUME NEW k \in 0..Len(t), NEW s, s = SubSeq(t, 1, k)
      PROVE  s \in Name /\ \A r : Begins(r, s) => Begins(r, t)
  <2>1. s \in Seq(Nat) /\ Len(s) = k /\ \A j \in 1..k : s[j] = t[j]
    BY <1>1, <1>3, Prefix
  <2>2. ASSUME NEW l \in 0..Len(s), NEW r, r = SubSeq(s, 1, l)
        PROVE  r = SubSeq(t, 1, l) /\ l \in 0..Len(t)
    <3>1. l \in 0..Len(t) /\ \A j \in 1..l : j \in 1..k
      BY <1>1, <1>3, <2>1, <2>2
    <3>2. r \in Seq(Nat) /\ Len(r) = l /\ \A j \in 1..l : r[j] = s[j]
      BY <2>1, <2>2, Prefix
    <3> DEFINE q == SubSeq(t, 1, l)
    <3>3. q \in Seq(Nat) /\ Len(q) = l /\ \A j \in 1..l : q[j] = t[j]
      BY <1>1, <3>1, Prefix
    <3> HIDE DEF q
    <3>4. \A j \in 1..l : r[j] = q[j]
      BY <2>1, <3>1, <3>2, <3>3
    <3>5. r = q
      BY <3>2, <3>3, <3>4, SeqEqual
    <3> QED
      BY <3>1, <3>5 DEF q
  <2> QED
    BY <2>1, <2>2 DEF Begins, Name
<1> QED
  BY <1>1, <1>2, <1>3 DEF Begins

\* No pattern comes to be where the end of a cleaned text is missing.
LEMMA BeginningClean ==
  ASSUME NEW t \in Name, NEW s, Begins(s, Cl(t))
  PROVE  s \in Name /\ Cl(s) = s
<1>1. PICK c \in Name : c = Cl(t) /\ Cl(c) = c
  BY Cleaning
<1>2. PICK k \in 0..Len(c) : s = SubSeq(c, 1, k)
  BY <1>1 DEF Begins
<1>3. /\ c \in Seq(Nat) /\ Len(c) \in Nat /\ s \in Seq(Nat) /\ Len(s) = k
      /\ \A j \in 1..k : s[j] = c[j]
  BY <1>2, Chars, Prefix DEF Name
<1>4. ASSUME NEW j \in 1..Len(s), NEW n \in Pattern PROVE ~Occurs(n, s, j)
  <2> SUFFICES ASSUME Occurs(n, s, j) PROVE FALSE
    OBVIOUS
  <2>1. Len(n) \in Nat /\ j + Len(n) <= Len(s) + 1 /\ \A m \in 1..Len(n) : s[j + m - 1] = n[m]
    BY <1>4, PatternIs, Chars DEF Occurs
  <2>2. \A m \in 1..Len(n) : j + m - 1 \in 1..k
    BY <1>3, <2>1
  <2>3. Occurs(n, c, j) /\ j \in 1..Len(c)
    BY <1>2, <1>3, <2>1, <2>2 DEF Occurs
  <2>4. Cleansed(c, Pattern, c)
    BY <1>1, ClCleanses
  <2> QED
    BY <1>4, <2>3, <2>4, NoneLeft
<1>5. s \in Name
  BY <1>3 DEF Name
<1>6. Cleansed(s, Pattern, s) /\ Cleansed(s, Pattern, Cl(s))
  <2>1. Cleansed(s, Pattern, s)
    BY <1>4, <1>5 DEF Cleansed
  <2> QED
    BY <1>5, <2>1, ClCleanses
<1> QED
  BY <1>5, <1>6, CleansedOnce

-----------------------------------------------------------------------------
(***************************************************************************)
(* The order of filepath.Walk.                                             *)
(***************************************************************************)

\* s and t begin with the same k elements.
Same(s, t, k) == \A j \in 1..k : s[j] = t[j]

LEMMA SamePrefix ==
  ASSUME NEW A, NEW s \in Seq(A), NEW t \in Seq(A),
         NEW k \in 0..Len(s), k \in 0..Len(t)
  PROVE  SubSeq(s, 1, k) = SubSeq(t, 1, k) <=> Same(s, t, k)
<1>1. /\ SubSeq(s, 1, k) \in Seq(A) /\ Len(SubSeq(s, 1, k)) = k
      /\ \A j \in 1..k : SubSeq(s, 1, k)[j] = s[j]
  BY Prefix
<1>2. /\ SubSeq(t, 1, k) \in Seq(A) /\ Len(SubSeq(t, 1, k)) = k
      /\ \A j \in 1..k : SubSeq(t, 1, k)[j] = t[j]
  BY Prefix
<1>3. ASSUME Same(s, t, k) PROVE SubSeq(s, 1, k) = SubSeq(t, 1, k)
  <2>1. \A j \in 1..k : SubSeq(s, 1, k)[j] = SubSeq(t, 1, k)[j]
    BY <1>1, <1>2, <1>3 DEF Same
  <2> QED
    BY <1>1, <1>2, <2>1, SeqEqual
<1> QED
  BY <1>1, <1>2, <1>3 DEF Same

LEMMA WholePrefix ==
  ASSUME NEW A, NEW s \in Seq(A), NEW t \in Seq(A), Len(s) <= Len(t)
  PROVE  SubSeq(t, 1, Len(s)) = s <=> Same(s, t, Len(s))
<1>1. Len(s) \in 0..Len(s) /\ Len(s) \in 0..Len(t)
  BY LenProperties
<1> QED
  BY <1>1, SamePrefix, SubSeqFull

\* R orders A strictly and totally.
Orders2(R, A) ==
  /\ \A a \in A : <<a, a>> \notin R
  /\ \A a, b, c \in A : <<a, b>> \in R /\ <<b, c>> \in R => <<a, c>> \in R
  /\ \A a, b \in A : a # b => <<a, b>> \in R \/ <<b, a>> \in R

\* s comes before t: they part at k, or s is the beginning of t.
PartAt(R, s, t, k) ==
  k \in 1..Len(s) /\ k <= Len(t) /\ Same(s, t, k - 1) /\ <<s[k], t[k]>> \in R
Shorter(s, t) == Len(s) < Len(t) /\ Same(s, t, Len(s))
Before(R, s, t) == (\E k \in Nat : PartAt(R, s, t, k)) \/ Shorter(s, t)

LEMMA BeforeIrreflexive ==
  ASSUME NEW A, NEW R, Orders2(R, A), NEW s \in Seq(A)
  PROVE  ~Before(R, s, s)
<1>1. Len(s) \in Nat /\ \A j \in 1..Len(s) : s[j] \in A
  BY LenProperties
<1>2. \A k : ~PartAt(R, s, s, k)
  BY <1>1 DEF PartAt, Orders2
<1>3. ~Shorter(s, s)
  BY <1>1 DEF Shorter
<1> QED
  BY <1>2, <1>3 DEF Before

LEMMA BeforeTransitive ==
  ASSUME NEW A, NEW R, Orders2(R, A), NEW s \in Seq(A), NEW t \in Seq(A), NEW u \in Seq(A),
         Before(R, s, t), Before(R, t, u)
  PROVE  Before(R, s, u)
<1>1. /\ Len(s) \in Nat /\ \A j \in 1..Len(s) : s[j] \in A
      /\ Len(t) \in Nat /\ \A j \in 1..Len(t) : t[j] \in A
      /\ Len(u) \in Nat /\ \A j \in 1..Len(u) : u[j] \in A
  BY LenProperties
<1>2. ASSUME NEW j \in Nat, PartAt(R, s, t, j), NEW k \in Nat, PartAt(R, t, u, k)
      PROVE  Before(R, s, u)
  <2>1. /\ j \in 1..Len(s) /\ j \in 1..Len(t) /\ k \in 1..Len(t) /\ k \in 1..Len(u)
        /\ <<s[j], t[j]>> \in R /\ <<t[k], u[k]>> \in R
        /\ (\A l \in 1..j - 1 : s[l] = t[l]) /\ \A l \in 1..k - 1 : t[l] = u[l]
    BY <1>1, <1>2 DEF PartAt, Same
  <2>2. CASE j < k
    <3>1. t[j] = u[j] /\ j <= Len(u) /\ \A l \in 1..j - 1 : s[l] = u[l]
      BY <1>1, <2>1, <2>2
    <3>2. PartAt(R, s, u, j)
      BY <2>1, <3>1 DEF PartAt, Same
    <3> QED
      BY <1>2, <3>2 DEF Before
  <2>3. CASE k < j
    <3>1. s[k] = t[k] /\ k \in 1..Len(s) /\ k <= Len(u) /\ \A l \in 1..k - 1 : s[l] = u[l]
      BY <1>1, <2>1, <2>3
    <3>2. PartAt(R, s, u, k)
      BY <2>1, <3>1 DEF PartAt, Same
    <3> QED
      BY <1>2, <3>2 DEF Before
  <2>4. CASE k = j
    <3>1. j <= Len(u) /\ \A l \in 1..j - 1 : s[l] = u[l]
      BY <1>1, <2>1, <2>4
    <3>2. s[j] \in A /\ t[j] \in A /\ u[j] \in A
      BY <1>1, <2>1, <2>4
    <3>3. <<s[j], u[j]>> \in R
      BY <2>1, <2>4, <3>2 DEF Orders2
    <3>4. PartAt(R, s, u, j)
      BY <2>1, <3>1, <3>3 DEF PartAt, Same
    <3> QED
      BY <1>2, <3>4 DEF Before
  <2> QED
    BY <2>1, <2>2, <2>3, <2>4
<1>3. ASSUME NEW j \in Nat, PartAt(R, s, t, j), Shorter(t, u)
      PROVE  Before(R, s, u)
  <2>1. /\ j \in 1..Len(s) /\ j \in 1..Len(t) /\ <<s[j], t[j]>> \in R
        /\ (\A l \in 1..j - 1 : s[l] = t[l]) /\ (\A l \in 1..Len(t) : t[l] = u[l])
        /\ Len(t) < Len(u)
    BY <1>1, <1>3 DEF PartAt, Same, Shorter
  <2>2. j <= Len(u) /\ u[j] = t[j] /\ \A l \in 1..j - 1 : s[l] = u[l]
    BY <1>1, <2>1
  <2>3. PartAt(R, s, u, j)
    BY <2>1, <2>2 DEF PartAt, Same
  <2> QED
    BY <1>3, <2>3 DEF Before
<1>4. ASSUME NEW k \in Nat, PartAt(R, t, u, k), Shorter(s, t)
      PROVE  Before(R, s, u)
  <2>1. /\ k \in 1..Len(t) /\ k \in 1..Len(u) /\ <<t[k], u[k]>> \in R
        /\ (\A l \in 1..k - 1 : t[l] = u[l]) /\ (\A l \in 1..Len(s) : s[l] = t[l])
        /\ Len(s) < Len(t)
    BY <1>1, <1>4 DEF PartAt, Same, Shorter
  <2>2. CASE k <= Len(s)
    <3>1. k \in 1..Len(s) /\ k <= Len(u) /\ s[k] = t[k] /\ \A l \in 1..k - 1 : s[l] = u[l]
      BY <1>1, <2>1, <2>2
    <3>2. PartAt(R, s, u, k)
      BY <2>1, <3>1 DEF PartAt, Same
    <3> QED
      BY <1>4, <3>2 DEF Before
  <2>3. CASE k > Len(s)
    <3>1. Len(s) < Len(u) /\ \A l \in 1..Len(s) : s[l] = u[l]
      BY <1>1, <2>1, <2>3
    <3> QED
      BY <3>1 DEF Before, Shorter, Same
  <2> QED
    BY <1>1, <2>1, <2>2, <2>3
<1>5. ASSUME Shorter(s, t), Shorter(t, u)
      PROVE  Before(R, s, u)
  <2>1. Len(s) < Len(u) /\ \A l \in 1..Len(s) : s[l] = u[l]
    BY <1>1, <1>5 DEF Shorter, Same
  <2> QED
    BY <2>1 DEF Before, Shorter, Same
<1> QED
  BY <1>2, <1>3, <1>4, <1>5 DEF Before

LEMMA BeforeTotal ==
  ASSUME NEW A, NEW R, Orders2(R, A), NEW s \in Seq(A), NEW t \in Seq(A), s # t
  PROVE  Before(R, s, t) \/ Before(R, t, s)
<1>1. /\ Len(s) \in Nat /\ \A j \in 1..Len(s) : s[j] \in A
      /\ Len(t) \in Nat /\ \A j \in 1..Len(t) : t[j] \in A
  BY LenProperties
<1> DEFINE D == {k \in 1..Len(s) : k <= Len(t) /\ s[k] # t[k]}
<1>2. CASE D = {}
  <2>1. \A j \in 1..Len(s) : j <= Len(t) => s[j] = t[j]
    BY <1>2
  <2>2. Len(s) # Len(t)
    <3> SUFFICES ASSUME Len(s) = Len(t) PROVE FALSE
      OBVIOUS
    <3>1. \A j \in 1..Len(s) : s[j] = t[j]
      BY <1>1, <2>1
    <3> QED
      BY <3>1, SeqEqual
  <2>3. CASE Len(s) < Len(t)
    <3>1. \A j \in 1..Len(s) : s[j] = t[j]
      BY <1>1, <2>1, <2>3
    <3> QED
      BY <2>3, <3>1 DEF Before, Shorter, Same
  <2>4. CASE Len(t) < Len(s)
    <3>1. \A j \in 1..Len(t) : t[j] = s[j]
      BY <1>1, <2>1, <2>4
    <3> QED
      BY <2>4, <3>1 DEF Before, Shorter, Same
  <2> QED
    BY <1>1, <2>2, <2>3, <2>4
<1>3. CASE D # {}
  <2>1. PICK k \in D : \A j \in D : k <= j
    <3>1. D \in SUBSET Nat
      BY <1>1
    <3> QED
      BY <1>3, <3>1, LeastOf
  <2>2. /\ k \in Nat /\ k \in 1..Len(s) /\ k \in 1..Len(t) /\ s[k] # t[k]
        /\ s[k] \in A /\ t[k] \in A
    BY <1>1
  <2>3. \A j \in 1..k - 1 : s[j] = t[j]
    <3> TAKE j \in 1..k - 1
    <3>1. j \in 1..Len(s) /\ j <= Len(t) /\ ~(k <= j)
      BY <1>1, <2>2
    <3>2. j \notin D
      BY <2>1, <3>1
    <3> QED
      BY <3>1, <3>2
  <2>4. <<s[k], t[k]>> \in R \/ <<t[k], s[k]>> \in R
    BY <2>2 DEF Orders2
  <2>5. PartAt(R, s, t, k) \/ PartAt(R, t, s, k)
    BY <2>2, <2>3, <2>4 DEF PartAt, Same
  <2> QED
    BY <2>2, <2>5 DEF Before
<1> QED
  BY <1>2, <1>3

\* Names are compared by their characters, paths by their names.
NatLess == {c \in Nat \X Nat : c[1] < c[2]}
NameLess == {c \in Name \X Name : Less(c[1], c[2])}

LEMMA NatOrder == Orders2(NatLess, Nat)
<1>1. \A m, n \in Nat : <<m, n>> \in NatLess <=> m < n
  BY DEF NatLess
<1> QED
  BY <1>1 DEF Orders2

LEMMA LessIsBefore ==
  ASSUME NEW s \in Name, NEW t \in Name
  PROVE  Less(s, t) <=> Before(NatLess, s, t)
<1>1. /\ s \in Seq(Nat) /\ Len(s) \in Nat /\ \A j \in 1..Len(s) : s[j] \in Nat
      /\ t \in Seq(Nat) /\ Len(t) \in Nat /\ \A j \in 1..Len(t) : t[j] \in Nat
  BY LenProperties DEF Name
<1>2. ASSUME NEW k \in 1..Len(s), k <= Len(t)
      PROVE  SubSeq(s, 1, k - 1) = SubSeq(t, 1, k - 1) /\ s[k] < t[k] <=> PartAt(NatLess, s, t, k)
  <2>1. k - 1 \in 0..Len(s) /\ k - 1 \in 0..Len(t)
    BY <1>1, <1>2
  <2>2. SubSeq(s, 1, k - 1) = SubSeq(t, 1, k - 1) <=> Same(s, t, k - 1)
    BY <1>1, <2>1, SamePrefix
  <2>3. <<s[k], t[k]>> \in NatLess <=> s[k] < t[k]
    BY <1>1, <1>2 DEF NatLess
  <2> QED
    BY <1>2, <2>2, <2>3 DEF PartAt
<1>3. Len(s) < Len(t) /\ SubSeq(t, 1, Len(s)) = s <=> Shorter(s, t)
  BY <1>1, WholePrefix DEF Shorter
<1>4. \A k : PartAt(NatLess, s, t, k) => k \in Nat /\ k \in 1..Len(s) /\ k <= Len(t)
  BY <1>1 DEF PartAt
<1> QED
  BY <1>2, <1>3, <1>4 DEF Less, Before

LEMMA NameOrder == Orders2(NameLess, Name)
<1>1. ASSUME NEW s \in Name, NEW t \in Name PROVE <<s, t>> \in NameLess <=> Before(NatLess, s, t)
  BY LessIsBefore DEF NameLess
<1>2. \A s \in Name : ~Before(NatLess, s, s)
  BY NatOrder, BeforeIrreflexive DEF Name
<1>3. \A s, t, u \in Name : Before(NatLess, s, t) /\ Before(NatLess, t, u) => Before(NatLess, s, u)
  BY NatOrder, BeforeTransitive DEF Name
<1>4. \A s, t \in Name : s # t => Before(NatLess, s, t) \/ Before(NatLess, t, s)
  BY NatOrder, BeforeTotal DEF Name
<1> QED
  BY <1>1, <1>2, <1>3, <1>4 DEF Orders2

Path == Seq(Name)

LEMMA PathLessIsBefore ==
  ASSUME NEW p \in Path, NEW q \in Path
  PROVE  PathLess(p, q) <=> Before(NameLess, p, q)
<1>1. /\ p \in Seq(Name) /\ Len(p) \in Nat /\ \A j \in 1..Len(p) : p[j] \in Name
      /\ q \in Seq(Name) /\ Len(q) \in Nat /\ \A j \in 1..Len(q) : q[j] \in Name
  BY LenProperties DEF Path
<1>2. ASSUME NEW k \in 1..Len(p), k <= Len(q)
      PROVE  SubSeq(p, 1, k - 1) = SubSeq(q, 1, k - 1) /\ Less(p[k], q[k])
               <=> PartAt(NameLess, p, q, k)
  <2>1. k - 1 \in 0..Len(p) /\ k - 1 \in 0..Len(q)
    BY <1>1, <1>2
  <2>2. SubSeq(p, 1, k - 1) = SubSeq(q, 1, k - 1) <=> Same(p, q, k - 1)
    BY <1>1, <2>1, SamePrefix
  <2>3. <<p[k], q[k]>> \in NameLess <=> Less(p[k], q[k])
    BY <1>1, <1>2 DEF NameLess
  <2> QED
    BY <1>2, <2>2, <2>3 DEF PartAt
<1>3. Len(p) < Len(q) /\ SubSeq(q, 1, Len(p)) = p <=> Shorter(p, q)
  BY <1>1, WholePrefix DEF Shorter
<1>4. \A k : PartAt(NameLess, p, q, k) => k \in Nat /\ k \in 1..Len(p) /\ k <= Len(q)
  BY <1>1 DEF PartAt
<1> QED
  BY <1>2, <1>3, <1>4 DEF PathLess, Before

\* Paths are totally ordered, a directory before what is under it.
LEMMA PathOrder ==
  /\ \A p \in Path : ~PathLess(p, p)
  /\ \A p, q, o \in Path : PathLess(p, q) /\ PathLess(q, o) => PathLess(p, o)
  /\ \A p, q \in Path : p # q => PathLess(p, q) \/ PathLess(q, p)
<1>2. \A p \in Path : ~Before(NameLess, p, p)
  BY NameOrder, BeforeIrreflexive DEF Path
<1>3. \A p, q, o \in Path : Before(NameLess, p, q) /\ Before(NameLess, q, o) => Before(NameLess, p, o)
  BY NameOrder, BeforeTransitive DEF Path
<1>4. \A p, q \in Path : p # q => Before(NameLess, p, q) \/ Before(NameLess, q, p)
  BY NameOrder, BeforeTotal DEF Path
<1> QED
  BY <1>2, <1>3, <1>4, PathLessIsBefore

\* The path q begins with the path p.
LEMMA UnderIs ==
  ASSUME NEW p \in Path, NEW q \in Path
  PROVE  /\ Under(p, q) <=> Len(p) <= Len(q) /\ Same(p, q, Len(p))
         /\ Under(p, q) /\ p # q => Len(p) < Len(q) /\ PathLess(p, q)
<1>1. /\ p \in Seq(Name) /\ Len(p) \in Nat /\ q \in Seq(Name) /\ Len(q) \in Nat
  BY LenProperties DEF Path
<1>2. Under(p, q) <=> Len(p) <= Len(q) /\ Same(p, q, Len(p))
  BY <1>1, WholePrefix DEF Under
<1>3. ASSUME Under(p, q), p # q PROVE Len(p) < Len(q) /\ PathLess(p, q)
  <2>1. Len(p) # Len(q)
    <3> SUFFICES ASSUME Len(p) = Len(q) PROVE FALSE
      OBVIOUS
    <3>1. \A j \in 1..Len(p) : p[j] = q[j]
      BY <1>2, <1>3 DEF Same
    <3> QED
      BY <1>1, <1>3, <3>1, SeqEqual
  <2>2. Len(p) < Len(q)
    BY <1>1, <1>2, <1>3, <2>1
  <2> QED
    BY <1>2, <1>3, <2>2, PathLessIsBefore DEF Before, Shorter
<1> QED
  BY <1>2, <1>3

\* w lists the paths in T, each before those under it.
Lists(w, T) ==
  /\ w \in Seq(Path)
  /\ {w[k] : k \in 1..Len(w)} = T
  /\ \A j, k \in 1..Len(w) : Under(w[j], w[k]) => j <= k

\* The paths of T that come before p.
Earlier(T, p) == {q \in T : PathLess(q, p)}

\* A function of the positions is a sequence.
LEMMA SequenceOf ==
  ASSUME NEW S, NEW n \in Nat, NEW f \in [1..n -> S]
  PROVE  f \in Seq(S) /\ Len(f) = n
OBVIOUS

LEMMA Ranks ==
  ASSUME NEW T \in SUBSET Path, IsFiniteSet(T)
  PROVE  /\ Cardinality(T) \in Nat
         /\ \A p \in T : Cardinality(Earlier(T, p)) \in 0..Cardinality(T) - 1
         /\ \A p, q \in T : PathLess(p, q) => Cardinality(Earlier(T, p)) < Cardinality(Earlier(T, q))
         /\ \A k \in 0..Cardinality(T) - 1 : \E p \in T : Cardinality(Earlier(T, p)) = k
<1> DEFINE rank(p) == Cardinality(Earlier(T, p))
           n == Cardinality(T)
<1>1. n \in Nat
  BY FS_CardinalityType
<1>2. ASSUME NEW S \in SUBSET T PROVE IsFiniteSet(S) /\ Cardinality(S) \in Nat /\ Cardinality(S) <= n
                                    /\ (Cardinality(S) = n => S = T)
  BY <1>1, FS_Subset, FS_CardinalityType
<1>3. ASSUME NEW p \in T PROVE rank(p) \in 0..n - 1
  <2>1. Earlier(T, p) \in SUBSET T /\ p \notin Earlier(T, p)
    BY PathOrder DEF Earlier
  <2>2. Cardinality(Earlier(T, p)) \in Nat /\ Cardinality(Earlier(T, p)) <= n
        /\ Cardinality(Earlier(T, p)) # n
    BY <1>2, <1>3, <2>1
  <2> QED
    BY <1>1, <2>2
<1>4. ASSUME NEW p \in T, NEW q \in T, PathLess(p, q) PROVE rank(p) < rank(q)
  <2>1. Earlier(T, p) \subseteq Earlier(T, q) /\ p \in Earlier(T, q) /\ p \notin Earlier(T, p)
    BY <1>4, PathOrder DEF Earlier
  <2>2. IsFiniteSet(Earlier(T, q)) /\ rank(q) \in Nat /\ rank(p) \in Nat
    BY <1>1, <1>2 DEF Earlier
  <2>3. rank(p) <= rank(q) /\ (rank(q) = rank(p) => Earlier(T, q) = Earlier(T, p))
    <3>1. Earlier(T, p) \in SUBSET Earlier(T, q)
      BY <2>1
    <3> QED
      BY <2>2, <3>1, FS_Subset
  <2> QED
    BY <2>1, <2>2, <2>3
<1>5. ASSUME NEW k \in 0..n - 1 PROVE \E p \in T : rank(p) = k
  <2> DEFINE f == [p \in T |-> rank(p)]
             R == 0..n - 1
  <2>1. f \in [T -> R]
    BY <1>3
  <2>2. \A p, q \in T : f[p] = f[q] => p = q
    <3> SUFFICES ASSUME NEW p \in T, NEW q \in T, f[p] = f[q], p # q PROVE FALSE
      OBVIOUS
    <3>1. PathLess(p, q) \/ PathLess(q, p)
      BY PathOrder
    <3>2. rank(p) = rank(q) /\ rank(p) \in 0..n - 1 /\ rank(q) \in 0..n - 1
      BY <1>3
    <3> HIDE DEF rank
    <3>3. rank(p) < rank(q) \/ rank(q) < rank(p)
      BY <1>4, <3>1
    <3> QED
      BY <1>1, <3>2, <3>3
  <2> HIDE DEF f
  <2>3. f \in Injection(T, R)
    BY <2>1, <2>2 DEF Injection, IsInjective
  <2>4. IsFiniteSet(R) /\ Cardinality(R) = n
    <3>1. 0 \in Int /\ n - 1 \in Int
      BY <1>1
    <3>2. IsFiniteSet(R) /\ Cardinality(R) = IF 0 > n - 1 THEN 0 ELSE (n - 1) - 0 + 1
      BY <3>1, FS_Interval
    <3> HIDE DEF R
    <3> QED
      BY <1>1, <3>2
  <2> HIDE DEF R
  <2>5. f \in Surjection(T, R)
    BY <2>3, <2>4, FS_Injection
  <2>6. k \in R
    BY DEF R
  <2>7. PICK p \in T : f[p] = k
    BY <2>5, <2>6 DEF Surjection
  <2> QED
    BY <2>7 DEF f
<1> QED
  BY <1>1, <1>3, <1>4, <1>5

LEMMA Enumerates ==
  ASSUME NEW T \in SUBSET Path, IsFiniteSet(T),
         NEW w, w = [k \in 1..Cardinality(T) |-> CHOOSE p \in T : Cardinality(Earlier(T, p)) = k - 1]
  PROVE  Lists(w, T)
<1> DEFINE rank(p) == Cardinality(Earlier(T, p))
           n == Cardinality(T)
<1>1. /\ n \in Nat
      /\ \A p \in T : rank(p) \in 0..n - 1
      /\ \A p, q \in T : PathLess(p, q) => rank(p) < rank(q)
      /\ \A k \in 0..n - 1 : \E p \in T : rank(p) = k
  BY Ranks
<1>2. \A k \in 1..n : w[k] = CHOOSE p \in T : rank(p) = k - 1
  OBVIOUS
<1>3. DOMAIN w = 1..n
  OBVIOUS
<1>3a. w = [k \in 1..n |-> w[k]]
  OBVIOUS
<1> HIDE DEF rank, n
<1>4. \A k \in 1..n : w[k] \in T /\ rank(w[k]) = k - 1
  <2> TAKE k \in 1..n
  <2>1. k - 1 \in 0..n - 1
    BY <1>1
  <2>2. \E p \in T : rank(p) = k - 1
    BY <1>1, <2>1
  <2> QED
    BY <1>2, <2>2
<1>5. w \in Seq(Path) /\ Len(w) = n
  <2>1. w \in [1..n -> Path]
    BY <1>3a, <1>4
  <2> QED
    BY <1>1, <2>1, SequenceOf
<1>6. ASSUME NEW p \in T PROVE \E k \in 1..n : w[k] = p
  <2>1. rank(p) + 1 \in 1..n /\ (rank(p) + 1) - 1 = rank(p)
    BY <1>1
  <2> DEFINE q == w[rank(p) + 1]
  <2>2. q \in T /\ rank(q) = rank(p)
    BY <1>4, <2>1
  <2>3. ~PathLess(p, q) /\ ~PathLess(q, p)
    BY <1>1, <2>2
  <2>4. q = p
    BY <2>2, <2>3, PathOrder
  <2> QED
    BY <2>1, <2>4
<1>7. ASSUME NEW j \in 1..n, NEW k \in 1..n, Under(w[j], w[k]) PROVE j <= k
  <2>1. w[j] \in T /\ w[k] \in T /\ rank(w[j]) = j - 1 /\ rank(w[k]) = k - 1
    BY <1>4
  <2>2. CASE w[j] = w[k]
    BY <1>1, <2>1, <2>2
  <2>3. CASE w[j] # w[k]
    <3>1. PathLess(w[j], w[k])
      BY <1>7, <2>1, <2>3, UnderIs
    <3>2. rank(w[j]) < rank(w[k])
      BY <1>1, <2>1, <3>1
    <3> QED
      BY <1>1, <2>1, <3>2
  <2> QED
    BY <2>2, <2>3
<1> QED
  BY <1>4, <1>5, <1>6, <1>7 DEF Lists

-----------------------------------------------------------------------------
(***************************************************************************)
(* A path whose last name is replaced, and the paths under it.             *)
(***************************************************************************)
Dir(p) == SubSeq(p, 1, Len(p) - 1)

\* Paths are equal when their names are.
LEMMA PathIs ==
  ASSUME NEW p \in Path
  PROVE  Len(p) \in Nat /\ DOMAIN p = 1..Len(p) /\ \A k \in 1..Len(p) : p[k] \in Name
BY LenProperties DEF Path

LEMMA PathEqual ==
  ASSUME NEW p \in Path, NEW q \in Path, Len(p) = Len(q), \A k \in 1..Len(p) : p[k] = q[k]
  PROVE  p = q
BY SeqEqual DEF Path

LEMMA DirIs ==
  ASSUME NEW p \in Path, Len(p) >= 1
  PROVE  /\ Dir(p) \in Path /\ Len(Dir(p)) = Len(p) - 1
         /\ \A k \in 1..Len(p) - 1 : Dir(p)[k] = p[k]
         /\ Parent(p) = Dir(p)
<1>1. p \in Seq(Name) /\ Len(p) - 1 \in 0..Len(p)
  BY PathIs DEF Path
<1> QED
  BY <1>1, Prefix DEF Path, Dir, Parent

\* What is under p keeps all its names but the one that p loses.
LEMMA MovedIs ==
  ASSUME NEW p \in Path, Len(p) >= 1, NEW nm \in Name, NEW m \in Path, Under(p, m)
  PROVE  LET x == Moved(m, p, Append(Dir(p), nm))
         IN  /\ x \in Path /\ Len(x) = Len(m) /\ Len(p) \in 1..Len(m)
             /\ x[Len(p)] = nm
             /\ \A k \in 1..Len(m) : k # Len(p) => x[k] = m[k]
<1> DEFINE l == Len(p)
           new == Append(Dir(p), nm)
           rest == SubSeq(m, l + 1, Len(m))
           x == Moved(m, p, new)
<1>1. /\ l \in Nat \ {0} /\ Len(m) \in Nat /\ l <= Len(m)
      /\ \A k \in 1..l : m[k] = p[k]
  BY PathIs, UnderIs DEF Same
<1>2. /\ new \in Seq(Name) /\ Len(new) = l /\ new[l] = nm
      /\ \A k \in 1..l - 1 : new[k] = p[k]
  <2>1. Dir(p) \in Seq(Name) /\ Len(Dir(p)) = l - 1 /\ \A k \in 1..l - 1 : Dir(p)[k] = p[k]
    BY DirIs DEF Path
  <2>2. /\ new \in Seq(Name) /\ Len(new) = (l - 1) + 1 /\ new[(l - 1) + 1] = nm
        /\ \A k \in 1..l - 1 : new[k] = Dir(p)[k]
    BY <2>1, AppendProperties
  <2> QED
    BY <1>1, <2>1, <2>2
<1>3. /\ rest \in Seq(Name) /\ Len(rest) = Len(m) - l
      /\ \A k \in 1..Len(m) - l : rest[k] = m[l + k]
  <2>1. \A k \in l + 1..Len(m) : m[k] \in Name
    BY <1>1, PathIs
  <2>2. l + 1 \in Int /\ Len(m) \in Int
    BY <1>1
  <2>3. /\ rest \in Seq(Name)
        /\ Len(rest) = IF l + 1 <= Len(m) THEN Len(m) - (l + 1) + 1 ELSE 0
        /\ \A k \in 1..Len(m) - (l + 1) + 1 : rest[k] = m[(l + 1) + k - 1]
    BY <2>1, <2>2, SubSeqProperties
  <2> HIDE DEF rest
  <2>4. Len(m) - (l + 1) + 1 = Len(m) - l
    BY <1>1
  <2>5. \A k \in 1..Len(m) - l : rest[k] = m[l + k]
    <3> TAKE k \in 1..Len(m) - l
    <3>1. (l + 1) + k - 1 = l + k
      BY <1>1
    <3> QED
      BY <2>3, <2>4, <3>1
  <2> QED
    BY <1>1, <2>3, <2>5
<1> HIDE DEF new, rest
<1>4. x = new \o rest
  BY DEF Moved, rest
<1>5. /\ x \in Seq(Name) /\ Len(x) = Len(new) + Len(rest)
      /\ \A k \in 1..Len(new) + Len(rest) : x[k] = IF k <= Len(new) THEN new[k]
                                                   ELSE rest[k - Len(new)]
  <2>1. /\ new \o rest \in Seq(Name) /\ Len(new \o rest) = Len(new) + Len(rest)
        /\ \A k \in 1..Len(new) + Len(rest) :
             (new \o rest)[k] = IF k <= Len(new) THEN new[k] ELSE rest[k - Len(new)]
    <3>1. new \in Seq(Name) /\ rest \in Seq(Name)
      BY <1>2, <1>3
    <3> QED
      BY <3>1, ConcatProperties
  <2> HIDE DEF x
  <2> QED
    BY <1>4, <2>1
<1> HIDE DEF x
<1>6. Len(x) = Len(m) /\ l \in 1..Len(m)
  BY <1>1, <1>2, <1>3, <1>5
<1>7. x[l] = nm
  BY <1>1, <1>2, <1>3, <1>5, <1>6
<1>8. ASSUME NEW k \in 1..Len(m), k # l PROVE x[k] = m[k]
  <2>1. CASE k < l
    <3>1. k \in 1..l - 1 /\ k \in 1..l /\ k \in 1..Len(new) + Len(rest) /\ k <= Len(new)
      BY <1>1, <1>2, <1>3, <2>1
    <3> QED
      BY <1>1, <1>2, <1>5, <3>1
  <2>2. CASE k > l
    <3>1. k - l \in 1..Len(m) - l /\ l + (k - l) = k /\ k \in 1..Len(new) + Len(rest) /\ ~(k <= Len(new))
      BY <1>1, <1>2, <1>3, <2>2
    <3> QED
      BY <1>2, <1>3, <1>5, <3>1
  <2> QED
    BY <1>1, <1>8, <2>1, <2>2
<1> QED
  BY <1>5, <1>6, <1>7, <1>8 DEF Path, x, new

LEMMA UnderSelf ==
  ASSUME NEW p \in Path
  PROVE  Under(p, p)
<1>1. Len(p) <= Len(p)
  BY PathIs
<1> QED
  BY <1>1, UnderIs DEF Same

LEMMA NewIs ==
  ASSUME NEW p \in Path, Len(p) >= 1, NEW nm \in Name
  PROVE  LET new == Append(Dir(p), nm)
         IN  /\ new \in Path /\ Len(new) = Len(p) /\ new[Len(p)] = nm
             /\ \A k \in 1..Len(p) : k # Len(p) => new[k] = p[k]
             /\ new = Moved(p, p, new)
<1> DEFINE new == Append(Dir(p), nm)
           l == Len(p)
           x == Moved(p, p, new)
<1>1. x \in Path /\ Len(x) = l /\ x[l] = nm /\ \A k \in 1..l : k # l => x[k] = p[k]
  BY UnderSelf, MovedIs
<1>2. l \in Nat \ {0}
  BY PathIs
<1>3. /\ new \in Seq(Name) /\ Len(new) = l /\ new[l] = nm
      /\ \A k \in 1..l - 1 : new[k] = p[k]
  <2>1. Dir(p) \in Seq(Name) /\ Len(Dir(p)) = l - 1 /\ \A k \in 1..l - 1 : Dir(p)[k] = p[k]
    BY DirIs DEF Path
  <2>2. /\ new \in Seq(Name) /\ Len(new) = (l - 1) + 1 /\ new[(l - 1) + 1] = nm
        /\ \A k \in 1..l - 1 : new[k] = Dir(p)[k]
    BY <2>1, AppendProperties
  <2> QED
    BY <1>2, <2>1, <2>2
<1> HIDE DEF new, x
<1>4. \A k \in 1..l : k # l => k \in 1..l - 1
  BY <1>2
<1>5. \A k \in 1..l : new[k] = x[k]
  BY <1>1, <1>3, <1>4
<1>6. new = x
  BY <1>1, <1>3, <1>5, PathEqual DEF Path
<1> QED
  BY <1>1, <1>6 DEF x, new

LEMMA MovedOnce ==
  ASSUME NEW p \in Path, Len(p) >= 1, NEW nm \in Name,
         NEW m \in Path, Under(p, m), NEW o \in Path, Under(p, o),
         Moved(m, p, Append(Dir(p), nm)) = Moved(o, p, Append(Dir(p), nm))
  PROVE  m = o
<1> DEFINE x == Moved(m, p, Append(Dir(p), nm))
<1>1. /\ Len(x) = Len(m) /\ Len(p) \in 1..Len(m) /\ \A k \in 1..Len(m) : k # Len(p) => x[k] = m[k]
  BY MovedIs
<1>2. /\ Len(x) = Len(o) /\ Len(p) \in 1..Len(o) /\ \A k \in 1..Len(o) : k # Len(p) => x[k] = o[k]
  BY MovedIs
<1> HIDE DEF x
<1>3. m[Len(p)] = p[Len(p)] /\ o[Len(p)] = p[Len(p)]
  <2>1. Len(p) \in 1..Len(p)
    BY <1>1
  <2> QED
    BY <2>1, UnderIs DEF Same
<1>4. \A k \in 1..Len(m) : m[k] = o[k]
  BY <1>1, <1>2, <1>3
<1> QED
  BY <1>1, <1>2, <1>4, PathEqual

\* The beginning of a path.
LEMMA UnderShort ==
  ASSUME NEW p \in Path, NEW q \in Path, Len(q) >= 1
  PROVE  /\ Under(p, Dir(q)) => Under(p, q)
         /\ Under(p, q) /\ Len(p) < Len(q) => Under(p, Dir(q))
<1>1. /\ Len(p) \in Nat /\ Len(q) \in Nat \ {0}
      /\ Dir(q) \in Path /\ Len(Dir(q)) = Len(q) - 1
      /\ \A k \in 1..Len(q) - 1 : Dir(q)[k] = q[k]
  BY PathIs, DirIs
<1>2. ASSUME Under(p, Dir(q)) PROVE Under(p, q)
  <2>1. Len(p) <= Len(q) - 1 /\ \A k \in 1..Len(p) : p[k] = Dir(q)[k]
    BY <1>1, <1>2, UnderIs DEF Same
  <2>2. Len(p) <= Len(q) /\ \A k \in 1..Len(p) : p[k] = q[k]
    BY <1>1, <2>1
  <2> QED
    BY <2>2, UnderIs DEF Same
<1>3. ASSUME Under(p, q), Len(p) < Len(q) PROVE Under(p, Dir(q))
  <2>1. \A k \in 1..Len(p) : p[k] = q[k]
    BY <1>3, UnderIs DEF Same
  <2>2. Len(p) <= Len(q) - 1 /\ \A k \in 1..Len(p) : p[k] = Dir(q)[k]
    BY <1>1, <1>3, <2>1
  <2> QED
    BY <1>1, <2>2, UnderIs DEF Same
<1> QED
  BY <1>2, <1>3

\* The directory of what has moved has moved with it.
LEMMA MovedDir ==
  ASSUME NEW p \in Path, Len(p) >= 1, NEW nm \in Name, NEW m \in Path, Under(p, m)
  PROVE  LET new == Append(Dir(p), nm)
             x == Moved(m, p, new)
         IN  /\ m = p => Dir(x) = Dir(p)
             /\ m # p => Under(p, Dir(m)) /\ Dir(x) = Moved(Dir(m), p, new)
<1> DEFINE new == Append(Dir(p), nm)
           x == Moved(m, p, new)
           l == Len(p)
<1>1. /\ x \in Path /\ Len(x) = Len(m) /\ l \in 1..Len(m) /\ l \in Nat /\ Len(m) \in Nat
      /\ x[l] = nm
      /\ \A k \in 1..Len(m) : k # l => x[k] = m[k]
  BY MovedIs, PathIs
<1>2. Len(x) >= 1 /\ Len(m) >= 1
  BY <1>1
<1>3. /\ Dir(x) \in Path /\ Len(Dir(x)) = Len(m) - 1
      /\ \A k \in 1..Len(m) - 1 : Dir(x)[k] = x[k]
  BY <1>1, <1>2, DirIs
<1>4. Dir(m) \in Path /\ Len(Dir(m)) = Len(m) - 1 /\ \A k \in 1..Len(m) - 1 : Dir(m)[k] = m[k]
  BY <1>2, DirIs
<1>5. ASSUME m = p PROVE Dir(x) = Dir(p)
  <2>1. \A k \in 1..Len(m) - 1 : Dir(x)[k] = Dir(m)[k]
    <3> TAKE k \in 1..Len(m) - 1
    <3>1. k \in 1..Len(m) /\ k # l
      BY <1>1, <1>5
    <3> QED
      BY <1>1, <1>3, <1>4, <3>1
  <2> QED
    BY <1>3, <1>4, <1>5, <2>1, PathEqual
<1>6. ASSUME m # p PROVE Under(p, Dir(m)) /\ Dir(x) = Moved(Dir(m), p, new)
  <2>1. l < Len(m)
    BY <1>6, UnderIs
  <2>2. Under(p, Dir(m))
    BY <1>2, <2>1, UnderShort
  <2> DEFINE y == Moved(Dir(m), p, new)
  <2>3. /\ y \in Path /\ Len(y) = Len(m) - 1 /\ y[l] = nm
        /\ \A k \in 1..Len(m) - 1 : k # l => y[k] = Dir(m)[k]
    BY <1>4, <2>2, MovedIs
  <2> HIDE DEF x, y
  <2>4. \A k \in 1..Len(m) - 1 : Dir(x)[k] = y[k]
    <3> TAKE k \in 1..Len(m) - 1
    <3>1. k \in 1..Len(m)
      BY <1>1
    <3>2. CASE k = l
      BY <1>1, <1>3, <2>3, <3>2
    <3>3. CASE k # l
      BY <1>1, <1>3, <1>4, <2>3, <3>1, <3>3
    <3> QED
      BY <3>2, <3>3
  <2>5. Dir(x) = y
    BY <1>3, <2>3, <2>4, PathEqual
  <2> QED
    BY <2>2, <2>5 DEF y
<1> QED
  BY <1>5, <1>6

-----------------------------------------------------------------------------
(***************************************************************************)
(* Trees, and what os.Rename makes of one.                                 *)
(***************************************************************************)
Tree(t) ==
  /\ IsFiniteSet(DOMAIN t) /\ DOMAIN t \subseteq Path
  /\ \A p \in DOMAIN t :
       /\ Len(p) >= 1 /\ t[p] \in Nodes
       /\ Len(p) > 1 => Dir(p) \in DOMAIN t /\ t[Dir(p)].kind = "dir"
       /\ t[p].kind \in {"dir", "link"} => t[p].text = << >>
       /\ \A q \in DOMAIN t : t[p].id = t[q].id => p = q

\* Every beginning of a path that is there is a directory that is there.
LEMMA Closed ==
  ASSUME NEW t, Tree(t), NEW q \in DOMAIN t, NEW p \in Path, Len(p) >= 1, Under(p, q), p # q
  PROVE  p \in DOMAIN t /\ t[p].kind = "dir"
<1> DEFINE l == Len(q)
           At(d) == SubSeq(q, 1, l - d)
           T == {d \in 0..l - 1 : At(d) \in DOMAIN t /\ (d > 0 => t[At(d)].kind = "dir")}
<1>1. /\ q \in Seq(Name) /\ l \in Nat \ {0} /\ Len(p) \in Nat /\ p \in Seq(Name)
      /\ Len(p) < l
  BY PathIs, UnderIs DEF Tree, Path
<1>2. 0 \in T
  <2>1. At(0) = q
    <3>1. l - 0 = l
      BY <1>1
    <3> QED
      BY <1>1, <3>1, SubSeqFull
  <2>2. 0 \in 0..l - 1
    BY <1>1
  <2> HIDE DEF At, l
  <2> QED
    BY <2>1, <2>2
<1>3. ASSUME NEW d \in 1..l - 1, d - 1 \in T PROVE d \in T
  <2> DEFINE b == At(d - 1)
  <2>1. b \in DOMAIN t
    BY <1>3
  <2>2. b \in Path /\ Len(b) = l - d + 1 /\ \A k \in 1..l - d + 1 : b[k] = q[k]
    <3>1. l - (d - 1) \in 0..l /\ l - (d - 1) = l - d + 1
      BY <1>1
    <3> QED
      BY <1>1, <3>1, Prefix DEF Path
  <2>3. /\ At(d) \in Path /\ Len(At(d)) = l - d /\ \A k \in 1..l - d : At(d)[k] = q[k]
    <3>1. l - d \in 0..l
      BY <1>1
    <3> QED
      BY <1>1, <3>1, Prefix DEF Path
  <2> HIDE DEF b
  <2>4. Len(b) > 1 /\ Len(b) >= 1 /\ Len(b) - 1 = l - d
    BY <1>1, <2>2
  <2>5. Dir(b) \in Path /\ Len(Dir(b)) = l - d /\ \A k \in 1..l - d : Dir(b)[k] = b[k]
    BY <2>2, <2>4, DirIs
  <2> DEFINE c == At(d)
  <2> HIDE DEF c
  <2>6. Dir(b) = c
    <3>1. c \in Path /\ Len(c) = l - d /\ \A k \in 1..l - d : c[k] = q[k]
      BY <2>3 DEF c
    <3>2. \A k \in 1..l - d : Dir(b)[k] = c[k]
      <4> TAKE k \in 1..l - d
      <4>1. k \in 1..l - d + 1
        BY <1>1
      <4> QED
        BY <2>2, <2>5, <3>1, <4>1
    <3> QED
      BY <2>5, <3>1, <3>2, PathEqual
  <2>7. c \in DOMAIN t /\ t[c].kind = "dir"
    BY <2>1, <2>4, <2>6 DEF Tree
  <2>8. d \in 0..l - 1
    BY <1>1
  <2> QED
    BY <2>7, <2>8 DEF c
<1>4. l - Len(p) \in T
  <2>1. l - 1 \in Nat /\ l - Len(p) \in 0..l - 1
    BY <1>1
  <2> HIDE DEF T, l
  <2>2. \A d \in 0..l - 1 : d \in T
    BY <1>2, <1>3, <2>1, UpTo
  <2> QED
    BY <2>1, <2>2
<1>5. At(l - Len(p)) = p
  <2>1. l - (l - Len(p)) = Len(p)
    BY <1>1
  <2>2. SubSeq(q, 1, Len(p)) = p
    BY DEF Under
  <2> QED
    BY <2>1, <2>2
<1>6. l - Len(p) > 0
  BY <1>1
<1> QED
  BY <1>4, <1>5, <1>6

\* r is t after p has got the name nm.
Shifted(t, r, p, nm) ==
  LET new == Append(Dir(p), nm)
      kept == {q \in DOMAIN t : ~Under(p, q) /\ q # new}
      moved == {q \in DOMAIN t : Under(p, q)}
  IN  /\ p \in DOMAIN t
      /\ new \in DOMAIN t => t[new].kind # "dir" /\ t[p].kind # "dir"
      /\ DOMAIN r = kept \union {Moved(m, p, new) : m \in moved}
      /\ \A q \in kept : r[q] = t[q]
      /\ \A m \in moved : Moved(m, p, new) \notin kept /\ r[Moved(m, p, new)] = t[m]

LEMMA RenamedIs ==
  ASSUME Tree(tree), NEW p \in Path, Len(p) >= 1, NEW nm \in Name
  PROVE  LET new == Append(Dir(p), nm)
         IN  \/ /\ Renamed(p, new) = tree
                /\ \/ p \notin DOMAIN tree
                   \/ new \in DOMAIN tree
             \/ Shifted(tree, Renamed(p, new), p, nm)
<1> DEFINE new == Append(Dir(p), nm)
           kept == {q \in DOMAIN tree : ~Under(p, q) /\ q # new}
           moved == {q \in DOMAIN tree : Under(p, q)}
           To(m) == Moved(m, p, new)
           From(q) == CHOOSE m \in moved : To(m) = q
           refused == \/ p \notin DOMAIN tree
                      \/ new \in DOMAIN tree /\ "dir" \in {tree[new].kind, tree[p].kind}
           r == [q \in kept \union {To(m) : m \in moved} |->
                  IF q \in kept THEN tree[q] ELSE tree[From(q)]]
<1>1. Renamed(p, new) = IF refused THEN tree ELSE r
  BY DEF Renamed
<1>2. ASSUME ~refused PROVE Shifted(tree, r, p, nm)
  <2>1. p \in DOMAIN tree /\ (new \in DOMAIN tree => tree[new].kind # "dir" /\ tree[p].kind # "dir")
    BY <1>2
  <2>2. moved \subseteq Path
    BY DEF Tree
  <2>3. ASSUME NEW m \in moved PROVE To(m) \notin kept
    <3> SUFFICES ASSUME To(m) \in kept PROVE FALSE
      OBVIOUS
    <3>1. To(m) \in DOMAIN tree /\ To(m) # new /\ m \in Path
      BY <2>2
    <3>2. /\ To(m) \in Path /\ Len(To(m)) = Len(m) /\ Len(p) \in 1..Len(m) /\ To(m)[Len(p)] = nm
          /\ \A k \in 1..Len(m) : k # Len(p) => To(m)[k] = m[k]
      BY <3>1, MovedIs
    <3>3. /\ new \in Path /\ Len(new) = Len(p) /\ new[Len(p)] = nm
          /\ \A k \in 1..Len(p) : k # Len(p) => new[k] = p[k]
      BY NewIs
    <3>4. Len(p) \in Nat /\ Len(m) \in Nat
      BY <3>1, PathIs
    <3> DEFINE x == To(m)
    <3> HIDE DEF x, new
    <3>5. \A k \in 1..Len(p) : new[k] = x[k]
      <4> TAKE k \in 1..Len(p)
      <4>1. k \in 1..Len(m)
        BY <3>2, <3>4
      <4>2. p[k] = m[k]
        BY <3>1, UnderIs DEF Same
      <4> QED
        BY <3>2, <3>3, <4>1, <4>2 DEF x
    <3>6. Len(new) <= Len(x)
      BY <3>2, <3>3, <3>4 DEF x
    <3>7. Under(new, x)
      BY <3>2, <3>3, <3>5, <3>6, UnderIs DEF Same, x
    <3>8. new \in DOMAIN tree /\ tree[new].kind = "dir"
      <4>1. Len(new) >= 1
        BY <3>3
      <4>2. x \in DOMAIN tree /\ new # x
        BY <3>1 DEF x
      <4> QED
        BY <3>3, <3>7, <4>1, <4>2, Closed
    <3> QED
      BY <2>1, <3>8 DEF new
  <2>4. ASSUME NEW m \in moved PROVE r[To(m)] = tree[m]
    <3>1. From(To(m)) \in moved /\ To(From(To(m))) = To(m)
      OBVIOUS
    <3>2. From(To(m)) = m
      <4> DEFINE o == From(To(m))
      <4>1. o \in moved /\ To(o) = To(m)
        BY <3>1
      <4> HIDE DEF o
      <4>2. o \in Path /\ m \in Path /\ Under(p, o) /\ Under(p, m)
        BY <2>2, <4>1
      <4>3. o = m
        BY <4>1, <4>2, MovedOnce
      <4> QED
        BY <4>3 DEF o
    <3>3. r[To(m)] = tree[From(To(m))]
      <4>1. To(m) \in {To(o) : o \in moved}
        OBVIOUS
      <4> HIDE DEF To, From, moved, kept
      <4> QED
        BY <2>3, <4>1
    <3> QED
      BY <3>2, <3>3
  <2>5. \A q \in kept : r[q] = tree[q]
    <3> HIDE DEF kept, To, From, moved
    <3> QED
      OBVIOUS
  <2>6. DOMAIN r = kept \union {To(m) : m \in moved}
    OBVIOUS
  <2> HIDE DEF r
  <2> QED
    BY <2>1, <2>3, <2>4, <2>5, <2>6 DEF Shifted
<1> QED
  BY <1>1, <1>2

\* What is at x was at m.
WasAt(x, m, p, nm) ==
  LET new == Append(Dir(p), nm)
  IN  \/ x = m /\ ~Under(p, m) /\ m # new
      \/ Under(p, m) /\ x = Moved(m, p, new)

LEMMA ShiftedFrom ==
  ASSUME NEW t, NEW r, NEW p, NEW nm, Shifted(t, r, p, nm), NEW x \in DOMAIN r
  PROVE  \E m \in DOMAIN t : r[x] = t[m] /\ WasAt(x, m, p, nm)
BY DEF Shifted, WasAt

LEMMA ShiftedTo ==
  ASSUME NEW t, NEW r, NEW p, NEW nm, Shifted(t, r, p, nm), NEW m \in DOMAIN t, NEW x, WasAt(x, m, p, nm)
  PROVE  x \in DOMAIN r /\ r[x] = t[m]
BY DEF Shifted, WasAt

\* It is still a tree.
LEMMA ShiftedTree ==
  ASSUME NEW t, Tree(t), NEW r, NEW p \in Path, Len(p) >= 1, NEW nm \in Name,
         Shifted(t, r, p, nm)
  PROVE  Tree(r)
<1> DEFINE new == Append(Dir(p), nm)
           kept == {q \in DOMAIN t : ~Under(p, q) /\ q # new}
           moved == {q \in DOMAIN t : Under(p, q)}
<1>1. p \in DOMAIN t /\ DOMAIN r = kept \union {Moved(m, p, new) : m \in moved}
  BY DEF Shifted
<1>2. IsFiniteSet(DOMAIN r)
  <2> DEFINE f == [m \in moved |-> Moved(m, p, new)]
             image == {Moved(m, p, new) : m \in moved}
  <2>1. f \in Surjection(moved, image)
    BY DEF Surjection
  <2>2. IsFiniteSet(moved) /\ IsFiniteSet(kept)
    <3>1. moved \in SUBSET DOMAIN t /\ kept \in SUBSET DOMAIN t /\ IsFiniteSet(DOMAIN t)
      BY DEF Tree
    <3> HIDE DEF moved, kept
    <3> QED
      BY <3>1, FS_Subset
  <2> HIDE DEF f, image
  <2>3. IsFiniteSet(image)
    BY <2>1, <2>2, FS_Surjection
  <2>4. IsFiniteSet(kept \union image)
    BY <2>2, <2>3, FS_Union
  <2> QED
    BY <1>1, <2>4 DEF image
<1>3. ASSUME NEW m \in DOMAIN t, NEW x, WasAt(x, m, p, nm)
      PROVE  m \in Path /\ x \in Path /\ Len(x) = Len(m)
  <2>1. m \in Path
    BY DEF Tree
  <2> QED
    BY <1>3, <2>1, MovedIs DEF WasAt
<1>4. ASSUME NEW x \in DOMAIN r
      PROVE  \E m \in DOMAIN t : r[x] = t[m] /\ WasAt(x, m, p, nm)
  BY <1>4, ShiftedFrom
<1>5. DOMAIN r \subseteq Path
  BY <1>3, <1>4
<1>6. ASSUME NEW x \in DOMAIN r, NEW m \in DOMAIN t, r[x] = t[m], WasAt(x, m, p, nm), Len(x) > 1
      PROVE  Dir(x) \in DOMAIN r /\ r[Dir(x)].kind = "dir"
  <2>1. m \in Path /\ x \in Path /\ Len(m) > 1 /\ Len(m) >= 1
    BY <1>3, <1>6
  <2>2. Dir(m) \in DOMAIN t /\ t[Dir(m)].kind = "dir" /\ Dir(m) \in Path
    BY <2>1 DEF Tree
  <2>3. new \in DOMAIN t => t[new].kind # "dir"
    BY DEF Shifted
  <2>4. Dir(m) # new
    BY <2>2, <2>3
  <2>5. CASE ~Under(p, m) /\ x = m
    <3>1. ~Under(p, Dir(m))
      BY <2>1, <2>5, UnderShort
    <3>2. WasAt(Dir(m), Dir(m), p, nm)
      BY <2>4, <3>1 DEF WasAt
    <3> QED
      BY <2>2, <2>5, <3>2, ShiftedTo
  <2>6. CASE Under(p, m) /\ x = Moved(m, p, new) /\ m = p
    <3>1. Dir(x) = Dir(m)
      BY <2>1, <2>6, MovedDir
    <3>2. ~Under(p, Dir(m))
      <4>1. Len(Dir(m)) = Len(p) - 1 /\ Len(p) \in Nat
        BY <2>6, DirIs, PathIs
      <4>2. ~(Len(p) <= Len(Dir(m)))
        BY <4>1
      <4> QED
        BY <2>2, <4>2, UnderIs
    <3>3. WasAt(Dir(m), Dir(m), p, nm)
      BY <2>4, <3>2 DEF WasAt
    <3> QED
      BY <2>2, <3>1, <3>3, ShiftedTo
  <2>7. CASE Under(p, m) /\ x = Moved(m, p, new) /\ m # p
    <3>1. Under(p, Dir(m)) /\ Dir(x) = Moved(Dir(m), p, new)
      BY <2>1, <2>7, MovedDir
    <3>2. WasAt(Dir(x), Dir(m), p, nm)
      BY <3>1 DEF WasAt
    <3> QED
      BY <2>2, <3>2, ShiftedTo
  <2> QED
    BY <1>6, <2>5, <2>6, <2>7 DEF WasAt
<1>7. ASSUME NEW x \in DOMAIN r, NEW y \in DOMAIN r, r[x].id = r[y].id
      PROVE  x = y
  <2>1. PICK m \in DOMAIN t : r[x] = t[m] /\ WasAt(x, m, p, nm)
    BY <1>4
  <2>2. PICK o \in DOMAIN t : r[y] = t[o] /\ WasAt(y, o, p, nm)
    BY <1>4
  <2>3. m = o
    BY <1>7, <2>1, <2>2 DEF Tree
  <2> QED
    BY <2>1, <2>2, <2>3 DEF WasAt
<1>8. ASSUME NEW x \in DOMAIN r
      PROVE  /\ Len(x) >= 1 /\ r[x] \in Nodes
             /\ Len(x) > 1 => Dir(x) \in DOMAIN r /\ r[Dir(x)].kind = "dir"
             /\ r[x].kind \in {"dir", "link"} => r[x].text = << >>
  <2>1. PICK m \in DOMAIN t : r[x] = t[m] /\ WasAt(x, m, p, nm)
    BY <1>4
  <2>2. Len(x) = Len(m)
    BY <1>3, <2>1
  <2>3. /\ Len(m) >= 1 /\ t[m] \in Nodes
        /\ t[m].kind \in {"dir", "link"} => t[m].text = << >>
    BY DEF Tree
  <2> QED
    BY <1>6, <2>1, <2>2, <2>3
<1> QED
  BY <1>2, <1>5, <1>7, <1>8 DEF Tree

-----------------------------------------------------------------------------
(***************************************************************************)
(* What a tree has to do with the one the first run was given.             *)
(***************************************************************************)
CP(p) == [k \in DOMAIN p |-> Cl(p[k])]

\* Some of the names of q are those of p, the others what these become.
Near(q, p) == Len(q) = Len(p) /\ \A k \in 1..Len(p) : q[k] = p[k] \/ q[k] = Cl(p[k])

LEMMA CleanedPath ==
  ASSUME NEW p \in Path
  PROVE  /\ CP(p) \in Path /\ Len(CP(p)) = Len(p) /\ \A k \in 1..Len(p) : CP(p)[k] = Cl(p[k])
         /\ CP(CP(p)) = CP(p)
         /\ Near(p, p)
<1>1. Len(p) \in Nat /\ DOMAIN p = 1..Len(p) /\ \A k \in 1..Len(p) : p[k] \in Name
  BY PathIs
<1>2. CP(p) \in Seq(Name) /\ Len(CP(p)) = Len(p)
  <2>1. CP(p) \in [1..Len(p) -> Name]
    BY <1>1, Cleaning DEF CP
  <2> QED
    BY <1>1, <2>1, SequenceOf
<1>3. \A k \in 1..Len(p) : CP(p)[k] = Cl(p[k])
  BY <1>1 DEF CP
<1>4. CP(CP(p)) = CP(p)
  <2>1. DOMAIN CP(p) = 1..Len(p)
    BY <1>1 DEF CP
  <2>2. \A k \in 1..Len(p) : Cl(CP(p)[k]) = CP(p)[k]
    BY <1>1, <1>3, Cleaning
  <2>3. CP(CP(p)) = [k \in 1..Len(p) |-> Cl(CP(p)[k])]
    BY <2>1 DEF CP
  <2>4. CP(p) = [k \in 1..Len(p) |-> CP(p)[k]]
    BY <1>1 DEF CP
  <2> HIDE DEF CP
  <2> QED
    BY <2>2, <2>3, <2>4
<1>5. Near(p, p)
  BY DEF Near
<1> QED
  BY <1>2, <1>3, <1>4, <1>5 DEF Path

LEMMA NearSame ==
  ASSUME NEW p \in Path, NEW q \in Path, Near(q, p)
  PROVE  CP(q) = CP(p)
<1>1. /\ CP(p) \in Path /\ Len(CP(p)) = Len(p) /\ \A k \in 1..Len(p) : CP(p)[k] = Cl(p[k])
  BY CleanedPath
<1>2. /\ CP(q) \in Path /\ Len(CP(q)) = Len(q) /\ \A k \in 1..Len(q) : CP(q)[k] = Cl(q[k])
  BY CleanedPath
<1>3. \A k \in 1..Len(p) : CP(p)[k] = CP(q)[k]
  BY <1>1, <1>2, PathIs, Cleaning DEF Near
<1> QED
  BY <1>1, <1>2, <1>3, PathEqual DEF Near

\* A path that gets a clean name stays near the one it came from.
LEMMA NearMoved ==
  ASSUME NEW p \in Path, Len(p) >= 1, NEW m \in Path, NEW x, WasAt(x, m, p, Cl(p[Len(p)])),
         NEW o \in Path, Near(m, o)
  PROVE  Near(x, o)
<1>1. CASE x = m
  BY <1>1
<1>2. CASE Under(p, m) /\ x = Moved(m, p, Append(Dir(p), Cl(p[Len(p)])))
  <2> DEFINE l == Len(p)
             nm == Cl(p[l])
  <2>1. /\ l \in 1..l /\ p[l] \in Name /\ nm \in Name
    BY PathIs, Cleaning
  <2>2. /\ x \in Path /\ Len(x) = Len(m) /\ l \in 1..Len(m) /\ x[l] = nm
        /\ \A k \in 1..Len(m) : k # l => x[k] = m[k]
    BY <1>2, <2>1, MovedIs
  <2>3. m[l] = p[l]
    BY <1>2, <2>1, UnderIs DEF Same
  <2> HIDE DEF l
  <2>4. /\ Len(m) = Len(o) /\ \A k \in 1..Len(o) : m[k] = o[k] \/ m[k] = Cl(o[k])
        /\ \A k \in 1..Len(o) : o[k] \in Name
    BY PathIs DEF Near
  <2>5. Cl(m[l]) = Cl(o[l])
    BY <2>2, <2>4, Cleaning
  <2>6. \A k \in 1..Len(o) : x[k] = o[k] \/ x[k] = Cl(o[k])
    BY <2>2, <2>3, <2>4, <2>5
  <2> QED
    BY <2>2, <2>4, <2>6 DEF Near
<1> QED
  BY <1>1, <1>2 DEF WasAt

\* t holds nodes of t0 only, each where its names may have led, and a node for
\* every path that t0 comes to have.
Comes(t0, t) ==
  /\ \A q \in DOMAIN t : \E p \in DOMAIN t0 : t[q].id = t0[p].id
  /\ \A q \in DOMAIN t, p \in DOMAIN t0 :
       t[q].id = t0[p].id => t[q].kind = t0[p].kind /\ Near(q, p)
  /\ \A p \in DOMAIN t0 : \E q \in DOMAIN t : CP(q) = CP(p)

LEMMA ComesAtFirst ==
  ASSUME NEW t, Tree(t)
  PROVE  Comes(t, t)
BY CleanedPath DEF Comes, Tree

LEMMA ShiftedComes ==
  ASSUME NEW t0, Tree(t0), NEW t, Tree(t), Comes(t0, t), NEW p \in Path, Len(p) >= 1,
         NEW r, Shifted(t, r, p, Cl(p[Len(p)]))
  PROVE  Comes(t0, r)
<1> DEFINE nm == Cl(p[Len(p)])
           new == Append(Dir(p), nm)
<1>0. nm \in Name
  BY PathIs, Cleaning
<1>1. ASSUME NEW x \in DOMAIN r
      PROVE  \E m \in DOMAIN t : r[x] = t[m] /\ WasAt(x, m, p, nm)
  BY <1>1, ShiftedFrom
<1>2. ASSUME NEW x \in DOMAIN r PROVE \E o \in DOMAIN t0 : r[x].id = t0[o].id
  BY <1>1, <1>2 DEF Comes
<1>3. ASSUME NEW x \in DOMAIN r, NEW o \in DOMAIN t0, r[x].id = t0[o].id
      PROVE  r[x].kind = t0[o].kind /\ Near(x, o)
  <2>1. PICK m \in DOMAIN t : r[x] = t[m] /\ WasAt(x, m, p, nm)
    BY <1>1
  <2>2. t[m].kind = t0[o].kind /\ Near(m, o) /\ m \in Path /\ o \in Path
    BY <1>3, <2>1 DEF Comes, Tree
  <2>3. Near(x, o)
    BY <2>1, <2>2, NearMoved
  <2> QED
    BY <2>1, <2>2, <2>3
<1>4. ASSUME NEW o \in DOMAIN t0 PROVE \E x \in DOMAIN r : CP(x) = CP(o)
  <2>1. PICK m \in DOMAIN t : CP(m) = CP(o)
    BY DEF Comes
  <2>2. m \in Path /\ p \in DOMAIN t
    BY DEF Tree, Shifted
  <2>3. CASE Under(p, m)
    <3> DEFINE x == Moved(m, p, new)
    <3>1. WasAt(x, m, p, nm)
      BY <2>3 DEF WasAt
    <3>2. x \in DOMAIN r
      BY <3>1, ShiftedTo
    <3>3. Near(x, m)
      BY <2>2, <3>1, NearMoved, CleanedPath
    <3>4. x \in Path
      BY <1>0, <2>2, <2>3, MovedIs
    <3> HIDE DEF x
    <3>5. CP(x) = CP(m)
      BY <2>2, <3>3, <3>4, NearSame
    <3> QED
      BY <2>1, <3>2, <3>5
  <2>4. CASE ~Under(p, m) /\ m # new
    <3>1. WasAt(m, m, p, nm)
      BY <2>4 DEF WasAt
    <3> QED
      BY <2>1, <3>1, ShiftedTo
  <2>5. CASE m = new
    <3>1. new = Moved(p, p, new) /\ Under(p, p)
      BY <1>0, NewIs, UnderSelf
    <3>2. WasAt(new, p, p, nm)
      BY <3>1 DEF WasAt
    <3>3. new \in DOMAIN r
      BY <2>2, <3>2, ShiftedTo
    <3> QED
      BY <2>1, <2>5, <3>3
  <2> QED
    BY <2>3, <2>4, <2>5
<1> QED
  BY <1>2, <1>3, <1>4 DEF Comes

\* The trees given are trees, with one path that has one name only.
LEMMA Given ==
  ASSUME NEW t \in Trees
  PROVE  Tree(t)
<1>1. IsFiniteSet(DOMAIN t) /\ DOMAIN t \subseteq Path
  BY RenameConsts DEF Path
<1>2. ASSUME NEW p \in DOMAIN t
      PROVE  /\ Len(p) >= 1 /\ t[p] \in Nodes
             /\ Len(p) > 1 => Dir(p) \in DOMAIN t /\ t[Dir(p)].kind = "dir"
             /\ t[p].kind \in {"dir", "link"} => t[p].text = << >>
             /\ \A q \in DOMAIN t : t[p].id = t[q].id => p = q
  <2>1. /\ p \in Seq(Name) /\ p # << >> /\ t[p] \in Nodes
        /\ Len(p) > 1 => Parent(p) \in DOMAIN t /\ t[Parent(p)].kind = "dir"
        /\ t[p].kind \in {"dir", "link"} => t[p].text = << >>
        /\ \A q \in DOMAIN t : t[p].id = t[q].id => p = q
    BY RenameConsts
  <2>2. Len(p) >= 1
    BY <2>1, EmptySeq
  <2>3. Parent(p) = Dir(p)
    BY DEF Parent, Dir
  <2> QED
    BY <2>1, <2>2, <2>3
<1> QED
  BY <1>1, <1>2 DEF Tree

LEMMA Root ==
  ASSUME tree0 \in Trees
  PROVE  /\ root \in DOMAIN tree0 /\ Len(root) = 1
         /\ \A p \in DOMAIN tree0 : Len(p) = 1 => p = root
<1>1. PICK r \in DOMAIN tree0 : \A p \in DOMAIN tree0 : Len(p) = 1 <=> p = r
  BY RenameConsts
<1>2. (CHOOSE p \in DOMAIN tree0 : Len(p) = 1) = r
  BY <1>1
<1>3. r \in Seq(Name) /\ Len(r) = 1
  BY <1>1, Given DEF Tree, Path
<1>4. <<r[1]>> = r
  <2>1. r[1] \in Name
    <3>1. 1 \in 1..Len(r)
      BY <1>3
    <3> QED
      BY <1>3, <3>1, ElementOfSeq
  <2>2. <<r[1]>> \in Seq(Name) /\ Len(<<r[1]>>) = 1 /\ <<r[1]>>[1] = r[1]
    BY <2>1
  <2>3. \A k \in 1..1 : <<r[1]>>[k] = r[k]
    BY <2>2
  <2> QED
    BY <1>3, <2>2, <2>3, SeqEqual
<1> QED
  BY <1>1, <1>2, <1>3, <1>4 DEF root

\* Walk passes over the whole tree, directories before what is in them.
LEMMA Walks ==
  ASSUME Tree(tree)
  PROVE  IF root \in DOMAIN tree THEN Lists(Walk, DOMAIN tree) ELSE Walk = <<root>>
<1>1. CASE root \in DOMAIN tree
  <2>1. Walk = [k \in 1..Cardinality(DOMAIN tree) |->
                  CHOOSE p \in DOMAIN tree : Cardinality(Earlier(DOMAIN tree, p)) = k - 1]
    BY <1>1 DEF Walk, Earlier
  <2>2. DOMAIN tree \in SUBSET Path /\ IsFiniteSet(DOMAIN tree)
    BY DEF Tree
  <2> QED
    BY <1>1, <2>1, <2>2, Enumerates
<1>2. CASE root \notin DOMAIN tree
  BY <1>2 DEF Walk
<1> QED
  BY <1>1, <1>2

\* The properties' Clean is Cl on all that the trees hold.
LEMMA CleanIs ==
  ASSUME tree0 \in Trees, NEW p \in DOMAIN tree0
  PROVE  /\ CleanPath(p) = CP(p)
         /\ \A k \in DOMAIN p : Clean(p[k]) = Cl(p[k])
         /\ Clean(tree0[p].text) = Cl(tree0[p].text)
<1> DEFINE Of(t, q) == {q[k] : k \in DOMAIN q} \union {t[q].text}
           In(t) == UNION {Of(t, q) : q \in DOMAIN t}
<1>1. Strings = UNION {In(t) : t \in Trees}
  BY DEF Strings
<1>2. Of(tree0, p) \subseteq In(tree0)
  OBVIOUS
<1> HIDE DEF In
<1>3. Of(tree0, p) \subseteq Strings
  BY <1>1, <1>2
<1>4. \A s \in Strings : Clean(s) = Cl(s)
  BY DEF Clean, Cleaned, Cl
<1>5. \A k \in DOMAIN p : Clean(p[k]) = Cl(p[k])
  BY <1>3, <1>4
<1>6. Clean(tree0[p].text) = Cl(tree0[p].text)
  BY <1>3, <1>4
<1> QED
  BY <1>5, <1>6 DEF CleanPath, CP

LEMMA ClashesAre ==
  ASSUME tree0 \in Trees, NEW p \in DOMAIN tree0
  PROVE  Clashes(p) = {q \in DOMAIN tree0 \ {p} : CP(q) = CP(p)}
<1>1. Clashes(p) = {q \in DOMAIN tree0 \ {p} : CleanPath(q) = CleanPath(p)}
  BY DEF Clashes, Clashing, ClashesOf
<1>2. \A q \in DOMAIN tree0 : CleanPath(q) = CP(q)
  BY CleanIs
<1> QED
  BY <1>1, <1>2

\* Without clashes no two paths of a later tree come to be the same either.
LEMMA NoClashLater ==
  ASSUME tree0 \in Trees, Comes(tree0, tree), Tree(tree), NoClash
  PROVE  /\ \A p, q \in DOMAIN tree0 : CP(p) = CP(q) => p = q
         /\ \A p, q \in DOMAIN tree : CP(p) = CP(q) => p = q
<1>1. ASSUME NEW p \in DOMAIN tree0, NEW q \in DOMAIN tree0, CP(p) = CP(q) PROVE p = q
  BY <1>1, ClashesAre DEF NoClash
<1>2. ASSUME NEW p \in DOMAIN tree, NEW q \in DOMAIN tree, CP(p) = CP(q) PROVE p = q
  <2>1. PICK m \in DOMAIN tree0 : tree[p].id = tree0[m].id
    BY DEF Comes
  <2>2. PICK o \in DOMAIN tree0 : tree[q].id = tree0[o].id
    BY DEF Comes
  <2>3. Near(p, m) /\ Near(q, o)
    BY <2>1, <2>2 DEF Comes
  <2>4. p \in Path /\ q \in Path /\ m \in Path /\ o \in Path
    BY Given DEF Tree
  <2>5. CP(m) = CP(o)
    BY <1>2, <2>3, <2>4, NearSame
  <2>6. m = o
    BY <1>1, <2>5
  <2> QED
    BY <2>1, <2>2, <2>6 DEF Tree
<1> QED
  BY <1>1, <1>2

\* In a plain tree the root stays, and no link is made.
LEMMA PlainLater ==
  ASSUME tree0 \in Trees, Comes(tree0, tree), Tree(tree), Plain
  PROVE  root \in DOMAIN tree /\ \A q \in DOMAIN tree : tree[q].kind # "link"
<1>1. root \in DOMAIN tree0 /\ Len(root) = 1 /\ \A p \in DOMAIN tree0 : Len(p) = 1 => p = root
  BY Root
<1>2. PICK q \in DOMAIN tree : CP(q) = CP(root)
  BY <1>1 DEF Comes
<1>3. PICK p \in DOMAIN tree0 : tree[q].id = tree0[p].id
  BY DEF Comes
<1>4. Near(q, p) /\ q \in Path /\ p \in Path /\ root \in Path
  BY <1>1, <1>3, Given DEF Comes, Tree
<1>5. Len(q) = 1
  BY <1>1, <1>2, <1>4, CleanedPath
<1>6. p = root
  BY <1>1, <1>4, <1>5 DEF Near
<1>7. Cl(root[1]) = root[1]
  <2>1. 1 \in DOMAIN root
    BY <1>1, <1>4, PathIs
  <2> QED
    BY <1>1, <2>1, CleanIs DEF Plain
<1>8. q = root
  <2>1. \A k \in 1..Len(q) : q[k] = root[k]
    BY <1>1, <1>4, <1>5, <1>6, <1>7 DEF Near
  <2> QED
    BY <1>1, <1>4, <1>5, <2>1, PathEqual
<1>9. ASSUME NEW x \in DOMAIN tree PROVE tree[x].kind # "link"
  <2>1. PICK o \in DOMAIN tree0 : tree[x].id = tree0[o].id
    BY DEF Comes
  <2> QED
    BY <2>1 DEF Comes, Plain
<1> QED
  BY <1>8, <1>9

\* A file whose text alone is changed.
RewritesAt(t, f, x, r) == r = [t EXCEPT ![f].text = x]

LEMMA Rewritten ==
  ASSUME NEW t, Tree(t), NEW f \in DOMAIN t, t[f].kind = "file", NEW x \in Name,
         NEW r, RewritesAt(t, f, x, r)
  PROVE  /\ DOMAIN r = DOMAIN t
         /\ \A q \in DOMAIN t :
              /\ r[q] \in Nodes /\ r[q].id = t[q].id /\ r[q].kind = t[q].kind
              /\ r[q].target = t[q].target
              /\ r[q].text = IF q = f THEN x ELSE t[q].text
         /\ Tree(r)
<1>1. DOMAIN r = DOMAIN t /\ r[f] = [t[f] EXCEPT !.text = x] /\ \A q \in DOMAIN t : q # f => r[q] = t[q]
  BY DEF RewritesAt
<1>2. \A q \in DOMAIN t : t[q] \in Nodes
  BY DEF Tree
<1>3. \A q \in DOMAIN t :
        /\ r[q] \in Nodes /\ r[q].id = t[q].id /\ r[q].kind = t[q].kind
        /\ r[q].target = t[q].target
        /\ r[q].text = IF q = f THEN x ELSE t[q].text
  <2>1. t[f] \in Nodes
    BY <1>2
  <2>2. /\ r[f] \in Nodes /\ r[f].id = t[f].id /\ r[f].kind = t[f].kind
        /\ r[f].target = t[f].target /\ r[f].text = x
    BY <1>1, <2>1 DEF Nodes
  <2> QED
    BY <1>1, <1>2, <2>2
<1>4. ASSUME NEW p \in DOMAIN r
      PROVE  /\ Len(p) >= 1 /\ r[p] \in Nodes
             /\ Len(p) > 1 => Dir(p) \in DOMAIN r /\ r[Dir(p)].kind = "dir"
             /\ r[p].kind \in {"dir", "link"} => r[p].text = << >>
             /\ \A q \in DOMAIN r : r[p].id = r[q].id => p = q
  <2>1. p \in DOMAIN t /\ (p = f => r[p].kind = "file")
    BY <1>1, <1>3
  <2>2. /\ Len(p) >= 1
        /\ Len(p) > 1 => Dir(p) \in DOMAIN t /\ t[Dir(p)].kind = "dir"
        /\ t[p].kind \in {"dir", "link"} => t[p].text = << >>
        /\ \A q \in DOMAIN t : t[p].id = t[q].id => p = q
    BY <2>1 DEF Tree
  <2> QED
    BY <1>1, <1>3, <2>1, <2>2
<1> QED
  BY <1>1, <1>3, <1>4 DEF Tree

-----------------------------------------------------------------------------
(***************************************************************************)
(* The inductive invariant.                                                *)
(***************************************************************************)
Types ==
  /\ tree0 \in Trees
  /\ pc \in {"stopped", "content", "truncate", "write", "names", "finished", "panic"}
  /\ paths \in Seq(Path) /\ i \in 0..Len(paths) + 1
  /\ lost \subseteq {tree0[p].id : p \in {q \in DOMAIN tree0 : tree0[q].kind = "file"}}
  /\ runs \in 0..MaxRuns

\* The file that is being written.
Being(q) == pc = "write" /\ q = Followed(paths[i])

\* A file has the text it had, or what that becomes, unless it was cut short.
Texts ==
  \A q \in DOMAIN tree, p \in DOMAIN tree0 : tree[q].id = tree0[p].id =>
    /\ tree[q].kind = "sealed" => tree[q].text = tree0[p].text
    /\ tree[q].kind = "file" =>
         IF tree[q].id \in lost \/ Being(q) THEN Begins(tree[q].text, Cl(tree0[p].text))
         ELSE tree[q].text \in {tree0[p].text, Cl(tree0[p].text)}

\* What was read of a file is what will be written to it.
Reading ==
  pc \in {"truncate", "write"} =>
    /\ i \in 1..Len(paths) /\ AtFile /\ src \in Name
    /\ \A p \in DOMAIN tree0 : tree[Followed(paths[i])].id = tree0[p].id =>
         IF tree[Followed(paths[i])].id \in lost THEN Begins(src, Cl(tree0[p].text))
         ELSE src = Cl(tree0[p].text)

\* The file at q has been rewritten, or cut short.
Done(q) ==
  tree[q].kind = "file" =>
    \A p \in DOMAIN tree0 : tree[q].id = tree0[p].id =>
      IF tree[q].id \in lost THEN Begins(tree[q].text, Cl(tree0[p].text))
      ELSE tree[q].text = Cl(tree0[p].text)

\* While contents are changed every path is listed, and those passed are done;
\* or there is nothing to list.
Walking ==
  pc \in {"content", "truncate", "write"} =>
    /\ i \in 1..Len(paths) + 1
    /\ \/ /\ Lists(paths, DOMAIN tree)
          /\ \A k \in 1..i - 1 : Done(paths[k]) \/ Being(paths[k])
       \/ paths = <<root>> /\ root \notin DOMAIN tree /\ i = 1 /\ pc = "content"

CleanName(q) == Cl(q[Len(q)]) = q[Len(q)]

\* While names are changed the paths to come are there, if no two names become
\* equal, and all other last names are clean.
Naming ==
  /\ pc = "names" =>
       /\ i \in 0..Len(paths)
       /\ \A j, k \in 1..Len(paths) : Under(paths[j], paths[k]) => j <= k
       /\ NoClash => /\ \A k \in 1..i : paths[k] \in DOMAIN tree
                     /\ \A q \in DOMAIN tree : CleanName(q) \/ \E k \in 1..i : q = paths[k]
  /\ pc = "finished" /\ NoClash => \A q \in DOMAIN tree : CleanName(q)
  /\ pc \in {"names", "finished"} => \A q \in DOMAIN tree : Done(q)

IInv ==
  /\ Types /\ Tree(tree) /\ Comes(tree0, tree)
  /\ Texts /\ Reading /\ Walking /\ Naming
  /\ (Plain => pc # "panic")

\* What is said of the first tree alone stays.
LEMMA Fixed ==
  ASSUME UNCHANGED tree0
  PROVE  (NoClash' <=> NoClash) /\ (Plain' <=> Plain) /\ root' = root
<1>1. root' = root
  BY DEF root
<1>2. \A p \in DOMAIN tree0 : Clashes(p)' = Clashes(p)
  BY DEF Clashes
<1>3. NoClash' <=> NoClash
  BY <1>2 DEF NoClash
<1>4. Plain' <=> Plain
  BY <1>1 DEF Plain
<1> QED
  BY <1>1, <1>3, <1>4

\* What is there when nothing is being written.
LEMMA NotBeing ==
  ASSUME pc # "write"
  PROVE  \A q : ~Being(q)
BY DEF Being

LEMMA InitHolds == Init => IInv
<1> SUFFICES ASSUME Init PROVE IInv
  OBVIOUS
<1>1. tree0 \in Trees /\ tree = tree0 /\ pc = "stopped" /\ paths = << >> /\ i = 0 /\ lost = {}
      /\ runs = 0
  BY DEF Init
<1>2. Types
  <2>1. << >> \in Seq(Path) /\ Len(<< >>) = 0
    BY EmptySeq
  <2> QED
    BY <1>1, <2>1, RenameConsts DEF Types
<1>3. Tree(tree)
  BY <1>1, Given
<1>4. Comes(tree0, tree)
  BY <1>1, <1>3, ComesAtFirst
<1>5. Texts
  <2> SUFFICES ASSUME NEW q \in DOMAIN tree, NEW p \in DOMAIN tree0, tree[q].id = tree0[p].id
               PROVE  /\ tree[q].kind = "sealed" => tree[q].text = tree0[p].text
                      /\ tree[q].kind = "file" =>
                           IF tree[q].id \in lost \/ Being(q) THEN Begins(tree[q].text, Cl(tree0[p].text))
                           ELSE tree[q].text \in {tree0[p].text, Cl(tree0[p].text)}
    BY DEF Texts
  <2>1. p = q
    BY <1>1, <1>3 DEF Tree
  <2> QED
    BY <1>1, <2>1, NotBeing
<1> QED
  BY <1>1, <1>2, <1>3, <1>4, <1>5 DEF IInv, Reading, Walking, Naming

\* The texts stay when nothing about them changes.
LEMMA TextsStay ==
  ASSUME Texts, UNCHANGED <<tree0, tree, lost>>, pc # "write", pc' # "write"
  PROVE  Texts'
<1>1. \A q : ~Being(q) /\ ~Being(q)'
  BY DEF Being
<1> QED
  BY <1>1 DEF Texts

LEMMA StartKeeps ==
  ASSUME IInv, Start
  PROVE  IInv'
<1>1. /\ pc \in {"stopped", "finished", "panic"} /\ runs < MaxRuns /\ runs' = runs + 1
      /\ paths' = Walk /\ i' = 1 /\ pc' = "content" /\ UNCHANGED <<tree0, tree, lost>>
  BY DEF Start
<1>2. Types /\ Tree(tree) /\ Comes(tree0, tree) /\ Texts
  BY DEF IInv
<1>3. IF root \in DOMAIN tree THEN Lists(Walk, DOMAIN tree) ELSE Walk = <<root>>
  BY <1>2, Walks
<1>4. root \in Path
  BY <1>2, Root, Given DEF Types, Tree
<1>5. /\ <<root>> \in Seq(Path) /\ Len(<<root>>) = 1
  BY <1>4
<1>6. Walk \in Seq(Path) /\ Len(Walk) \in Nat
  <2>1. Walk \in Seq(Path)
    BY <1>3, <1>5 DEF Lists
  <2> QED
    BY <2>1, LenProperties
<1>7. Types'
  <2>1. 1 \in 0..Len(Walk) + 1
    BY <1>6
  <2>2. runs' \in 0..MaxRuns
    BY <1>1, <1>2, RenameConsts DEF Types
  <2> QED
    BY <1>1, <1>2, <1>6, <2>1, <2>2 DEF Types
<1>8. Tree(tree)' /\ Comes(tree0, tree)' /\ Texts'
  BY <1>1, <1>2, TextsStay
<1>9. Reading' /\ Naming' /\ (Plain => pc # "panic")'
  BY <1>1 DEF Reading, Naming
<1>10. Walking'
  <2>1. 1 \in 1..Len(Walk) + 1 /\ 1..1 - 1 = {}
    BY <1>6
  <2>2. root' = root
    BY <1>1, Fixed
  <2>3. CASE root \in DOMAIN tree
    <3>1. Lists(paths', DOMAIN tree')
      BY <1>1, <1>3, <2>3
    <3> QED
      BY <1>1, <2>1, <3>1 DEF Walking
  <2>4. CASE root \notin DOMAIN tree
    BY <1>1, <1>3, <2>1, <2>2, <2>4 DEF Walking
  <2> QED
    BY <2>3, <2>4
<1> QED
  BY <1>7, <1>8, <1>9, <1>10 DEF IInv

\* A run that was passing over contents has the paths listed, when it is past one.
LEMMA Listing ==
  ASSUME Walking, pc \in {"content", "truncate", "write"}, Types,
         i > Len(paths) \/ Followed(paths[i]) \in DOMAIN tree
  PROVE  /\ i \in 1..Len(paths) + 1 /\ Len(paths) \in Nat
         /\ Lists(paths, DOMAIN tree)
         /\ \A k \in 1..i - 1 : Done(paths[k]) \/ Being(paths[k])
<1>1. Len(paths) \in Nat
  BY LenProperties DEF Types
<1>2. CASE paths = <<root>> /\ root \notin DOMAIN tree /\ i = 1
  <2>1. Len(paths) = 1 /\ paths[i] = root
    BY <1>2
  <2>2. Followed(paths[i]) = root
    BY <1>2, <2>1 DEF Followed
  <2> QED
    BY <1>1, <1>2, <2>1, <2>2
<1> QED
  BY <1>1, <1>2 DEF Walking

\* A node of the tree is one of the first tree's.
LEMMA FirstOf ==
  ASSUME Comes(tree0, tree), NEW q \in DOMAIN tree
  PROVE  \E p \in DOMAIN tree0 : tree[q].id = tree0[p].id /\ tree[q].kind = tree0[p].kind /\ Near(q, p)
BY DEF Comes

\* Rewriting a file leaves everything else as it was.
LEMMA RewrittenKeeps ==
  ASSUME IInv, pc \in {"truncate", "write"}, NEW x \in Name,
         tree' = [tree EXCEPT ![Followed(paths[i])].text = x], UNCHANGED <<tree0, paths>>
  PROVE  LET f == Followed(paths[i])
         IN  /\ f \in DOMAIN tree /\ tree[f].kind = "file"
             /\ DOMAIN tree' = DOMAIN tree /\ Tree(tree') /\ Comes(tree0', tree')
             /\ \A q \in DOMAIN tree :
                  /\ tree'[q].id = tree[q].id /\ tree'[q].kind = tree[q].kind
                  /\ tree'[q].text = IF q = f THEN x ELSE tree[q].text
             /\ i' = i => Followed(paths[i])' = f
<1> DEFINE f == Followed(paths[i])
<1>1. Tree(tree) /\ Comes(tree0, tree) /\ f \in DOMAIN tree /\ tree[f].kind = "file"
  BY DEF IInv, Reading, AtFile
<1>2. /\ DOMAIN tree' = DOMAIN tree
      /\ \A q \in DOMAIN tree :
           /\ tree'[q].id = tree[q].id /\ tree'[q].kind = tree[q].kind
           /\ tree'[q].target = tree[q].target
           /\ tree'[q].text = IF q = f THEN x ELSE tree[q].text
      /\ Tree(tree')
  <2>1. PICK g : g = f
    OBVIOUS
  <2>2. tree' = [tree EXCEPT ![g].text = x] /\ g \in DOMAIN tree /\ tree[g].kind = "file"
    BY <1>1, <2>1
  <2>3. /\ DOMAIN tree' = DOMAIN tree
        /\ \A q \in DOMAIN tree :
             /\ tree'[q] \in Nodes /\ tree'[q].id = tree[q].id /\ tree'[q].kind = tree[q].kind
             /\ tree'[q].target = tree[q].target
             /\ tree'[q].text = IF q = g THEN x ELSE tree[q].text
        /\ Tree(tree')
    <3>1. RewritesAt(tree, g, x, tree')
      BY <2>2 DEF RewritesAt
    <3> QED
      BY <1>1, <2>2, <3>1, Rewritten
  <2> QED
    BY <2>1, <2>3
<1>3. Comes(tree0', tree')
  BY <1>1, <1>2 DEF Comes
<1>4. i' = i => Followed(paths[i])' = f
  BY <1>2 DEF Followed
<1> QED
  BY <1>1, <1>2, <1>3, <1>4

\* A write cut short leaves the beginning of what the text should become.
LEMMA CutShortIs ==
  ASSUME IInv, pc = "write", CutShort, UNCHANGED <<tree0, paths>>
  PROVE  LET f == Followed(paths[i])
         IN  /\ f \in DOMAIN tree /\ tree[f].kind = "file" /\ lost' = lost \union {tree[f].id}
             /\ DOMAIN tree' = DOMAIN tree /\ Tree(tree') /\ Comes(tree0', tree')
             /\ \A q \in DOMAIN tree :
                  /\ tree'[q].id = tree[q].id /\ tree'[q].kind = tree[q].kind
                  /\ q # f => tree'[q].text = tree[q].text
             /\ \A p \in DOMAIN tree0 : tree[f].id = tree0[p].id =>
                  Begins(tree'[f].text, Cl(tree0[p].text))
<1> DEFINE f == Followed(paths[i])
<1>1. src \in Name /\ tree0 \in Trees
  BY DEF IInv, Reading, Types
<1>2. PICK k \in 0..Len(src) : tree' = [tree EXCEPT ![f].text = SubSeq(src, 1, k)]
  BY DEF CutShort
<1>3. PICK x : x = SubSeq(src, 1, k)
  OBVIOUS
<1>4. Begins(x, src) /\ x \in Name
  <2>1. Begins(x, src)
    BY <1>3 DEF Begins
  <2> QED
    BY <1>1, <2>1, Beginnings
<1>5. /\ f \in DOMAIN tree /\ tree[f].kind = "file"
      /\ DOMAIN tree' = DOMAIN tree /\ Tree(tree') /\ Comes(tree0', tree')
      /\ \A q \in DOMAIN tree :
           /\ tree'[q].id = tree[q].id /\ tree'[q].kind = tree[q].kind
           /\ tree'[q].text = IF q = f THEN x ELSE tree[q].text
  BY <1>2, <1>3, <1>4, RewrittenKeeps
<1>6. ASSUME NEW p \in DOMAIN tree0, tree[f].id = tree0[p].id
      PROVE  Begins(tree'[f].text, Cl(tree0[p].text))
  <2>1. tree0[p].text \in Name
    BY <1>1, Given DEF Tree, Nodes
  <2>2. PICK c \in Name : c = Cl(tree0[p].text)
    BY <2>1, Cleaning
  <2>3. Begins(src, c)
    <3>1. IF tree[f].id \in lost THEN Begins(src, c) ELSE src = c
      BY <1>6, <2>2 DEF IInv, Reading
    <3> QED
      BY <2>2, <3>1, Beginnings
  <2>4. Begins(x, c)
    BY <1>4, <2>2, <2>3, Beginnings
  <2> QED
    BY <1>5, <2>2, <2>4
<1>7. lost' = lost \union {tree[f].id}
  BY DEF CutShort
<1> QED
  BY <1>5, <1>6, <1>7

LEMMA StopKeeps ==
  ASSUME IInv, Stop
  PROVE  IInv'
<1> DEFINE f == Followed(paths[i])
<1>1. /\ pc \in {"content", "truncate", "write", "names"} /\ pc' = "stopped"
      /\ IF pc = "write" THEN CutShort ELSE UNCHANGED <<tree, lost>>
      /\ UNCHANGED <<tree0, paths, i, src, runs>>
  BY DEF Stop
<1>2. Types /\ Tree(tree) /\ Comes(tree0, tree) /\ Texts
  BY DEF IInv
<1>3. Reading' /\ Walking' /\ Naming' /\ (Plain => pc # "panic")'
  BY <1>1 DEF Reading, Walking, Naming
<1>4. \A q : ~Being(q)'
  BY <1>1 DEF Being
<1>5. CASE pc # "write"
  <2>1. UNCHANGED <<tree, lost>>
    BY <1>1, <1>5
  <2>2. Types' /\ Tree(tree)' /\ Comes(tree0, tree)'
    BY <1>1, <1>2, <2>1 DEF Types
  <2>3. Texts'
    BY <1>1, <1>2, <1>5, <2>1, TextsStay
  <2> QED
    BY <1>3, <2>2, <2>3 DEF IInv
<1>6. CASE pc = "write"
  <2>1. /\ f \in DOMAIN tree /\ tree[f].kind = "file" /\ lost' = lost \union {tree[f].id}
        /\ DOMAIN tree' = DOMAIN tree /\ Tree(tree') /\ Comes(tree0', tree')
        /\ \A q \in DOMAIN tree :
             /\ tree'[q].id = tree[q].id /\ tree'[q].kind = tree[q].kind
             /\ q # f => tree'[q].text = tree[q].text
        /\ \A p \in DOMAIN tree0 : tree[f].id = tree0[p].id =>
             Begins(tree'[f].text, Cl(tree0[p].text))
    BY <1>1, <1>6, CutShortIs
  <2>2. PICK p \in DOMAIN tree0 : tree[f].id = tree0[p].id /\ tree[f].kind = tree0[p].kind
    BY <1>2, <2>1, FirstOf
  <2>3. Types'
    BY <1>1, <1>2, <2>1, <2>2 DEF Types
  <2>4. Texts'
    <3> SUFFICES ASSUME NEW q \in DOMAIN tree, NEW o \in DOMAIN tree0, tree[q].id = tree0[o].id
                 PROVE  /\ tree'[q].kind = "sealed" => tree'[q].text = tree0[o].text
                        /\ tree'[q].kind = "file" =>
                             IF tree'[q].id \in lost' THEN Begins(tree'[q].text, Cl(tree0[o].text))
                             ELSE tree'[q].text \in {tree0[o].text, Cl(tree0[o].text)}
      BY <1>1, <1>4, <2>1 DEF Texts
    <3>1. CASE q = f
      BY <2>1, <3>1
    <3>2. CASE q # f
      <4>1. tree[q].id # tree[f].id /\ ~Being(q)
        BY <1>2, <2>1, <3>2 DEF Tree, Being
      <4>2. tree[q].id \in lost' <=> tree[q].id \in lost
        BY <2>1, <4>1
      <4> QED
        BY <1>2, <2>1, <3>2, <4>1, <4>2 DEF Texts
    <3> QED
      BY <3>1, <3>2
  <2> QED
    BY <1>1, <1>3, <2>1, <2>3, <2>4 DEF IInv
<1> QED
  BY <1>5, <1>6

LEMMA ReadFileKeeps ==
  ASSUME IInv, ReadFile
  PROVE  IInv'
<1> DEFINE f == Followed(paths[i])
<1>1. /\ pc = "content" /\ i <= Len(paths) /\ AtFile /\ pc' = "truncate"
      /\ UNCHANGED <<tree0, tree, paths, i, lost, runs>>
  BY DEF ReadFile
<1>2. Types /\ Tree(tree) /\ Comes(tree0, tree) /\ Texts /\ Walking
  BY DEF IInv
<1>3. f \in DOMAIN tree /\ tree[f].kind = "file"
  BY <1>1 DEF AtFile
<1>4. Types'
  BY <1>1, <1>2 DEF Types
<1>5. Tree(tree)' /\ Comes(tree0, tree)' /\ Naming' /\ (Plain => pc # "panic")'
  BY <1>1, <1>2 DEF Naming
<1>6. Texts'
  BY <1>1, <1>2, TextsStay
<1>7. tree[f].text \in Name /\ src' = Cl(tree[f].text)
  <2>1. tree[f] \in Nodes
    BY <1>2, <1>3 DEF Tree
  <2>2. tree[f].text \in Name
    BY <2>1 DEF Nodes
  <2>3. PICK ord \in Orders : src' = ReplaceAll(tree[f].text, ord)
    BY DEF ReadFile
  <2> QED
    BY <2>2, <2>3, Cleaning
<1>8. /\ i \in 1..Len(paths) + 1 /\ Len(paths) \in Nat
      /\ Lists(paths, DOMAIN tree)
      /\ \A k \in 1..i - 1 : Done(paths[k]) \/ Being(paths[k])
  BY <1>1, <1>2, <1>3, Listing
<1>9. Reading'
  <2>1. i \in 1..Len(paths)
    BY <1>1, <1>8
  <2>2. AtFile' /\ f' = f
    BY <1>1 DEF AtFile, Followed
  <2>3. src' \in Name
    BY <1>7, Cleaning
  <2>4. ASSUME NEW p \in DOMAIN tree0, tree[f].id = tree0[p].id
        PROVE  IF tree[f].id \in lost THEN Begins(src', Cl(tree0[p].text))
               ELSE src' = Cl(tree0[p].text)
    <3>1. tree0[p].text \in Name
      BY <1>2, Given DEF Types, Tree, Nodes
    <3>2. ~Being(f)
      BY <1>1, NotBeing
    <3>3. IF tree[f].id \in lost THEN Begins(tree[f].text, Cl(tree0[p].text))
          ELSE tree[f].text \in {tree0[p].text, Cl(tree0[p].text)}
      BY <1>2, <1>3, <2>4, <3>2 DEF Texts
    <3>4. ASSUME tree[f].id \in lost PROVE Cl(tree[f].text) = tree[f].text
      BY <3>1, <3>3, <3>4, BeginningClean
    <3>5. ASSUME tree[f].id \notin lost PROVE Cl(tree[f].text) = Cl(tree0[p].text)
      BY <3>1, <3>3, <3>5, Cleaning
    <3> QED
      BY <1>7, <3>3, <3>4, <3>5
  <2> QED
    BY <1>1, <2>1, <2>2, <2>3, <2>4 DEF Reading
<1>10. Walking'
  <2>1. \A k \in 1..i - 1 : Done(paths[k])
    BY <1>1, <1>8, NotBeing
  <2>2. \A k \in 1..i - 1 : Done(paths[k])'
    BY <1>1, <2>1 DEF Done
  <2> QED
    BY <1>1, <1>8, <2>2 DEF Walking
<1> QED
  BY <1>4, <1>5, <1>6, <1>9, <1>10 DEF IInv

\* A path at which nothing was done is not that of a file.
LEMMA PassedIsDone ==
  ASSUME NEW k \in 1..Len(paths), paths[k] \in DOMAIN tree, Followed(paths[k]) \in DOMAIN tree,
         tree[Followed(paths[k])].kind # "file"
  PROVE  Done(paths[k])
BY DEF Done, Followed

LEMMA SkipPathKeeps ==
  ASSUME IInv, SkipPath
  PROVE  IInv'
<1>1. /\ pc = "content" /\ i <= Len(paths) /\ ~AtFile /\ Followed(paths[i]) \in DOMAIN tree
      /\ i' = i + 1 /\ UNCHANGED <<tree0, tree, pc, paths, src, lost, runs>>
  BY DEF SkipPath
<1>2. Types /\ Tree(tree) /\ Comes(tree0, tree) /\ Texts /\ Walking
  BY DEF IInv
<1>3. /\ i \in 1..Len(paths) + 1 /\ Len(paths) \in Nat
      /\ Lists(paths, DOMAIN tree)
      /\ \A k \in 1..i - 1 : Done(paths[k]) \/ Being(paths[k])
  BY <1>1, <1>2, Listing
<1>4. i \in 1..Len(paths) /\ i + 1 \in 0..Len(paths) + 1 /\ i + 1 \in 1..Len(paths) + 1
  BY <1>1, <1>3
<1>5. Types'
  BY <1>1, <1>2, <1>4 DEF Types
<1>6. Tree(tree)' /\ Comes(tree0, tree)' /\ Reading' /\ Naming' /\ (Plain => pc # "panic")'
  BY <1>1, <1>2 DEF Reading, Naming
<1>7. Texts'
  BY <1>1, <1>2, TextsStay
<1>8. Walking'
  <2>1. paths[i] \in DOMAIN tree
    BY <1>3, <1>4 DEF Lists
  <2>2. Done(paths[i])
    BY <1>1, <1>4, <2>1, PassedIsDone DEF AtFile
  <2>3. \A k \in 1..(i + 1) - 1 : Done(paths[k])
    <3> TAKE k \in 1..(i + 1) - 1
    <3>1. k \in 1..i - 1 \/ k = i
      BY <1>4
    <3> QED
      BY <1>1, <1>3, <2>2, <3>1, NotBeing
  <2>4. \A k \in 1..i' - 1 : Done(paths[k])'
    BY <1>1, <2>3 DEF Done
  <2> QED
    BY <1>1, <1>3, <1>4, <2>4 DEF Walking
<1> QED
  BY <1>5, <1>6, <1>7, <1>8 DEF IInv

LEMMA PanicKeeps ==
  ASSUME IInv, Panic
  PROVE  IInv'
<1>1. /\ pc = "content" /\ i <= Len(paths) /\ Followed(paths[i]) \notin DOMAIN tree
      /\ pc' = "panic" /\ UNCHANGED <<tree0, tree, paths, i, src, lost, runs>>
  BY DEF Panic
<1>2. Types /\ Tree(tree) /\ Comes(tree0, tree) /\ Texts /\ Walking
  BY DEF IInv
<1>3. Types'
  BY <1>1, <1>2 DEF Types
<1>4. Tree(tree)' /\ Comes(tree0, tree)' /\ Reading' /\ Walking' /\ Naming'
  BY <1>1, <1>2 DEF Reading, Walking, Naming
<1>5. Texts'
  BY <1>1, <1>2, TextsStay
<1>6. ~Plain
  <2> SUFFICES ASSUME Plain PROVE FALSE
    OBVIOUS
  <2>1. root \in DOMAIN tree /\ \A q \in DOMAIN tree : tree[q].kind # "link"
    BY <1>2, PlainLater DEF Types
  <2>2. i \in 1..Len(paths)
    <3>1. i \in 1..Len(paths) + 1 /\ Len(paths) \in Nat
      BY <1>1, <1>2, LenProperties DEF Walking, Types
    <3> QED
      BY <1>1, <3>1
  <2>3. paths[i] \in DOMAIN tree
    BY <1>1, <1>2, <2>1, <2>2 DEF Walking, Lists
  <2>4. Followed(paths[i]) = paths[i]
    BY <2>1, <2>3 DEF Followed
  <2> QED
    BY <1>1, <2>3, <2>4
<1>7. (Plain => pc # "panic")'
  BY <1>1, <1>6, Fixed
<1> QED
  BY <1>3, <1>4, <1>5, <1>7 DEF IInv

LEMMA TruncateKeeps ==
  ASSUME IInv, Truncate
  PROVE  IInv'
<1> DEFINE f == Followed(paths[i])
<1>1. /\ pc = "truncate" /\ pc' = "write" /\ tree' = [tree EXCEPT ![f].text = << >>]
      /\ UNCHANGED <<tree0, paths, i, src, lost, runs>>
  BY DEF Truncate
<1>2. Types /\ Texts /\ Reading /\ Walking
  BY DEF IInv
<1>3. /\ f \in DOMAIN tree /\ tree[f].kind = "file"
      /\ DOMAIN tree' = DOMAIN tree /\ Tree(tree') /\ Comes(tree0', tree')
      /\ \A q \in DOMAIN tree :
           /\ tree'[q].id = tree[q].id /\ tree'[q].kind = tree[q].kind
           /\ tree'[q].text = IF q = f THEN << >> ELSE tree[q].text
      /\ Followed(paths[i])' = f
  <2>1. << >> \in Name
    BY EmptySeq DEF Name
  <2> QED
    BY <1>1, <2>1, RewrittenKeeps
<1>4. \A q : ~Being(q) /\ (Being(q)' <=> q = f)
  BY <1>1, <1>3 DEF Being
<1>5. Types'
  BY <1>1, <1>2 DEF Types
<1>6. Naming' /\ (Plain => pc # "panic")'
  BY <1>1 DEF Naming
<1>7. Texts'
  <2> SUFFICES ASSUME NEW q \in DOMAIN tree, NEW p \in DOMAIN tree0, tree[q].id = tree0[p].id
               PROVE  /\ tree'[q].kind = "sealed" => tree'[q].text = tree0[p].text
                      /\ tree'[q].kind = "file" =>
                           IF tree'[q].id \in lost \/ q = f THEN Begins(tree'[q].text, Cl(tree0[p].text))
                           ELSE tree'[q].text \in {tree0[p].text, Cl(tree0[p].text)}
    BY <1>1, <1>3, <1>4 DEF Texts
  <2>1. /\ tree[q].kind = "sealed" => tree[q].text = tree0[p].text
        /\ tree[q].kind = "file" =>
             IF tree[q].id \in lost THEN Begins(tree[q].text, Cl(tree0[p].text))
             ELSE tree[q].text \in {tree0[p].text, Cl(tree0[p].text)}
    BY <1>2, <1>4 DEF Texts
  <2>2. Begins(<< >>, Cl(tree0[p].text))
    <3>1. tree0[p].text \in Name
      BY <1>2, Given DEF Types, Tree, Nodes
    <3>2. Cl(tree0[p].text) \in Name
      BY <3>1, Cleaning
    <3> QED
      BY <3>2, Beginnings
  <2> QED
    BY <1>3, <2>1, <2>2
<1>8. Reading'
  <2>1. AtFile'
    BY <1>3 DEF AtFile
  <2>2. \A p \in DOMAIN tree0 : tree[f].id = tree0[p].id =>
          IF tree[f].id \in lost THEN Begins(src, Cl(tree0[p].text)) ELSE src = Cl(tree0[p].text)
    BY <1>1, <1>2 DEF Reading
  <2>3. i \in 1..Len(paths) /\ src \in Name
    BY <1>1, <1>2 DEF Reading
  <2>4. tree'[f].id = tree[f].id
    BY <1>3
  <2> QED
    BY <1>1, <1>3, <2>1, <2>2, <2>3, <2>4 DEF Reading
<1>9. Walking'
  <2>1. /\ i \in 1..Len(paths) + 1 /\ Lists(paths, DOMAIN tree)
        /\ \A k \in 1..i - 1 : Done(paths[k])
    BY <1>1, <1>2, <1>3, <1>4, Listing
  <2>2. ASSUME NEW k \in 1..i - 1 PROVE Done(paths[k])' \/ Being(paths[k])'
    <3>1. paths[k] \in DOMAIN tree
      <4>1. k \in 1..Len(paths)
        BY <1>2, <2>1, LenProperties DEF Types
      <4> QED
        BY <2>1, <4>1 DEF Lists
    <3>2. CASE paths[k] = f
      BY <1>1, <1>4, <3>2
    <3>3. CASE paths[k] # f
      <4>1. Done(paths[k])
        BY <2>1
      <4> QED
        BY <1>1, <1>3, <3>1, <3>3, <4>1 DEF Done
    <3> QED
      BY <3>2, <3>3
  <2> QED
    BY <1>1, <1>3, <2>1, <2>2 DEF Walking
<1> QED
  BY <1>3, <1>5, <1>6, <1>7, <1>8, <1>9 DEF IInv

LEMMA WriteFileKeeps ==
  ASSUME IInv, WriteFile
  PROVE  IInv'
<1> DEFINE f == Followed(paths[i])
<1>1. /\ pc = "write" /\ pc' = "content" /\ i' = i + 1
      /\ \/ tree' = [tree EXCEPT ![f].text = src] /\ UNCHANGED lost
         \/ CutShort
      /\ UNCHANGED <<tree0, paths, src, runs>>
  BY DEF WriteFile
<1>2. Types /\ Tree(tree) /\ Comes(tree0, tree) /\ Texts /\ Reading /\ Walking
  BY DEF IInv
<1>3. f \in DOMAIN tree /\ tree[f].kind = "file" /\ i \in 1..Len(paths) /\ src \in Name
  BY <1>1, <1>2 DEF Reading, AtFile
<1>4. /\ Len(paths) \in Nat /\ Lists(paths, DOMAIN tree)
      /\ \A k \in 1..i - 1 : Done(paths[k]) \/ Being(paths[k])
  BY <1>1, <1>2, <1>3, Listing
\* Either way the file has the text it should have, or its beginning.
<1>5. /\ DOMAIN tree' = DOMAIN tree /\ Tree(tree') /\ Comes(tree0', tree')
      /\ lost \subseteq lost' /\ lost' \subseteq lost \union {tree[f].id}
      /\ \A q \in DOMAIN tree :
           /\ tree'[q].id = tree[q].id /\ tree'[q].kind = tree[q].kind
           /\ q # f => tree'[q].text = tree[q].text
      /\ \A p \in DOMAIN tree0 : tree[f].id = tree0[p].id =>
           IF tree[f].id \in lost' THEN Begins(tree'[f].text, Cl(tree0[p].text))
           ELSE tree'[f].text = Cl(tree0[p].text)
  <2>1. CASE tree' = [tree EXCEPT ![f].text = src] /\ UNCHANGED lost
    <3>1. /\ DOMAIN tree' = DOMAIN tree /\ Tree(tree') /\ Comes(tree0', tree')
          /\ \A q \in DOMAIN tree :
               /\ tree'[q].id = tree[q].id /\ tree'[q].kind = tree[q].kind
               /\ tree'[q].text = IF q = f THEN src ELSE tree[q].text
      BY <1>1, <1>3, <2>1, RewrittenKeeps
    <3>2. \A p \in DOMAIN tree0 : tree[f].id = tree0[p].id =>
            IF tree[f].id \in lost THEN Begins(src, Cl(tree0[p].text)) ELSE src = Cl(tree0[p].text)
      BY <1>1, <1>2 DEF Reading
    <3>3. tree'[f].text = src /\ lost' = lost
      BY <1>3, <2>1, <3>1
    <3>4. \A p \in DOMAIN tree0 : tree[f].id = tree0[p].id =>
            IF tree[f].id \in lost' THEN Begins(tree'[f].text, Cl(tree0[p].text))
            ELSE tree'[f].text = Cl(tree0[p].text)
      BY Zenon, <3>2, <3>3
    <3> QED
      BY <1>3, <2>1, <3>1, <3>4
  <2>2. CASE CutShort
    BY <1>1, <2>2, CutShortIs
  <2> QED
    BY <1>1, <2>1, <2>2
<1>6. ASSUME NEW q \in DOMAIN tree PROVE (q = f <=> tree[q].id = tree[f].id)
  BY <1>2, <1>3 DEF Tree
<1>7. \A q : ~Being(q)' /\ (Being(q) <=> q = f)
  BY <1>1 DEF Being
<1>8. Types'
  <2>1. PICK p \in DOMAIN tree0 : tree[f].id = tree0[p].id /\ tree[f].kind = tree0[p].kind
    BY <1>2, <1>3, FirstOf
  <2>2. i + 1 \in 0..Len(paths) + 1
    BY <1>3, <1>4
  <2>3. lost' \subseteq {tree0[o].id : o \in {o \in DOMAIN tree0 : tree0[o].kind = "file"}}
    BY <1>2, <1>3, <1>5, <2>1 DEF Types
  <2> QED
    BY <1>1, <1>2, <2>2, <2>3 DEF Types
<1>9. Reading' /\ Naming' /\ (Plain => pc # "panic")'
  BY <1>1 DEF Reading, Naming
<1>10. Texts'
  <2> SUFFICES ASSUME NEW q \in DOMAIN tree, NEW p \in DOMAIN tree0, tree[q].id = tree0[p].id
               PROVE  /\ tree'[q].kind = "sealed" => tree'[q].text = tree0[p].text
                      /\ tree'[q].kind = "file" =>
                           IF tree'[q].id \in lost' THEN Begins(tree'[q].text, Cl(tree0[p].text))
                           ELSE tree'[q].text \in {tree0[p].text, Cl(tree0[p].text)}
    BY <1>1, <1>5, <1>7 DEF Texts
  <2>1. CASE q = f
    BY <1>3, <1>5, <2>1
  <2>2. CASE q # f
    <3>1. /\ tree[q].kind = "sealed" => tree[q].text = tree0[p].text
          /\ tree[q].kind = "file" =>
               IF tree[q].id \in lost THEN Begins(tree[q].text, Cl(tree0[p].text))
               ELSE tree[q].text \in {tree0[p].text, Cl(tree0[p].text)}
      BY <1>2, <1>7, <2>2 DEF Texts
    <3>2. tree[q].id \in lost' <=> tree[q].id \in lost
      BY <1>5, <1>6, <2>2
    <3> QED
      BY <1>5, <2>2, <3>1, <3>2
  <2> QED
    BY <2>1, <2>2
<1>11. Walking'
  <2>1. ASSUME NEW q, q = f PROVE Done(q)'
    BY <1>1, <1>3, <1>5, <2>1 DEF Done
  <2>2. ASSUME NEW q \in DOMAIN tree, q # f, Done(q) PROVE Done(q)'
    <3>1. tree[q].id \in lost' <=> tree[q].id \in lost
      BY <1>5, <1>6, <2>2
    <3> QED
      BY <1>1, <1>5, <2>2, <3>1 DEF Done
  <2>3. ASSUME NEW k \in 1..(i + 1) - 1 PROVE Done(paths[k])'
    <3>1. k \in 1..Len(paths) /\ (k \in 1..i - 1 \/ k = i)
      BY <1>3, <1>4
    <3>2. paths[k] \in DOMAIN tree
      BY <1>4, <3>1 DEF Lists
    <3>3. CASE paths[k] = f
      <4>1. PICK q : q = paths[k]
        OBVIOUS
      <4>2. Done(q)'
        BY <2>1, <3>3, <4>1
      <4> QED
        BY <1>1, <4>1, <4>2
    <3>4. CASE paths[k] # f /\ k \in 1..i - 1
      <4>1. Done(paths[k])
        BY <1>4, <1>7, <3>4
      <4>2. DEFINE q == paths[k]
      <4>3. Done(q)'
        BY <1>1, <2>2, <3>2, <3>4, <4>1
      <4> QED
        BY <1>1, <4>3
    <3>5. CASE paths[k] # f /\ k = i
      <4>1. tree[paths[k]].kind # "file"
        BY <3>2, <3>5 DEF Followed
      <4> QED
        BY <1>1, <1>5, <3>2, <4>1 DEF Done
    <3> QED
      BY <3>1, <3>3, <3>4, <3>5
  <2>4. i + 1 \in 1..Len(paths) + 1
    BY <1>3, <1>4
  <2> QED
    BY <1>1, <1>4, <1>5, <2>3, <2>4 DEF Walking
<1> QED
  BY <1>5, <1>8, <1>9, <1>10, <1>11 DEF IInv

LEMMA ContentDoneKeeps ==
  ASSUME IInv, ContentDone
  PROVE  IInv'
<1>1. /\ pc = "content" /\ i > Len(paths) /\ i' = Len(paths) /\ pc' = "names"
      /\ UNCHANGED <<tree0, tree, paths, src, lost, runs>>
  BY DEF ContentDone
<1>2. Types /\ Tree(tree) /\ Comes(tree0, tree) /\ Texts /\ Walking
  BY DEF IInv
<1>3. /\ i \in 1..Len(paths) + 1 /\ Len(paths) \in Nat
      /\ Lists(paths, DOMAIN tree)
      /\ \A k \in 1..i - 1 : Done(paths[k])
  <2>1. \A q : ~Being(q)
    BY <1>1, NotBeing
  <2> QED
    BY <1>1, <1>2, <2>1, Listing
<1>4. i - 1 = Len(paths)
  BY <1>1, <1>3
<1>5. Types'
  <2>1. Len(paths) \in 0..Len(paths) + 1
    BY <1>3
  <2> QED
    BY <1>1, <1>2, <2>1 DEF Types
<1>6. Tree(tree)' /\ Comes(tree0, tree)' /\ Reading' /\ Walking' /\ (Plain => pc # "panic")'
  BY <1>1, <1>2 DEF Reading, Walking
<1>7. Texts'
  BY <1>1, <1>2, TextsStay
<1>8. \A q \in DOMAIN tree : \E k \in 1..Len(paths) : q = paths[k]
  BY <1>3 DEF Lists
<1>9. Naming'
  <2>1. Len(paths) \in 0..Len(paths)
    BY <1>3
  <2>2. \A j, k \in 1..Len(paths) : Under(paths[j], paths[k]) => j <= k
    BY <1>3 DEF Lists
  <2>3. \A k \in 1..Len(paths) : paths[k] \in DOMAIN tree
    BY <1>3 DEF Lists
  <2>4. \A q \in DOMAIN tree : Done(q)
    BY <1>3, <1>4, <1>8
  <2>5. \A q \in DOMAIN tree' : Done(q)'
    BY <1>1, <2>4 DEF Done
  <2> QED
    BY <1>1, <1>8, <2>1, <2>2, <2>3, <2>5 DEF Naming
<1> QED
  BY <1>5, <1>6, <1>7, <1>9 DEF IInv

\* Without clashes a new name is free.
LEMMA NewIsFree ==
  ASSUME tree0 \in Trees, Tree(tree), Comes(tree0, tree), NoClash,
         NEW p \in DOMAIN tree, Cl(p[Len(p)]) # p[Len(p)]
  PROVE  Append(Dir(p), Cl(p[Len(p)])) \notin DOMAIN tree
<1> DEFINE nm == Cl(p[Len(p)])
           new == Append(Dir(p), nm)
<1>1. p \in Path /\ Len(p) >= 1 /\ Len(p) \in 1..Len(p) /\ nm \in Name
  <2>1. p \in Path /\ Len(p) >= 1
    BY DEF Tree
  <2>2. Len(p) \in 1..Len(p) /\ p[Len(p)] \in Name
    BY <2>1, PathIs
  <2> QED
    BY <2>1, <2>2, Cleaning
<1>2. new \in Path /\ new[Len(p)] = nm /\ new = Moved(p, p, new) /\ Under(p, p)
  BY <1>1, NewIs, UnderSelf
<1>3. WasAt(new, p, p, nm)
  BY <1>2 DEF WasAt
<1>4. Near(new, p)
  BY <1>1, <1>3, NearMoved, CleanedPath
<1>5. CP(new) = CP(p)
  BY <1>1, <1>2, <1>4, NearSame
<1>6. new # p
  BY <1>2
<1> QED
  BY <1>5, <1>6, NoClashLater

\* One turn of the loop over names: the tree stays, or the path gets its name.
LEMMA ModifyNameIs ==
  ASSUME IInv, ModifyName
  PROVE  LET p == paths[i]
         IN  /\ i \in 1..Len(paths) /\ p \in Path
             /\ \/ /\ tree' = tree
                   /\ NoClash => CleanName(p)
                \/ /\ Len(p) >= 1 /\ Cl(p[Len(p)]) # p[Len(p)]
                   /\ Shifted(tree, tree', p, Cl(p[Len(p)]))
<1> DEFINE p == paths[i]
<1>1. /\ Types /\ Tree(tree) /\ Comes(tree0, tree) /\ Naming
      /\ pc = "names" /\ i >= 1
  BY DEF IInv, ModifyName
<1>2. i \in 1..Len(paths) /\ paths \in Seq(Path)
  <2>1. i \in 0..Len(paths) /\ paths \in Seq(Path) /\ Len(paths) \in Nat
    BY <1>1, LenProperties DEF Naming, Types
  <2> QED
    BY <1>1, <2>1
<1>3. p \in Path
  BY <1>2, ElementOfSeq
<1>4. PICK ord \in Orders :
        LET newName == ReplaceAll(p[Len(p)], ord)
        IN  tree' = IF newName # p[Len(p)] THEN Renamed(p, Append(Dir(p), newName)) ELSE tree
  BY DEF ModifyName, Dir
<1>5. CASE p \notin DOMAIN tree
  <2>1. tree' = tree
    BY <1>4, <1>5 DEF Renamed
  <2>2. ~NoClash
    <3>1. i \in 1..i
      BY <1>2
    <3> QED
      BY <1>1, <1>5, <3>1 DEF Naming
  <2> QED
    BY <1>2, <1>3, <2>1, <2>2
<1>6. CASE p \in DOMAIN tree
  <2> DEFINE nm == Cl(p[Len(p)])
             new == Append(Dir(p), nm)
  <2>1. Len(p) >= 1 /\ p[Len(p)] \in Name /\ nm \in Name
    <3>1. Len(p) >= 1
      BY <1>1, <1>6 DEF Tree
    <3>2. Len(p) \in 1..Len(p)
      BY <1>3, <3>1, PathIs
    <3> QED
      BY <1>3, <3>1, <3>2, PathIs, Cleaning
  <2>2. ReplaceAll(p[Len(p)], ord) = nm
    BY <2>1, Cleaning
  <2>3. tree' = IF nm # p[Len(p)] THEN Renamed(p, new) ELSE tree
    BY <1>4, <2>2
  <2>4. CASE nm = p[Len(p)]
    BY <1>2, <1>3, <2>3, <2>4 DEF CleanName
  <2>5. CASE nm # p[Len(p)]
    <3>1. \/ Renamed(p, new) = tree /\ (p \notin DOMAIN tree \/ new \in DOMAIN tree)
          \/ Shifted(tree, Renamed(p, new), p, nm)
      BY <1>1, <1>3, <2>1, RenamedIs
    <3>2. NoClash => new \notin DOMAIN tree
      BY <1>1, <1>6, <2>5, NewIsFree DEF Types
    <3> QED
      BY <1>2, <1>3, <1>6, <2>1, <2>3, <2>5, <3>1, <3>2
  <2> QED
    BY <2>4, <2>5
<1> QED
  BY <1>5, <1>6

LEMMA ModifyNameKeeps ==
  ASSUME IInv, ModifyName
  PROVE  IInv'
<1>0. PICK p : p = paths[i]
  OBVIOUS
<1>1. /\ pc = "names" /\ i' = i - 1 /\ UNCHANGED <<tree0, pc, paths, src, lost, runs>>
  BY DEF ModifyName
<1>2. /\ Types /\ Tree(tree) /\ Comes(tree0, tree) /\ Texts /\ Naming
  BY DEF IInv
<1>3. i \in 1..Len(paths) /\ p \in Path /\ Len(paths) \in Nat
  BY <1>0, <1>2, ModifyNameIs, LenProperties DEF Types
<1>4. i - 1 \in 0..Len(paths) /\ i - 1 \in 0..Len(paths) + 1 /\ 1..i - 1 \subseteq 1..i
      /\ \A k \in 1..i : k # i => k \in 1..i - 1
  BY <1>3
<1>5. Types'
  BY <1>1, <1>2, <1>4 DEF Types
<1>6. Reading' /\ Walking' /\ (Plain => pc # "panic")'
  BY <1>1 DEF Reading, Walking
<1>7. \A q : ~Being(q) /\ ~Being(q)'
  BY <1>1 DEF Being
<1>8. (NoClash' <=> NoClash)
  BY <1>1, Fixed
<1>9. /\ \A j, k \in 1..Len(paths) : Under(paths[j], paths[k]) => j <= k
      /\ NoClash => /\ \A k \in 1..i : paths[k] \in DOMAIN tree
                    /\ \A q \in DOMAIN tree : CleanName(q) \/ \E k \in 1..i : q = paths[k]
      /\ \A q \in DOMAIN tree : Done(q)
  BY <1>1, <1>2 DEF Naming
<1>10. CASE tree' = tree /\ (NoClash => CleanName(p))
  <2>1. Tree(tree)' /\ Comes(tree0, tree)' /\ Texts'
    BY <1>1, <1>2, <1>10, TextsStay
  <2>2. NoClash => /\ \A k \in 1..i - 1 : paths[k] \in DOMAIN tree
                   /\ \A q \in DOMAIN tree : CleanName(q) \/ \E k \in 1..i - 1 : q = paths[k]
    BY <1>0, <1>4, <1>9, <1>10
  <2>3. \A q \in DOMAIN tree : Done(q)'
    BY <1>1, <1>9, <1>10 DEF Done
  <2>4. Naming'
    BY <1>1, <1>4, <1>8, <1>9, <1>10, <2>2, <2>3 DEF Naming
  <2> QED
    BY <1>5, <1>6, <2>1, <2>4 DEF IInv
<1>11. CASE /\ Len(p) >= 1 /\ Cl(p[Len(p)]) # p[Len(p)]
            /\ Shifted(tree, tree', p, Cl(p[Len(p)]))
  <2> DEFINE nm == Cl(p[Len(p)])
             new == Append(Dir(p), nm)
  <2>0. nm \in Name /\ Len(p) \in Nat /\ p[Len(p)] \in Name
    <3>1. Len(p) \in 1..Len(p)
      BY <1>3, <1>11, PathIs
    <3> QED
      BY <1>3, <3>1, PathIs, Cleaning
  <2>1. Tree(tree')
    BY <1>2, <1>3, <1>11, <2>0, ShiftedTree
  <2>2. Comes(tree0', tree')
    BY <1>1, <1>2, <1>3, <1>11, Given, ShiftedComes DEF Types
  <2>3. ASSUME NEW x \in DOMAIN tree'
        PROVE  \E m \in DOMAIN tree : tree'[x] = tree[m] /\ WasAt(x, m, p, nm)
    BY <1>11, <2>3, ShiftedFrom
  <2>4. Texts'
    <3> SUFFICES ASSUME NEW x \in DOMAIN tree', NEW o \in DOMAIN tree0, tree'[x].id = tree0[o].id
                 PROVE  /\ tree'[x].kind = "sealed" => tree'[x].text = tree0[o].text
                        /\ tree'[x].kind = "file" =>
                             IF tree'[x].id \in lost THEN Begins(tree'[x].text, Cl(tree0[o].text))
                             ELSE tree'[x].text \in {tree0[o].text, Cl(tree0[o].text)}
      BY <1>1, <1>7 DEF Texts
    <3>1. PICK m \in DOMAIN tree : tree'[x] = tree[m]
      BY <2>3
    <3> QED
      BY <1>2, <1>7, <3>1 DEF Texts
  <2>5. \A x \in DOMAIN tree' : Done(x)'
    <3> TAKE x \in DOMAIN tree'
    <3>1. PICK m \in DOMAIN tree : tree'[x] = tree[m]
      BY <2>3
    <3>2. Done(m)
      BY <1>9
    <3> QED
      BY <1>1, <3>1, <3>2 DEF Done
  <2>6. ASSUME NoClash, NEW k \in 1..i - 1 PROVE paths[k] \in DOMAIN tree'
    <3>1. k \in 1..i /\ k \in 1..Len(paths) /\ ~(i <= k)
      BY <1>3, <2>6
    <3>2. paths[k] \in DOMAIN tree /\ ~Under(p, paths[k])
      BY <1>0, <1>3, <1>9, <2>6, <3>1
    <3>3. p \in DOMAIN tree
      BY <1>11 DEF Shifted
    <3>4. new \notin DOMAIN tree
      BY <1>2, <1>11, <2>6, <3>3, NewIsFree DEF Types
    <3>5. paths[k] # new
      BY <3>2, <3>4
    <3>6. WasAt(paths[k], paths[k], p, nm)
      BY <3>2, <3>5 DEF WasAt
    <3> QED
      BY <1>11, <3>2, <3>6, ShiftedTo
  <2>7. ASSUME NoClash, NEW x \in DOMAIN tree', ~CleanName(x)
        PROVE  \E k \in 1..i - 1 : x = paths[k]
    <3>1. PICK m \in DOMAIN tree : WasAt(x, m, p, nm)
      BY <2>3
    <3>2. m \in Path /\ (CleanName(m) \/ \E k \in 1..i : m = paths[k])
      BY <1>2, <1>9, <2>7 DEF Tree
    <3>3. ASSUME Under(p, m), m # p PROVE CleanName(m)
      <4>1. ASSUME NEW k \in 1..i, m = paths[k] PROVE FALSE
        <5>1. k \in 1..Len(paths)
          BY <1>3, <4>1
        <5>2. i <= k
          BY <1>0, <1>3, <1>9, <3>3, <4>1, <5>1
        <5>3. k = i
          BY <1>3, <4>1, <5>2
        <5> QED
          BY <1>0, <3>3, <4>1, <5>3
      <4> QED
        BY <3>2, <4>1
    <3>4. CASE Under(p, m) /\ x = Moved(m, p, new)
      <4>1. /\ Len(x) = Len(m) /\ Len(p) \in 1..Len(m) /\ x[Len(p)] = nm
            /\ \A k \in 1..Len(m) : k # Len(p) => x[k] = m[k]
        BY <1>3, <1>11, <2>0, <3>2, <3>4, MovedIs
      <4>2. CASE m = p
        <5>1. x[Len(x)] = nm
          BY <4>1, <4>2
        <5>2. Cl(nm) = nm
          BY <2>0, Cleaning
        <5> QED
          BY <2>7, <5>1, <5>2 DEF CleanName
      <4>3. CASE m # p
        <5>1. CleanName(m) /\ Len(p) < Len(m)
          BY <1>3, <3>2, <3>3, <3>4, <4>3, UnderIs
        <5>2. Len(m) \in 1..Len(m) /\ Len(m) # Len(p)
          BY <3>2, <4>1, <5>1, PathIs
        <5>3. x[Len(x)] = m[Len(m)]
          BY <4>1, <5>2
        <5> QED
          BY <2>7, <4>1, <5>1, <5>3 DEF CleanName
      <4> QED
        BY <4>2, <4>3
    <3>5. CASE x = m /\ ~Under(p, m)
      <4>1. PICK k \in 1..i : m = paths[k]
        BY <2>7, <3>2, <3>5
      <4>2. k # i
        BY <1>0, <1>3, <3>5, <4>1, UnderSelf
      <4> QED
        BY <1>4, <3>5, <4>1, <4>2
    <3> QED
      BY <3>1, <3>4, <3>5 DEF WasAt
  <2>8. Naming'
    <3>1. \A x : CleanName(x)' <=> CleanName(x)
      BY DEF CleanName
    <3> QED
      BY <1>1, <1>4, <1>8, <1>9, <2>5, <2>6, <2>7, <3>1 DEF Naming
  <2> QED
    BY <1>5, <1>6, <2>1, <2>2, <2>4, <2>8 DEF IInv
<1> QED
  BY <1>0, <1>10, <1>11, ModifyNameIs

LEMMA FinishKeeps ==
  ASSUME IInv, Finish
  PROVE  IInv'
<1>1. /\ pc = "names" /\ i = 0 /\ pc' = "finished"
      /\ UNCHANGED <<tree0, tree, paths, i, src, lost, runs>>
  BY DEF Finish
<1>2. Types /\ Tree(tree) /\ Comes(tree0, tree) /\ Texts /\ Naming
  BY DEF IInv
<1>3. Types'
  BY <1>1, <1>2 DEF Types
<1>4. Tree(tree)' /\ Comes(tree0, tree)' /\ Reading' /\ Walking' /\ (Plain => pc # "panic")'
  BY <1>1, <1>2 DEF Reading, Walking
<1>5. Texts'
  BY <1>1, <1>2, TextsStay
<1>6. Naming'
  <2>1. 1..i = {} /\ (NoClash' <=> NoClash)
    BY <1>1, Fixed
  <2>2. NoClash => \A q \in DOMAIN tree : CleanName(q)
    BY <1>1, <1>2, <2>1 DEF Naming
  <2>3. \A q \in DOMAIN tree : CleanName(q)' <=> CleanName(q)
    BY DEF CleanName
  <2>4. \A q \in DOMAIN tree : Done(q)'
    BY <1>1, <1>2 DEF Naming, Done
  <2> QED
    BY <1>1, <2>1, <2>2, <2>3, <2>4 DEF Naming
<1> QED
  BY <1>3, <1>4, <1>5, <1>6 DEF IInv

LEMMA StutterKeeps ==
  ASSUME IInv, UNCHANGED vars
  PROVE  IInv'
<1>1. UNCHANGED <<tree0, tree, pc, paths, i, src, lost, runs>>
  BY DEF vars
<1>2. Types' /\ Tree(tree') /\ Comes(tree0', tree')
  BY <1>1 DEF IInv, Types
<1>3. \A q : (Being(q)' <=> Being(q)) /\ (Done(q)' <=> Done(q)) /\ (CleanName(q)' <=> CleanName(q))
  BY <1>1 DEF Being, Done, CleanName, Followed
<1>4. (NoClash' <=> NoClash) /\ (Plain' <=> Plain) /\ root' = root
  BY <1>1, Fixed
<1>5. Texts'
  BY <1>1, <1>3 DEF IInv, Texts
<1>6. Reading'
  BY <1>1 DEF IInv, Reading, AtFile, Followed
<1>7. Walking'
  BY <1>1, <1>3, <1>4 DEF IInv, Walking
<1>8. Naming' /\ (Plain => pc # "panic")'
  BY <1>1, <1>3, <1>4 DEF IInv, Naming
<1> QED
  BY <1>2, <1>5, <1>6, <1>7, <1>8 DEF IInv

\* The invariant holds of every state the tool can get the tree into.
THEOREM Inductive == Spec => []IInv
<1>1. IInv /\ [Next]_vars => IInv'
  BY StartKeeps, StopKeeps, ReadFileKeeps, SkipPathKeeps, PanicKeeps, TruncateKeeps,
     WriteFileKeeps, ContentDoneKeeps, ModifyNameKeeps, FinishKeeps, StutterKeeps DEF Next
<1> QED
  BY <1>1, InitHolds, PTL DEF Spec

-----------------------------------------------------------------------------
(***************************************************************************)
(* The state is of its types: every path of the tree but the first is in a *)
(* path of the tree, whatever os.Rename replaced or moved, and what is     *)
(* being rewritten is a file.                                              *)
(***************************************************************************)
THEOREM TypeCorrect == Spec => []TypeOK
<1>1. IInv => TypeOK
  <2> SUFFICES ASSUME IInv PROVE TypeOK
    OBVIOUS
  <2>1. Types /\ Tree(tree) /\ Reading
    BY DEF IInv
  <2>2. ASSUME NEW p \in DOMAIN tree
        PROVE  tree[p].kind \in Kinds /\ (Len(p) > 1 => SubSeq(p, 1, Len(p) - 1) \in DOMAIN tree)
    BY <2>1 DEF Tree, Nodes, Dir
  <2>3. lost \subseteq {tree0[p].id : p \in DOMAIN tree0}
    BY <2>1 DEF Types
  <2> QED
    BY <2>1, <2>2, <2>3 DEF TypeOK, Types, Reading
<1> QED
  BY <1>1, Inductive, PTL

(***************************************************************************)
(* For any tree no two of whose paths become equal, every path still to be *)
(* renamed is there (modifyFileName), in whatever state earlier runs were  *)
(* stopped.                                                                *)
(***************************************************************************)
THEOREM PendingPathsAlwaysExist == Spec => []PendingPathsExist
<1>1. IInv => PendingPathsExist
  BY DEF IInv, Naming, PendingPathsExist
<1> QED
  BY <1>1, Inductive, PTL

(***************************************************************************)
(* In any tree without links, whose own name stays, modifyFileContent is   *)
(* never called with a path that Stat does not find.                       *)
(***************************************************************************)
THEOREM PlainTreesAlwaysFinish == Spec => []PlainTreesFinish
<1>1. IInv => PlainTreesFinish
  BY DEF IInv, PlainTreesFinish
<1> QED
  BY <1>1, Inductive, PTL

\* Where all last names are clean all names are.
LEMMA AllClean ==
  ASSUME Tree(tree), \A q \in DOMAIN tree : CleanName(q), NEW q \in DOMAIN tree
  PROVE  CP(q) = q
<1>1. q \in Path /\ Len(q) \in Nat
  BY PathIs DEF Tree
<1>2. ASSUME NEW k \in 1..Len(q) PROVE Cl(q[k]) = q[k]
  <2>1. PICK b : b = SubSeq(q, 1, k)
    OBVIOUS
  <2>2. b \in Path /\ Len(b) = k /\ \A j \in 1..k : b[j] = q[j]
    <3>1. q \in Seq(Name) /\ k \in 0..Len(q)
      BY <1>1 DEF Path
    <3> QED
      BY <2>1, <3>1, Prefix DEF Path
  <2>3. Under(b, q) /\ Len(b) >= 1
    <3>1. Len(b) <= Len(q) /\ Len(b) >= 1
      BY <1>1, <2>2
    <3> QED
      BY <1>1, <2>2, <3>1, UnderIs DEF Same
  <2>4. b \in DOMAIN tree
    BY <2>2, <2>3, Closed
  <2>5. Cl(b[k]) = b[k]
    BY <2>2, <2>4 DEF CleanName
  <2>6. k \in 1..k
    OBVIOUS
  <2> QED
    BY <2>2, <2>5, <2>6
<1>3. CP(q) \in Path /\ Len(CP(q)) = Len(q) /\ \A k \in 1..Len(q) : CP(q)[k] = q[k]
  BY <1>1, <1>2, CleanedPath
<1> QED
  BY <1>1, <1>3, PathEqual

(***************************************************************************)
(* Whatever the tree, the order of nameMap at each file and name, and the  *)
(* runs stopped before, a run that finishes leaves what the replacements   *)
(* describe, but for the end of a text whose writing was cut short, if no  *)
(* two paths become equal (main).                                          *)
(***************************************************************************)
THEOREM AlwaysFinishedAsDescribed == Spec => []FinishedAsDescribed
<1>1. IInv => FinishedAsDescribed
  <2> SUFFICES ASSUME IInv, pc = "finished", NoClash
               PROVE  /\ DOMAIN tree = {CleanPath(p) : p \in DOMAIN tree0}
                      /\ \A p \in DOMAIN tree0 :
                           LET n == tree[CleanPath(p)] IN
                             /\ n.id = tree0[p].id /\ n.kind = tree0[p].kind
                             /\ CASE n.kind = "sealed" -> n.text = tree0[p].text
                                  [] n.id \in lost -> Begins(n.text, Clean(tree0[p].text))
                                  [] OTHER -> n.text = Clean(tree0[p].text)
    BY DEF FinishedAsDescribed
  <2>1. Types /\ Tree(tree) /\ Comes(tree0, tree) /\ Texts /\ Naming /\ Tree(tree0)
    BY Given DEF IInv, Types
  <2>2. \A q \in DOMAIN tree : CP(q) = q /\ Done(q)
    BY <2>1, AllClean DEF Naming
  <2>3. \A p \in DOMAIN tree0 : CleanPath(p) = CP(p) /\ Clean(tree0[p].text) = Cl(tree0[p].text)
    BY <2>1, CleanIs DEF Types
  <2>4. ASSUME NEW q \in DOMAIN tree PROVE \E p \in DOMAIN tree0 : q = CP(p)
    <3>1. PICK p \in DOMAIN tree0 : Near(q, p)
      BY <2>1, FirstOf
    <3>2. CP(q) = CP(p)
      BY <2>1, <3>1, NearSame DEF Tree
    <3> QED
      BY <2>2, <3>2
  <2>5. ASSUME NEW p \in DOMAIN tree0 PROVE CP(p) \in DOMAIN tree
    <3>1. PICK q \in DOMAIN tree : CP(q) = CP(p)
      BY <2>1 DEF Comes
    <3> QED
      BY <2>2, <3>1
  <2>6. DOMAIN tree = {CleanPath(p) : p \in DOMAIN tree0}
    BY <2>3, <2>4, <2>5
  <2>7. ASSUME NEW p \in DOMAIN tree0
        PROVE  LET n == tree[CP(p)] IN
                 /\ n.id = tree0[p].id /\ n.kind = tree0[p].kind
                 /\ CASE n.kind = "sealed" -> n.text = tree0[p].text
                      [] n.id \in lost -> Begins(n.text, Cl(tree0[p].text))
                      [] OTHER -> n.text = Cl(tree0[p].text)
    <3>1. PICK q \in DOMAIN tree : q = CP(p)
      BY <2>5
    <3>2. PICK o \in DOMAIN tree0 : tree[q].id = tree0[o].id /\ tree[q].kind = tree0[o].kind /\ Near(q, o)
      BY <2>1, FirstOf
    <3>3. o = p
      <4>1. CP(q) = CP(o)
        BY <2>1, <3>2, NearSame DEF Tree
      <4>2. CP(q) = CP(p)
        BY <2>1, <3>1, CleanedPath DEF Tree
      <4> QED
        BY <2>1, <4>1, <4>2, NoClashLater DEF Types
    <3>4. tree[q].kind # "file" => tree[q].id \notin lost
      <4> SUFFICES ASSUME tree[q].id \in lost PROVE tree[q].kind = "file"
        OBVIOUS
      <4>1. PICK p1 \in DOMAIN tree0 : tree0[p1].kind = "file" /\ tree[q].id = tree0[p1].id
        BY <2>1 DEF Types
      <4>2. p1 = p
        BY <2>1, <3>2, <3>3, <4>1 DEF Tree
      <4> QED
        BY <3>2, <3>3, <4>1, <4>2
    <3>5. tree[q].kind \in Kinds /\ tree[q] \in Nodes
      BY <2>1 DEF Tree, Nodes
    <3>6. CASE tree[q].kind = "sealed"
      <4>1. tree[q].text = tree0[p].text
        BY <2>1, <3>2, <3>3, <3>6 DEF Texts
      <4> QED
        BY <3>1, <3>2, <3>3, <3>4, <3>6, <4>1
    <3>7. CASE tree[q].kind = "file"
      <4>1. IF tree[q].id \in lost THEN Begins(tree[q].text, Cl(tree0[p].text))
            ELSE tree[q].text = Cl(tree0[p].text)
        BY <2>2, <3>2, <3>3, <3>7 DEF Done
      <4> QED
        BY <3>1, <3>2, <3>3, <3>7, <4>1
    <3>8. CASE tree[q].kind \in {"dir", "link"}
      <4>1. tree[q].text = << >> /\ tree0[p].text = << >> /\ tree[q].id \notin lost
        BY <2>1, <3>2, <3>3, <3>4, <3>8 DEF Tree
      <4> QED
        BY <3>1, <3>2, <3>3, <3>8, <4>1, Cleaning
    <3> QED
      BY <3>5, <3>6, <3>7, <3>8 DEF Kinds
  <2> QED
    BY <2>3, <2>6, <2>7
<1> QED
  BY <1>1, Inductive, PTL

(***************************************************************************)
(* In every state, whatever runs were stopped where: a node goes only if   *)
(* another becomes equal to it and is kept (os.Rename), and of a text only *)
(* the end, if its writing was cut short (WriteFile).                      *)
(***************************************************************************)
THEOREM NothingElseIsEverLost == Spec => []NothingElseLost
<1>1. IInv => NothingElseLost
  <2> SUFFICES ASSUME IInv, NEW p \in DOMAIN tree0
               PROVE  LET id == tree0[p].id IN
                        /\ id \in Ids \/ \E q \in Clashes(p) : tree0[q].id \in Ids
                        /\ id \in Ids =>
                             \/ tree[PathOf(id)].text \in {tree0[p].text, Clean(tree0[p].text)}
                             \/ /\ Begins(tree[PathOf(id)].text, Clean(tree0[p].text))
                                /\ id \in lost \/ (pc = "write" /\ PathOf(id) = Followed(paths[i]))
    BY DEF NothingElseLost
  <2> DEFINE id == tree0[p].id
  <2>1. Types /\ Tree(tree) /\ Comes(tree0, tree) /\ Texts /\ Tree(tree0)
    BY Given DEF IInv, Types
  <2>2. id \in Ids \/ \E q \in Clashes(p) : tree0[q].id \in Ids
    <3>1. PICK q \in DOMAIN tree : CP(q) = CP(p)
      BY <2>1 DEF Comes
    <3>2. PICK o \in DOMAIN tree0 : tree[q].id = tree0[o].id /\ Near(q, o)
      BY <2>1, FirstOf
    <3>3. CP(o) = CP(p)
      BY <2>1, <3>1, <3>2, NearSame DEF Tree
    <3>4. o = p \/ o \in Clashes(p)
      BY <2>1, <3>3, ClashesAre DEF Types
    <3>5. tree0[o].id \in Ids
      BY <3>2 DEF Ids
    <3> QED
      BY <3>4, <3>5
  <2>3. ASSUME id \in Ids
        PROVE  \/ tree[PathOf(id)].text \in {tree0[p].text, Clean(tree0[p].text)}
               \/ /\ Begins(tree[PathOf(id)].text, Clean(tree0[p].text))
                  /\ id \in lost \/ (pc = "write" /\ PathOf(id) = Followed(paths[i]))
    <3>1. PICK q : q = PathOf(id)
      OBVIOUS
    <3>2. q \in DOMAIN tree /\ tree[q].id = tree0[p].id
      BY <2>3, <3>1 DEF Ids, PathOf
    <3>3. tree[q].kind = tree0[p].kind /\ tree[q].kind \in Kinds /\ tree0[p].text \in Name
      BY <2>1, <3>2 DEF Comes, Tree, Nodes
    <3>4. Clean(tree0[p].text) = Cl(tree0[p].text)
      BY <2>1, CleanIs DEF Types
    <3>5. CASE tree[q].kind = "sealed"
      BY <2>1, <3>1, <3>2, <3>5 DEF Texts
    <3>6. CASE tree[q].kind = "file"
      BY <2>1, <3>1, <3>2, <3>4, <3>6 DEF Texts, Being
    <3>7. CASE tree[q].kind \in {"dir", "link"}
      <4>1. tree[q].text = << >> /\ tree0[p].text = << >>
        BY <2>1, <3>2, <3>3, <3>7 DEF Tree
      <4> QED
        BY <3>1, <4>1
    <3> QED
      BY <3>3, <3>5, <3>6, <3>7 DEF Kinds
  <2> QED
    BY <2>2, <2>3
<1> QED
  BY <1>1, Inductive, PTL
=============================================================================

---------------------------- MODULE ToolsProofs -----------------------------
(***************************************************************************)
(* Theorems about the text tools: a name that nameToString prints is packed *)
(* again by stringToName, a string that stringToName packs loses only what no *)
(* name can hold, and a key that uoskey prints is read back, for any number of *)
(* symbols and for any bases, hashes and curve the modules' assumptions admit. *)
(*                                                                         *)
(* The tools are loops, modelled by recursive functions.  Each has a lemma *)
(* that such a function exists and what its equations are, by induction    *)
(* written out as a least counterexample (Loop, Descent), and is known     *)
(* afterwards by its equations only.  The numerals come first (digits in a *)
(* base, bits of a number), then base 58 and the keys, then the names.     *)
(***************************************************************************)
EXTENDS Tools, SequenceTheorems, WellFoundedInduction, TLAPS

-----------------------------------------------------------------------------
(* Induction and loops. *)

\* A set of natural numbers that is not empty has a least element.
LEMMA LeastOf ==
  ASSUME NEW S \in SUBSET Nat, S # {}
  PROVE  \E m \in S : \A k \in S : m <= k
<1> DEFINE R == OpToRel(<, Nat)
<1>1. IsWellFoundedOn(R, Nat)
  BY NatLessThanWellFounded
<1>2. \A x, y \in Nat : x < y => <<x, y>> \in R
  BY DEF OpToRel
<1> HIDE DEF R
<1>3. PICK m \in S : \A k \in S : ~(<<k, m>> \in R)
  BY <1>1, WFMin
<1>4. ASSUME NEW k \in S PROVE m <= k
  <2>1. ~(k < m)
    BY <1>2, <1>3
  <2> QED
    BY <2>1
<1> QED
  BY <1>4

\* What holds of a number whenever it holds of all smaller ones holds of all.
LEMMA Descent ==
  ASSUME NEW T, \A n \in Nat : (\A k \in 0..n - 1 : k \in T) => n \in T
  PROVE  \A n \in Nat : n \in T
<1> DEFINE S == {n \in Nat : n \notin T}
<1> SUFFICES ASSUME S # {} PROVE FALSE
  OBVIOUS
<1>1. PICK m \in S : \A k \in S : m <= k
  <2>1. S \in SUBSET Nat
    OBVIOUS
  <2> QED
    BY <2>1, LeastOf
<1>2. ASSUME NEW k \in 0..m - 1 PROVE k \in T
  <2>1. k \in Nat /\ ~(m <= k)
    OBVIOUS
  <2> QED
    BY <1>1, <2>1
<1> QED
  BY <1>1, <1>2

\* What holds of 0, and of k when it holds of k - 1, holds up to n.
LEMMA UpTo ==
  ASSUME NEW n \in Nat, NEW T, 0 \in T, \A k \in 1..n : k - 1 \in T => k \in T
  PROVE  \A k \in 0..n : k \in T
<1> DEFINE S == {k \in 0..n : k \notin T}
<1> SUFFICES ASSUME S # {} PROVE FALSE
  OBVIOUS
<1>1. PICK m \in S : \A k \in S : m <= k
  <2>1. S \in SUBSET Nat
    OBVIOUS
  <2> QED
    BY <2>1, LeastOf
<1>2. m \in 1..n /\ m \notin T
  BY <1>1
<1>3. m - 1 \in 0..n /\ ~(m <= m - 1)
  BY <1>2
<1> QED
  BY <1>1, <1>2, <1>3

\* f is a loop of n turns: from first, turn[<<k, x>>] in the k-th.
Loop(n, S, first, turn, f) ==
  /\ f \in [0..n -> S] /\ f[0] = first
  /\ \A k \in 1..n : f[k] = turn[<<k, f[k - 1]>>]

\* Every loop can be run.
LEMMA LoopExists ==
  ASSUME NEW n \in Nat, NEW S, NEW first \in S, NEW turn \in [(1..n) \X S -> S]
  PROVE  \E f : Loop(n, S, first, turn, f)
<1> DEFINE T == {l \in 0..n : \E f : Loop(l, S, first, turn, f)}
<1>1. 0 \in T
  <2> DEFINE f == [k \in 0..0 |-> first]
  <2>1. f \in [0..0 -> S] /\ f[0] = first /\ \A k \in 1..0 : f[k] = turn[<<k, f[k - 1]>>]
    OBVIOUS
  <2>2. 0 \in 0..n
    OBVIOUS
  <2> HIDE DEF f
  <2> QED
    BY <2>1, <2>2 DEF Loop
<1>2. ASSUME NEW l \in 1..n, l - 1 \in T PROVE l \in T
  <2>1. PICK f : Loop(l - 1, S, first, turn, f)
    BY <1>2
  <2> DEFINE g == [k \in 0..l |-> IF k = l THEN turn[<<l, f[l - 1]>>] ELSE f[k]]
  <2>2. l \in Nat /\ l # 0 /\ l - 1 \in 0..l - 1 /\ \A k \in 0..l : k # l => k \in 0..l - 1
    OBVIOUS
  <2>3. /\ f \in [0..l - 1 -> S] /\ f[0] = first
        /\ \A k \in 1..l - 1 : f[k] = turn[<<k, f[k - 1]>>]
    BY <2>1 DEF Loop
  <2>4. f[l - 1] \in S
    BY <2>2, <2>3
  <2>5. turn[<<l, f[l - 1]>>] \in S
    BY <2>4
  <2>6. g \in [0..l -> S]
    BY <2>2, <2>3, <2>5
  <2>7. g[0] = first
    BY <2>2, <2>3
  <2>8. ASSUME NEW k \in 1..l PROVE g[k] = turn[<<k, g[k - 1]>>]
    <3>1. k \in 0..l /\ k - 1 \in 0..l /\ k - 1 # l
      OBVIOUS
    <3>2. g[k - 1] = f[k - 1]
      BY <3>1
    <3>3. CASE k = l
      BY <3>1, <3>2, <3>3
    <3>4. CASE k # l
      <4>1. k \in 1..l - 1
        BY <3>4
      <4> QED
        BY <2>3, <3>1, <3>2, <3>4, <4>1
    <3> QED
      BY <3>3, <3>4
  <2> HIDE DEF g
  <2>9. Loop(l, S, first, turn, g)
    BY <2>6, <2>7, <2>8 DEF Loop
  <2>10. l \in 0..n
    OBVIOUS
  <2> QED
    BY <2>9, <2>10
<1> HIDE DEF T
<1>3. n \in T
  BY <1>1, <1>2, UpTo
<1> QED
  BY <1>3 DEF T

\* Two runs of a loop agree as far as both go.
LEMMA LoopUnique ==
  ASSUME NEW n \in Nat, NEW m \in Nat, n <= m, NEW S, NEW first, NEW turn, NEW lap,
         NEW f, NEW g, Loop(n, S, first, turn, f), Loop(m, S, first, lap, g),
         \A k \in 1..n, x \in S : turn[<<k, x>>] = lap[<<k, x>>]
  PROVE  \A k \in 0..n : f[k] = g[k]
<1> DEFINE T == {k \in 0..n : f[k] = g[k]}
<1>1. 0 \in T
  BY DEF Loop
<1>2. ASSUME NEW k \in 1..n, k - 1 \in T PROVE k \in T
  <2>1. k - 1 \in 0..n /\ k \in 0..n /\ k \in 1..m
    OBVIOUS
  <2>2. f[k - 1] \in S /\ f[k] = turn[<<k, f[k - 1]>>] /\ g[k] = lap[<<k, g[k - 1]>>]
    BY <2>1 DEF Loop
  <2> QED
    BY <1>2, <2>1, <2>2
<1> HIDE DEF T
<1>3. \A k \in 0..n : k \in T
  BY <1>1, <1>2, UpTo
<1> QED
  BY <1>3 DEF T

\* A function that starts and goes on as the loop does is a run of it.
LEMMA LoopIs ==
  ASSUME NEW n \in Nat, NEW S, NEW first \in S, NEW turn \in [(1..n) \X S -> S],
         NEW p, p = [i \in 0..n |-> p[i]], p[0] = first,
         \A k \in 1..n : p[k - 1] \in S => p[k] = turn[<<k, p[k - 1]>>]
  PROVE  Loop(n, S, first, turn, p)
<1> DEFINE T == {k \in 0..n : p[k] \in S}
<1>1. 0 \in T
  OBVIOUS
<1>2. ASSUME NEW k \in 1..n, k - 1 \in T PROVE k \in T
  <2>1. p[k - 1] \in S /\ k \in 0..n
    BY <1>2
  <2>2. p[k] = turn[<<k, p[k - 1]>>] /\ <<k, p[k - 1]>> \in (1..n) \X S
    BY <2>1
  <2> QED
    BY <2>1, <2>2
<1> HIDE DEF T
<1>3. \A k \in 0..n : k \in T
  BY <1>1, <1>2, UpTo
<1>4. \A k \in 0..n : p[k] \in S
  BY <1>3 DEF T
<1>5. p \in [0..n -> S]
  BY <1>4
<1>6. \A k \in 1..n : k - 1 \in 0..n
  OBVIOUS
<1> QED
  BY <1>4, <1>5, <1>6 DEF Loop
-----------------------------------------------------------------------------
(* Powers of two. *)

Doubling(k) == [t \in (1..k) \X Nat |-> 2 * t[2]]

\* 1 << k is what k doublings make of 1.
LEMMA TwoLoop ==
  ASSUME NEW k \in Nat
  PROVE  \E p : Loop(k, Nat, 1, Doubling(k), p) /\ TwoTo(k) = p[k]
<1>1. Doubling(k) \in [(1..k) \X Nat -> Nat]
  BY DEF Doubling
<1>2. PICK f : Loop(k, Nat, 1, Doubling(k), f)
  BY <1>1, LoopExists
<1>3. f = [i \in 0..k |-> IF i = 0 THEN 1 ELSE 2 * f[i - 1]]
  <2>1. f = [i \in 0..k |-> f[i]] /\ f[0] = 1
    BY <1>2 DEF Loop
  <2>2. ASSUME NEW i \in 0..k, i # 0 PROVE f[i] = 2 * f[i - 1]
    <3>1. i \in 1..k /\ i - 1 \in 0..k
      BY <2>2
    <3> QED
      BY <1>2, <3>1 DEF Loop, Doubling
  <2> QED
    BY <2>1, <2>2
<1>4. PICK p : p = [i \in 0..k |-> IF i = 0 THEN 1 ELSE 2 * p[i - 1]] /\ TwoTo(k) = p[k]
  BY <1>3, Zenon DEF TwoTo
<1>5. Loop(k, Nat, 1, Doubling(k), p)
  <2>1. p = [i \in 0..k |-> p[i]] /\ p[0] = 1
    BY <1>4
  <2>2. ASSUME NEW i \in 1..k, p[i - 1] \in Nat PROVE p[i] = Doubling(k)[<<i, p[i - 1]>>]
    BY <1>4, <2>2 DEF Doubling
  <2> QED
    BY <1>1, <2>1, <2>2, LoopIs
<1> QED
  BY <1>4, <1>5

\* A power of two is twice the one below it.
LEMMA TwoToIs ==
  /\ TwoTo(0) = 1
  /\ \A k \in Nat : TwoTo(k) \in Nat \ {0} /\ TwoTo(k + 1) = 2 * TwoTo(k)
<1>1. TwoTo(0) = 1
  <2>1. PICK p : Loop(0, Nat, 1, Doubling(0), p) /\ TwoTo(0) = p[0]
    BY TwoLoop
  <2> QED
    BY <2>1 DEF Loop
<1>2. ASSUME NEW k \in Nat PROVE TwoTo(k) \in Nat
  <2>1. PICK p : Loop(k, Nat, 1, Doubling(k), p) /\ TwoTo(k) = p[k]
    BY TwoLoop
  <2> QED
    BY <2>1 DEF Loop
<1>3. ASSUME NEW k \in Nat PROVE TwoTo(k + 1) = 2 * TwoTo(k)
  <2>1. PICK p : Loop(k, Nat, 1, Doubling(k), p) /\ TwoTo(k) = p[k]
    BY TwoLoop
  <2>2. PICK q : Loop(k + 1, Nat, 1, Doubling(k + 1), q) /\ TwoTo(k + 1) = q[k + 1]
    BY TwoLoop
  <2>3. \A i \in 0..k : p[i] = q[i]
    <3>1. \A i \in 1..k, x \in Nat : Doubling(k)[<<i, x>>] = Doubling(k + 1)[<<i, x>>]
      BY DEF Doubling
    <3> QED
      BY <2>1, <2>2, <3>1, LoopUnique
  <2>4. q[k + 1] = 2 * q[k]
    <3>1. k + 1 \in 1..k + 1 /\ (k + 1) - 1 = k /\ q[k] \in Nat
      BY <2>2 DEF Loop
    <3>2. q[k + 1] = Doubling(k + 1)[<<k + 1, q[k]>>]
      BY <2>2, <3>1 DEF Loop
    <3> QED
      BY <3>1, <3>2 DEF Doubling
  <2> QED
    BY <2>1, <2>2, <2>3, <2>4
<1>4. \A k \in Nat : TwoTo(k) # 0
  <2> DEFINE T == {k \in Nat : TwoTo(k) # 0}
  <2>1. ASSUME NEW k \in Nat, \A i \in 0..k - 1 : i \in T PROVE k \in T
    <3>1. CASE k = 0
      BY <1>1, <3>1
    <3>2. CASE k # 0
      <4>1. k - 1 \in Nat /\ k - 1 \in 0..k - 1 /\ (k - 1) + 1 = k
        BY <3>2
      <4>2. TwoTo(k - 1) # 0 /\ TwoTo(k) = 2 * TwoTo(k - 1) /\ TwoTo(k - 1) \in Nat
        BY <1>2, <1>3, <2>1, <4>1
      <4> QED
        BY <4>2
    <3> QED
      BY <3>1, <3>2
  <2> HIDE DEF T
  <2>2. \A k \in Nat : k \in T
    BY <2>1, Descent
  <2> QED
    BY <2>2 DEF T
<1> QED
  BY <1>1, <1>2, <1>3, <1>4
-----------------------------------------------------------------------------
(* Sequences of digits and the numbers they stand for. *)

Horner(s, base) == [t \in (1..Len(s)) \X Nat |-> base * t[2] + s[t[1]]]

\* The value of a sequence is what Horner's rule has after its last digit.
LEMMA ValueLoop ==
  ASSUME NEW base \in Nat, NEW s \in Seq(Nat)
  PROVE  \E v : Loop(Len(s), Nat, 0, Horner(s, base), v) /\ Value(s, base) = v[Len(s)]
<1> DEFINE n == Len(s)
<1>1. n \in Nat /\ \A i \in 1..n : s[i] \in Nat
  BY LenProperties, ElementOfSeq
<1>2. Horner(s, base) \in [(1..n) \X Nat -> Nat]
  <2>1. ASSUME NEW t \in (1..n) \X Nat PROVE base * t[2] + s[t[1]] \in Nat
    BY <1>1
  <2> QED
    BY <2>1 DEF Horner
<1>3. PICK f : Loop(n, Nat, 0, Horner(s, base), f)
  BY <1>1, <1>2, LoopExists
<1>4. f = [i \in 0..n |-> IF i = 0 THEN 0 ELSE base * f[i - 1] + s[i]]
  <2>1. f = [i \in 0..n |-> f[i]] /\ f[0] = 0
    BY <1>3 DEF Loop
  <2>2. ASSUME NEW i \in 0..n, i # 0 PROVE f[i] = base * f[i - 1] + s[i]
    <3>1. i \in 1..n /\ i - 1 \in 0..n
      BY <1>1, <2>2
    <3>2. f[i - 1] \in Nat /\ f[i] = Horner(s, base)[<<i, f[i - 1]>>]
      BY <1>3, <3>1 DEF Loop
    <3> QED
      BY <3>1, <3>2 DEF Horner
  <2> HIDE DEF n
  <2> QED
    BY <2>1, <2>2
<1>5. PICK v : v = [i \in 0..n |-> IF i = 0 THEN 0 ELSE base * v[i - 1] + s[i]]
               /\ Value(s, base) = v[n]
  BY <1>4, Zenon DEF Value
<1>6. Loop(n, Nat, 0, Horner(s, base), v)
  <2>1. v = [i \in 0..n |-> v[i]] /\ v[0] = 0
    BY <1>1, <1>5
  <2>2. ASSUME NEW i \in 1..n, v[i - 1] \in Nat
        PROVE  v[i] = Horner(s, base)[<<i, v[i - 1]>>]
    <3>1. i \in 0..n /\ i # 0 /\ <<i, v[i - 1]>> \in (1..n) \X Nat
      BY <1>1, <2>2
    <3>2. v[i] = base * v[i - 1] + s[i]
      BY <1>5, <3>1
    <3> QED
      BY <3>1, <3>2 DEF Horner
  <2> HIDE DEF n
  <2> QED
    BY <1>1, <1>2, <2>1, <2>2, LoopIs
<1> QED
  BY <1>5, <1>6

\* The value of a sequence, digit by digit.
LEMMA ValueIs ==
  ASSUME NEW base \in Nat
  PROVE  /\ Value(<< >>, base) = 0
         /\ \A s \in Seq(Nat) : Value(s, base) \in Nat
         /\ \A s \in Seq(Nat), d \in Nat : Value(Append(s, d), base) = base * Value(s, base) + d
<1>1. Value(<< >>, base) = 0
  <2>1. << >> \in Seq(Nat) /\ Len(<< >>) = 0
    BY EmptySeq
  <2>2. PICK v : Loop(0, Nat, 0, Horner(<< >>, base), v) /\ Value(<< >>, base) = v[0]
    BY <2>1, ValueLoop
  <2> QED
    BY <2>2 DEF Loop
<1>2. ASSUME NEW s \in Seq(Nat) PROVE Value(s, base) \in Nat
  <2>1. PICK v : Loop(Len(s), Nat, 0, Horner(s, base), v) /\ Value(s, base) = v[Len(s)]
    BY ValueLoop
  <2>2. Len(s) \in Nat
    BY LenProperties
  <2> QED
    BY <2>1, <2>2 DEF Loop
<1>3. ASSUME NEW s \in Seq(Nat), NEW d \in Nat
      PROVE  Value(Append(s, d), base) = base * Value(s, base) + d
  <2> DEFINE t == Append(s, d)
             n == Len(s)
  <2>1. /\ t \in Seq(Nat) /\ Len(t) = n + 1 /\ n \in Nat /\ t[n + 1] = d
        /\ \A i \in 1..n : t[i] = s[i]
    BY AppendProperties, LenProperties
  <2>2. PICK v : Loop(n, Nat, 0, Horner(s, base), v) /\ Value(s, base) = v[n]
    BY ValueLoop
  <2>3. PICK w : Loop(n + 1, Nat, 0, Horner(t, base), w) /\ Value(t, base) = w[n + 1]
    BY <2>1, ValueLoop
  <2> HIDE DEF t
  <2>4. \A i \in 1..n, x \in Nat : Horner(s, base)[<<i, x>>] = Horner(t, base)[<<i, x>>]
    BY <2>1 DEF Horner
  <2> HIDE DEF n
  <2>5. \A i \in 0..n : v[i] = w[i]
    BY <2>1, <2>2, <2>3, <2>4, LoopUnique
  <2>6. w[n + 1] = base * w[n] + d
    <3>1. n + 1 \in 1..n + 1 /\ (n + 1) - 1 = n /\ w[n] \in Nat
      BY <2>1, <2>3 DEF Loop
    <3>2. w[n + 1] = Horner(t, base)[<<n + 1, w[n]>>]
      BY <2>3, <3>1 DEF Loop
    <3> QED
      BY <2>1, <3>1, <3>2 DEF Horner
  <2> QED
    BY <2>1, <2>2, <2>3, <2>5, <2>6 DEF t
<1> QED
  BY <1>1, <1>2, <1>3
-----------------------------------------------------------------------------
(* The digits of a number. *)

Radix == Nat \ {0, 1}

\* d gives the digits of the numbers up to n.
Written(n, base, d) ==
  /\ d \in [0..n -> Seq(0..base - 1)] /\ d[0] = << >>
  /\ \A k \in 1..n : d[k] = Append(d[k \div base], k % base)

\* Quotient and remainder make up the number, and the quotient is smaller.
LEMMA Divided ==
  ASSUME NEW base \in Radix, NEW k \in Nat
  PROVE  /\ k \div base \in Nat /\ k % base \in 0..base - 1 /\ k = base * (k \div base) + (k % base)
         /\ k # 0 => k \div base \in 0..k - 1
BY DEF Radix

\* A number put together of a quotient and a remainder has those.
LEMMA Multiplied ==
  ASSUME NEW base \in Radix, NEW q \in Nat, NEW r \in 0..base - 1
  PROVE  /\ base * q + r \in Nat
         /\ (base * q + r) \div base = q /\ (base * q + r) % base = r
         /\ q # 0 \/ r # 0 => base * q + r # 0
<1>1. base \in Nat /\ base > 1
  BY DEF Radix
<1>2. base * q \in Nat /\ (q # 0 => base * q # 0)
  BY <1>1
<1>3. (base * q + r) \div base = q /\ (base * q + r) % base = r
  BY <1>1
<1> QED
  BY <1>2, <1>3

\* There is a function as InBase describes it.
LEMMA WrittenExists ==
  ASSUME NEW base \in Radix, NEW n \in Nat
  PROVE  \E d : Written(n, base, d)
<1> DEFINE D == Seq(0..base - 1)
           T == {l \in 0..n : \E d : Written(l, base, d)}
<1>1. 0 \in T
  <2> DEFINE f == [k \in 0..0 |-> << >>]
  <2>1. << >> \in D
    BY EmptySeq
  <2>2. f \in [0..0 -> D] /\ f[0] = << >>
    BY <2>1
  <2> HIDE DEF f
  <2>3. Written(0, base, f)
    BY <2>2 DEF Written
  <2> QED
    BY <2>3
<1>2. ASSUME NEW l \in 1..n, l - 1 \in T PROVE l \in T
  <2>1. PICK d : Written(l - 1, base, d)
    BY <1>2
  <2> DEFINE e == [k \in 0..l |-> IF k = l THEN Append(d[l \div base], l % base) ELSE d[k]]
  <2>2. l \in Nat /\ l # 0 /\ \A k \in 0..l : k # l => k \in 0..l - 1
    OBVIOUS
  <2>3. d \in [0..l - 1 -> D] /\ d[0] = << >>
    BY <2>1 DEF Written
  <2>4. Append(d[l \div base], l % base) \in D
    <3>1. l \div base \in 0..l - 1 /\ l % base \in 0..base - 1
      BY <2>2, Divided
    <3>2. d[l \div base] \in D
      BY <2>3, <3>1
    <3> QED
      BY <3>1, <3>2, AppendProperties
  <2>5. e \in [0..l -> D] /\ e[0] = << >>
    <3> DEFINE last == Append(d[l \div base], l % base)
    <3> HIDE DEF last, D
    <3>1. \A k \in 0..l : (IF k = l THEN last ELSE d[k]) \in D
      BY <2>2, <2>3, <2>4 DEF last
    <3>2. e \in [0..l -> D]
      BY <3>1 DEF last
    <3>3. 0 \in 0..l /\ 0 # l
      BY <2>2
    <3> QED
      BY <2>3, <3>2, <3>3
  <2>6. ASSUME NEW k \in 1..l PROVE e[k] = Append(e[k \div base], k % base)
    <3>1. k \in Nat /\ k # 0 /\ k \in 0..l
      OBVIOUS
    <3>2. k \div base \in 0..k - 1
      BY <3>1, Divided
    <3>3. k \div base \in 0..l /\ k \div base # l
      BY <3>2
    <3>4. e[k \div base] = d[k \div base]
      BY <3>3
    <3>5. CASE k = l
      BY <3>1, <3>4, <3>5
    <3>6. CASE k # l
      <4>1. k \in 1..l - 1
        BY <3>6
      <4>2. d[k] = Append(d[k \div base], k % base)
        BY <2>1, <4>1 DEF Written
      <4> QED
        BY <3>1, <3>4, <3>6, <4>2
    <3> QED
      BY <3>5, <3>6
  <2> HIDE DEF e
  <2>7. Written(l, base, e)
    BY <2>5, <2>6 DEF Written
  <2> QED
    BY <2>7
<1> HIDE DEF T
<1>3. n \in T
  BY <1>1, <1>2, UpTo
<1> QED
  BY <1>3 DEF T

\* Two tables of digits agree as far as both go.
LEMMA WrittenUnique ==
  ASSUME NEW base \in Radix, NEW n \in Nat, NEW m \in Nat, n <= m,
         NEW d, NEW e, Written(n, base, d), Written(m, base, e)
  PROVE  \A k \in 0..n : d[k] = e[k]
<1> DEFINE T == {k \in Nat : k <= n => d[k] = e[k]}
<1>1. ASSUME NEW k \in Nat, \A j \in 0..k - 1 : j \in T PROVE k \in T
  <2>1. CASE k = 0
    BY <2>1 DEF Written
  <2>2. CASE k # 0 /\ k <= n
    <3>1. k \in 1..n /\ k \in 1..m /\ k \div base \in 0..k - 1 /\ k \div base <= n
      BY <2>2, Divided
    <3>2. d[k \div base] = e[k \div base]
      BY <1>1, <3>1
    <3> QED
      BY <3>1, <3>2 DEF Written
  <2>3. CASE ~(k <= n)
    BY <2>3
  <2> QED
    BY <2>1, <2>2, <2>3
<1> HIDE DEF T
<1>2. \A k \in Nat : k \in T
  BY <1>1, Descent
<1> QED
  BY <1>2 DEF T

\* InBase is that function.
LEMMA InBaseWritten ==
  ASSUME NEW base \in Radix, NEW n \in Nat
  PROVE  \E d : Written(n, base, d) /\ InBase(n, base) = d[n]
<1>1. PICK f : Written(n, base, f)
  BY WrittenExists
<1>2. f = [k \in 0..n |-> IF k = 0 THEN << >> ELSE Append(f[k \div base], k % base)]
  <2>1. f = [k \in 0..n |-> f[k]] /\ f[0] = << >>
    BY <1>1 DEF Written
  <2>2. ASSUME NEW k \in 0..n, k # 0 PROVE f[k] = Append(f[k \div base], k % base)
    <3>1. k \in 1..n
      BY <2>2
    <3> QED
      BY <1>1, <3>1 DEF Written
  <2> QED
    BY <2>1, <2>2
<1>3. PICK d : /\ d = [k \in 0..n |-> IF k = 0 THEN << >> ELSE Append(d[k \div base], k % base)]
               /\ InBase(n, base) = d[n]
  BY <1>2, Zenon DEF InBase
<1>4. d[0] = << >> /\ \A k \in 1..n : d[k] = Append(d[k \div base], k % base)
  <2>1. 0 \in 0..n /\ \A k \in 1..n : k \in 0..n /\ k # 0
    OBVIOUS
  <2> QED
    BY <1>3, <2>1
<1> DEFINE D == Seq(0..base - 1)
           T == {k \in Nat : k <= n => d[k] \in D}
<1>5. ASSUME NEW k \in Nat, \A j \in 0..k - 1 : j \in T PROVE k \in T
  <2>1. CASE k = 0
    <3>1. << >> \in D
      BY EmptySeq
    <3> QED
      BY <1>4, <2>1, <3>1
  <2>2. CASE k # 0 /\ k <= n
    <3>1. k \in 1..n /\ k \div base \in 0..k - 1 /\ k \div base <= n /\ k % base \in 0..base - 1
      BY <2>2, Divided
    <3>2. d[k \div base] \in D
      BY <1>5, <3>1
    <3>3. Append(d[k \div base], k % base) \in D
      BY <3>1, <3>2, AppendProperties
    <3> QED
      BY <1>4, <3>1, <3>3
  <2>3. CASE ~(k <= n)
    BY <2>3
  <2> QED
    BY <2>1, <2>2, <2>3
<1> HIDE DEF T
<1>6. \A k \in Nat : k \in T
  BY <1>5, Descent
<1>7. \A k \in 0..n : d[k] \in D
  BY <1>6 DEF T
<1>8. d \in [0..n -> D]
  BY <1>3, <1>7
<1>9. Written(n, base, d)
  BY <1>4, <1>8 DEF Written
<1> QED
  BY <1>3, <1>9

\* The digits of a number, digit by digit.
LEMMA InBaseIs ==
  ASSUME NEW base \in Radix
  PROVE  /\ InBase(0, base) = << >>
         /\ \A n \in Nat : InBase(n, base) \in Seq(0..base - 1)
         /\ \A n \in Nat \ {0} : InBase(n, base) = Append(InBase(n \div base, base), n % base)
<1>1. InBase(0, base) = << >>
  <2>1. PICK d : Written(0, base, d) /\ InBase(0, base) = d[0]
    BY InBaseWritten
  <2> QED
    BY <2>1 DEF Written
<1>2. ASSUME NEW n \in Nat PROVE InBase(n, base) \in Seq(0..base - 1)
  <2>1. PICK d : Written(n, base, d) /\ InBase(n, base) = d[n]
    BY InBaseWritten
  <2> QED
    BY <2>1 DEF Written
<1>3. ASSUME NEW n \in Nat \ {0}
      PROVE  InBase(n, base) = Append(InBase(n \div base, base), n % base)
  <2>1. PICK k \in Nat : k = n \div base
    BY Divided
  <2>2. k \in 0..n - 1 /\ k <= n
    BY <2>1, Divided
  <2>3. PICK d : Written(n, base, d) /\ InBase(n, base) = d[n]
    BY InBaseWritten
  <2>4. PICK e : Written(k, base, e) /\ InBase(k, base) = e[k]
    BY InBaseWritten
  <2>5. e[k] = d[k]
    BY <2>2, <2>3, <2>4, WrittenUnique
  <2>6. d[n] = Append(d[n \div base], n % base)
    BY <2>3 DEF Written
  <2> QED
    BY <2>1, <2>3, <2>4, <2>5, <2>6
<1> QED
  BY <1>1, <1>2, <1>3

\* The digits of a number stand for it.
LEMMA ValueOfDigits ==
  ASSUME NEW base \in Radix, NEW n \in Nat
  PROVE  Value(InBase(n, base), base) = n
<1> DEFINE T == {k \in Nat : Value(InBase(k, base), base) = k}
<1>1. ASSUME NEW k \in Nat, \A j \in 0..k - 1 : j \in T PROVE k \in T
  <2>1. CASE k = 0
    BY <2>1, InBaseIs, ValueIs DEF Radix
  <2>2. CASE k # 0
    <3>1. PICK q \in Nat, r \in 0..base - 1 :
            q = k \div base /\ r = k % base /\ k = base * q + r /\ q \in 0..k - 1
      BY <2>2, Divided
    <3>2. Value(InBase(q, base), base) = q
      BY <1>1, <3>1
    <3>3. InBase(q, base) \in Seq(Nat) /\ r \in Nat /\ base \in Nat
      <4>1. InBase(q, base) \in Seq(0..base - 1)
        BY InBaseIs
      <4>2. 0..base - 1 \subseteq Nat
        OBVIOUS
      <4> QED
        BY <4>1, <4>2, SeqMonotonic DEF Radix
    <3>4. InBase(k, base) = Append(InBase(q, base), r)
      BY <2>2, <3>1, InBaseIs
    <3>5. Value(Append(InBase(q, base), r), base) = base * Value(InBase(q, base), base) + r
      BY <3>3, ValueIs
    <3> QED
      BY <3>1, <3>2, <3>4, <3>5
  <2> QED
    BY <2>1, <2>2
<1> HIDE DEF T
<1>2. \A k \in Nat : k \in T
  BY <1>1, Descent
<1> QED
  BY <1>2 DEF T

\* They do not start with a zero.
LEMMA DigitsLead ==
  ASSUME NEW base \in Radix, NEW n \in Nat \ {0}
  PROVE  InBase(n, base) # << >> /\ InBase(n, base)[1] # 0
<1> DEFINE T == {k \in Nat : k # 0 => InBase(k, base) # << >> /\ InBase(k, base)[1] # 0}
<1>1. ASSUME NEW k \in Nat, \A j \in 0..k - 1 : j \in T PROVE k \in T
  <2>1. CASE k = 0
    BY <2>1
  <2>2. CASE k # 0
    <3>1. PICK q \in Nat, r \in 0..base - 1 :
            q = k \div base /\ r = k % base /\ k = base * q + r /\ q \in 0..k - 1
      BY <2>2, Divided
    <3> DEFINE s == InBase(q, base)
    <3>2. s \in Seq(0..base - 1) /\ InBase(k, base) = Append(s, r)
      BY <2>2, <3>1, InBaseIs
    <3>3. /\ Len(Append(s, r)) = Len(s) + 1 /\ Len(s) \in Nat /\ Append(s, r)[Len(s) + 1] = r
          /\ \A i \in 1..Len(s) : Append(s, r)[i] = s[i]
          /\ Append(s, r) # << >>
      BY <3>2, AppendProperties, LenProperties
    <3>4. CASE q = 0
      <4>1. s = << >> /\ r # 0
        BY <2>2, <3>1, <3>4, InBaseIs DEF Radix
      <4> QED
        BY <3>2, <3>3, <4>1
    <3>5. CASE q # 0
      <4>1. s # << >> /\ s[1] # 0
        BY <1>1, <3>1, <3>5
      <4>2. 1 \in 1..Len(s)
        BY <3>2, <4>1, EmptySeq, LenProperties
      <4> QED
        BY <3>2, <3>3, <4>1, <4>2
    <3> QED
      BY <3>4, <3>5
  <2> QED
    BY <2>1, <2>2
<1> HIDE DEF T
<1>2. \A k \in Nat : k \in T
  BY <1>1, Descent
<1> QED
  BY <1>2 DEF T

NoLead(s) == s = << >> \/ s[1] # 0

\* Digits that do not start with a zero are those of the number they stand for.
LEMMA DigitsOfValue ==
  ASSUME NEW base \in Radix, NEW s \in Seq(0..base - 1), NoLead(s)
  PROVE  InBase(Value(s, base), base) = s
<1> DEFINE D == Seq(0..base - 1)
           T == {k \in Nat : \A t \in D : NoLead(t) /\ Len(t) = k => InBase(Value(t, base), base) = t}
<1>0. base \in Nat /\ D \subseteq Seq(Nat)
  <2>1. 0..base - 1 \subseteq Nat
    OBVIOUS
  <2> QED
    BY <2>1, SeqMonotonic DEF Radix
<1>1. ASSUME NEW k \in Nat, \A j \in 0..k - 1 : j \in T PROVE k \in T
  <2> SUFFICES ASSUME NEW t \in D, NoLead(t), Len(t) = k PROVE InBase(Value(t, base), base) = t
    OBVIOUS
  <2>1. CASE k = 0
    <3>1. t = << >>
      BY <2>1, EmptySeq
    <3> QED
      BY <1>0, <3>1, ValueIs, InBaseIs
  <2>2. CASE k # 0
    <3>1. t # << >>
      BY <2>2
    <3>2. PICK u \in D, d \in 0..base - 1 : t = Append(u, d)
      BY <3>1, SequenceEmptyOrAppend
    <3>3. /\ Len(t) = Len(u) + 1 /\ Len(u) \in Nat /\ t[Len(u) + 1] = d
          /\ \A i \in 1..Len(u) : t[i] = u[i]
      BY <3>2, AppendProperties, LenProperties
    <3>4. Len(u) \in 0..k - 1
      BY <3>3
    <3>5. NoLead(u)
      <4>1. ASSUME u # << >> PROVE u[1] # 0
        <5>1. 1 \in 1..Len(u)
          BY <4>1, EmptySeq, LenProperties
        <5> QED
          BY <3>1, <3>3, <5>1 DEF NoLead
      <4> QED
        BY <4>1 DEF NoLead
    <3>6. InBase(Value(u, base), base) = u
      BY <1>1, <3>4, <3>5
    <3>7. PICK v \in Nat : v = Value(u, base)
      BY <1>0, ValueIs
    <3>8. Value(t, base) = base * v + d
      <4>1. u \in Seq(Nat) /\ d \in Nat
        BY <1>0
      <4>2. Value(Append(u, d), base) = base * Value(u, base) + d
        BY <1>0, <4>1, ValueIs
      <4> QED
        BY <3>2, <3>7, <4>2
    <3>9. v # 0 \/ d # 0
      <4>1. CASE u = << >>
        <5>1. t[1] = d
          BY <3>3, <4>1
        <5> QED
          BY <3>1, <5>1 DEF NoLead
      <4>2. CASE u # << >>
        BY <3>6, <3>7, <4>2, InBaseIs
      <4> QED
        BY <4>1, <4>2
    <3>10. /\ base * v + d \in Nat \ {0}
           /\ (base * v + d) \div base = v /\ (base * v + d) % base = d
      BY <3>9, Multiplied
    <3>11. PICK w \in Nat \ {0} : w = base * v + d /\ w \div base = v /\ w % base = d
      BY <3>10
    <3>12. InBase(w, base) = Append(InBase(w \div base, base), w % base)
      BY InBaseIs
    <3> QED
      BY <3>2, <3>6, <3>7, <3>8, <3>11, <3>12
  <2> QED
    BY <2>1, <2>2
<1> HIDE DEF T
<1>2. \A k \in Nat : k \in T
  BY <1>1, Descent
<1>3. Len(s) \in Nat
  BY LenProperties
<1> QED
  BY <1>2, <1>3 DEF T

\* Zeros in front change nothing.
LEMMA ValueOfZeros ==
  ASSUME NEW base \in Radix, NEW z \in Seq({0}), NEW s \in Seq(Nat)
  PROVE  Value(z \o s, base) = Value(s, base)
<1>0. base \in Nat /\ z \in Seq(Nat)
  BY SeqMonotonic DEF Radix
<1>1. Value(z, base) = 0
  <2> DEFINE T == {k \in Nat : \A t \in Seq({0}) : Len(t) = k => Value(t, base) = 0}
  <2>1. ASSUME NEW k \in Nat, \A j \in 0..k - 1 : j \in T PROVE k \in T
    <3> SUFFICES ASSUME NEW t \in Seq({0}), Len(t) = k PROVE Value(t, base) = 0
      OBVIOUS
    <3>1. CASE t = << >>
      BY <1>0, <3>1, ValueIs
    <3>2. CASE t # << >>
      <4>1. PICK u \in Seq({0}), d \in {0} : t = Append(u, d)
        <5> DEFINE Z == {0}
        <5> HIDE DEF Z
        <5>1. t \in Seq(Z)
          BY DEF Z
        <5>2. PICK u \in Seq(Z), d \in Z : t = Append(u, d)
          BY <3>2, <5>1, SequenceEmptyOrAppend
        <5> QED
          BY <5>2 DEF Z
      <4>2. Len(u) \in 0..k - 1
        BY <4>1, AppendProperties, LenProperties
      <4>3. Value(u, base) = 0
        BY <2>1, <4>2
      <4>4. u \in Seq(Nat) /\ d \in Nat
        BY SeqMonotonic
      <4>5. Value(Append(u, d), base) = base * Value(u, base) + d
        BY <1>0, <4>4, ValueIs
      <4> QED
        BY <1>0, <4>1, <4>3, <4>5
    <3> QED
      BY <3>1, <3>2
  <2> HIDE DEF T
  <2>2. \A k \in Nat : k \in T
    BY <2>1, Descent
  <2>3. Len(z) \in Nat
    BY LenProperties
  <2> QED
    BY <2>2, <2>3 DEF T
<1> DEFINE T == {k \in Nat : \A t \in Seq(Nat) : Len(t) = k => Value(z \o t, base) = Value(t, base)}
<1>2. ASSUME NEW k \in Nat, \A j \in 0..k - 1 : j \in T PROVE k \in T
  <2> SUFFICES ASSUME NEW t \in Seq(Nat), Len(t) = k PROVE Value(z \o t, base) = Value(t, base)
    OBVIOUS
  <2>1. CASE t = << >>
    <3>1. z \o t = z
      BY <1>0, <2>1, ConcatEmptySeq
    <3> QED
      BY <1>0, <1>1, <2>1, <3>1, ValueIs
  <2>2. CASE t # << >>
    <3>1. PICK u \in Seq(Nat), d \in Nat : t = Append(u, d)
      BY <2>2, SequenceEmptyOrAppend
    <3>2. Len(u) \in 0..k - 1
      BY <3>1, AppendProperties, LenProperties
    <3>3. Value(z \o u, base) = Value(u, base)
      BY <1>2, <3>2
    <3>4. z \o t = Append(z \o u, d) /\ z \o u \in Seq(Nat)
      <4>1. <<d>> \in Seq(Nat)
        OBVIOUS
      <4>2. t = u \o <<d>> /\ z \o u \in Seq(Nat)
        BY <1>0, <3>1, AppendIsConcat, ConcatProperties
      <4>3. Append(z \o u, d) = (z \o u) \o <<d>>
        BY <4>2, AppendIsConcat
      <4>4. (z \o u) \o <<d>> = z \o (u \o <<d>>)
        BY <1>0, <3>1, <4>1, ConcatAssociative
      <4> QED
        BY <4>2, <4>3, <4>4
    <3>5. /\ Value(Append(z \o u, d), base) = base * Value(z \o u, base) + d
          /\ Value(Append(u, d), base) = base * Value(u, base) + d
      BY <1>0, <3>4, ValueIs
    <3> QED
      BY <3>1, <3>3, <3>4, <3>5
  <2> QED
    BY <2>1, <2>2
<1> HIDE DEF T
<1>3. \A k \in Nat : k \in T
  BY <1>2, Descent
<1>4. Len(s) \in Nat
  BY LenProperties
<1> QED
  BY <1>3, <1>4 DEF T
-----------------------------------------------------------------------------
(* Leading zeros. *)

\* The first place, and the last, of a set of places.
LEMMA FirstOf ==
  ASSUME NEW S \in SUBSET Nat, S # {}
  PROVE  Min(S) \in S /\ \A x \in S : Min(S) <= x
<1>1. \E m \in S : \A k \in S : m <= k
  BY LeastOf
<1> QED
  BY <1>1 DEF Min

\* A bounded set of numbers that is not empty has a greatest element.
LEMMA LastOf ==
  ASSUME NEW n \in Nat, NEW S \in SUBSET (1..n), S # {}
  PROVE  Max(S) \in S /\ \A x \in S : x <= Max(S)
<1> DEFINE R == {n - k : k \in S}
<1>1. R \in SUBSET Nat /\ R # {}
  OBVIOUS
<1>2. PICK m \in R : \A k \in R : m <= k
  BY <1>1, LeastOf
<1>3. n - m \in S /\ \A k \in S : k <= n - m
  <2>1. PICK l \in S : m = n - l
    BY <1>2
  <2>2. n - m = l
    BY <2>1
  <2>3. ASSUME NEW k \in S PROVE k <= n - m
    <3>1. n - k \in R
      OBVIOUS
    <3>2. m <= n - k /\ k \in Int /\ l \in Int
      BY <1>2, <3>1
    <3> QED
      BY <2>1, <3>2
  <2> QED
    BY <2>1, <2>2, <2>3
<1>4. \E x \in S : \A y \in S : x >= y
  BY <1>3
<1>5. Max(S) \in S /\ \A y \in S : Max(S) >= y
  BY <1>4 DEF Max
<1> QED
  BY <1>5

\* Where Zeros stops: at the first digit that is not zero, or at the end.
LEMMA ZerosEnd ==
  ASSUME NEW s \in Seq(Nat)
  PROVE  \E k \in 1..Len(s) + 1 :
            /\ Zeros(s) = SubSeq(s, 1, k - 1)
            /\ \A i \in 1..k - 1 : s[i] = 0
            /\ k <= Len(s) => s[k] # 0
<1> DEFINE t == Append(s, 1)
           I == {i \in 1..Len(t) : t[i] # 0}
<1>1. /\ Len(t) = Len(s) + 1 /\ Len(s) \in Nat /\ t[Len(s) + 1] = 1
      /\ \A i \in 1..Len(s) : t[i] = s[i]
  BY AppendProperties, LenProperties
<1>2. Len(s) + 1 \in I /\ I \in SUBSET Nat
  BY <1>1
<1>3. Zeros(s) = SubSeq(s, 1, Min(I) - 1)
  BY <1>2 DEF Zeros, SelectInSeq
<1> HIDE DEF t
<1>4. Min(I) \in I /\ \A x \in I : Min(I) <= x
  BY <1>2, FirstOf
<1>5. PICK k \in 1..Len(s) + 1 : k = Min(I) /\ t[k] # 0 /\ \A x \in I : k <= x
  BY <1>1, <1>4
<1>6. ASSUME NEW i \in 1..k - 1 PROVE s[i] = 0
  <2>1. i \in 1..Len(s) /\ i \in 1..Len(t) /\ ~(k <= i)
    BY <1>1
  <2>2. i \notin I
    BY <1>5, <2>1
  <2> QED
    BY <1>1, <2>1, <2>2
<1>7. ASSUME k <= Len(s) PROVE s[k] # 0
  <2>1. k \in 1..Len(s)
    BY <1>1, <1>7
  <2> QED
    BY <1>1, <1>5, <2>1
<1> QED
  BY <1>3, <1>5, <1>6, <1>7

\* A sequence is its leading zeros and what does not start with one.
LEMMA ZerosSplit ==
  ASSUME NEW D \in SUBSET Nat, NEW s \in Seq(D)
  PROVE  \E r \in Seq(D) : Zeros(s) \in Seq({0}) /\ s = Zeros(s) \o r /\ NoLead(r)
<1>1. s \in Seq(Nat) /\ Len(s) \in Nat /\ \A i \in 1..Len(s) : s[i] \in D
  BY SeqMonotonic, LenProperties, ElementOfSeq
<1>2. PICK k \in 1..Len(s) + 1 : /\ Zeros(s) = SubSeq(s, 1, k - 1)
                                 /\ \A i \in 1..k - 1 : s[i] = 0
                                 /\ k <= Len(s) => s[k] # 0
  BY <1>1, ZerosEnd
<1> DEFINE z == SubSeq(s, 1, k - 1)
           r == SubSeq(s, k, Len(s))
<1>3. z \in Seq({0}) /\ Len(z) = k - 1
  <2> DEFINE Z == {0}
  <2>1. k - 1 \in Int /\ \A i \in 1..k - 1 : s[i] \in Z
    BY <1>2
  <2> HIDE DEF Z
  <2>2. z \in Seq(Z) /\ Len(z) = IF 1 <= k - 1 THEN (k - 1) - 1 + 1 ELSE 0
    BY <2>1, SubSeqProperties
  <2> QED
    BY <2>2 DEF Z
<1>4. r \in Seq(D) /\ Len(r) = Len(s) - k + 1 /\ \A i \in 1..Len(s) - k + 1 : r[i] = s[k + i - 1]
  BY <1>1, SubSeqProperties
<1>5. s = z \o r
  <2>1. PICK j \in 0..Len(s) : j = k - 1 /\ j + 1 = k
    BY <1>1
  <2>2. SubSeq(s, 1, j) \o SubSeq(s, j + 1, Len(s)) = SubSeq(s, 1, Len(s))
    <3>1. 1 \in 1..Len(s) + 1 /\ j \in 1 - 1..Len(s) /\ Len(s) \in j..Len(s)
      BY <1>1
    <3> QED
      BY <3>1, ConcatAdjacentSubSeq
  <2>3. SubSeq(s, 1, Len(s)) = s
    BY SubSeqFull
  <2> QED
    BY <2>1, <2>2, <2>3
<1>6. NoLead(r)
  <2>1. ASSUME r # << >> PROVE r[1] # 0
    <3>1. k <= Len(s)
      BY <1>1, <1>4, <2>1, EmptySeq
    <3>2. 1 \in 1..Len(s) - k + 1 /\ k + 1 - 1 = k
      BY <1>1, <3>1
    <3> QED
      BY <1>2, <1>4, <3>1, <3>2
  <2> QED
    BY <2>1 DEF NoLead
<1> QED
  BY <1>2, <1>3, <1>4, <1>5, <1>6

\* The leading zeros of zeros in front of digits that have none.
LEMMA ZerosFront ==
  ASSUME NEW z \in Seq({0}), NEW s \in Seq(Nat), NoLead(s)
  PROVE  Zeros(z \o s) = z
<1> DEFINE c == z \o s
<1>1. /\ z \in Seq(Nat) /\ Len(z) \in Nat /\ Len(s) \in Nat /\ \A i \in 1..Len(z) : z[i] = 0
  BY SeqMonotonic, LenProperties, ElementOfSeq
<1>2. /\ c \in Seq(Nat) /\ Len(c) = Len(z) + Len(s)
      /\ \A i \in 1..Len(c) : c[i] = IF i <= Len(z) THEN z[i] ELSE s[i - Len(z)]
  BY <1>1, ConcatProperties
<1>3. PICK k \in 1..Len(c) + 1 : /\ Zeros(c) = SubSeq(c, 1, k - 1)
                                 /\ \A i \in 1..k - 1 : c[i] = 0
                                 /\ k <= Len(c) => c[k] # 0
  BY <1>2, ZerosEnd
<1>4. SubSeq(c, 1, Len(z)) = z
  <2>1. \A i \in 1..Len(z) : c[i] = z[i]
    BY <1>1, <1>2
  <2>2. SubSeq(c, 1, Len(z)) = [i \in 1..Len(z) |-> c[i]]
    BY <1>1, <1>2
  <2>3. z = [i \in 1..Len(z) |-> z[i]]
    BY <1>1, LenProperties
  <2> QED
    BY <2>1, <2>2, <2>3
<1>5. ~(k <= Len(z))
  <2>1. ASSUME k <= Len(z) PROVE FALSE
    <3>1. k \in 1..Len(z) /\ k \in 1..Len(c) /\ k <= Len(c)
      BY <1>1, <1>2, <2>1
    <3> QED
      BY <1>1, <1>2, <1>3, <2>1, <3>1
  <2> QED
    BY <2>1
<1>6. ~(k > Len(z) + 1)
  <2>1. ASSUME k > Len(z) + 1 PROVE FALSE
    <3>1. PICK j \in 1..Len(c) : j = Len(z) + 1 /\ j \in 1..k - 1 /\ j - Len(z) = 1 /\ ~(j <= Len(z))
      BY <1>1, <1>2, <2>1
    <3>2. c[j] = 0 /\ c[j] = s[1]
      BY <1>2, <1>3, <3>1
    <3>3. s # << >>
      BY <1>1, <1>2, <3>1
    <3> QED
      BY <3>2, <3>3 DEF NoLead
  <2> QED
    BY <2>1
<1>7. k - 1 = Len(z)
  BY <1>1, <1>5, <1>6
<1> QED
  BY <1>3, <1>4, <1>7
-----------------------------------------------------------------------------
(* base58.cpp *)

ByteSet == 0..Base - 1
DigitSet == 0..Digits - 1

\* The assumptions on bases as the lemmas on numerals need them.
LEMMA Radices == /\ Base \in Radix /\ Digits \in Radix
                 /\ ByteSet \in SUBSET Nat /\ DigitSet \in SUBSET Nat
BY KeyTextConsts DEF Radix, ByteSet, DigitSet

\* A number through its signed bytes: the sign byte goes.
LEMMA SignTrimmed ==
  ASSUME NEW n \in Nat
  PROVE  TrimSign(getvch(n)) = InBase(n, Base)
<1> DEFINE b == InBase(n, Base)
           h == Base \div 2
<1>1. b \in Seq(Nat) /\ NoLead(b) /\ Len(b) \in Nat
  <2>1. b \in Seq(ByteSet)
    BY Radices, InBaseIs DEF ByteSet
  <2>2. n = 0 => b = << >>
    BY Radices, InBaseIs
  <2>3. n # 0 => b[1] # 0
    BY Radices, DigitsLead
  <2> QED
    BY <2>1, <2>2, <2>3, Radices, SeqMonotonic, LenProperties DEF NoLead
<1>2. CASE b # << >> /\ Head(b) >= h
  <2> DEFINE x == <<0>> \o b
  <2>1. getvch(n) = x
    BY <1>2 DEF getvch
  <2>2. Len(b) >= 1 /\ Head(b) = b[1]
    BY <1>1, <1>2, EmptySeq
  <2>3. <<0>> \in Seq(Nat) /\ Len(<<0>>) = 1 /\ <<0>>[1] = 0
    OBVIOUS
  <2>4. /\ x \in Seq(Nat) /\ Len(x) = 1 + Len(b)
        /\ \A i \in 1..Len(x) : x[i] = IF i <= 1 THEN <<0>>[i] ELSE b[i - 1]
    BY <1>1, <2>3, ConcatProperties
  <2>5. x[1] = 0 /\ x[2] = b[1] /\ Len(x) >= 2
    BY <1>1, <2>2, <2>3, <2>4
  <2>6. Tail(x) = b
    <3>1. Tail(x) \in Seq(Nat) /\ Len(Tail(x)) = Len(b) /\ \A i \in 1..Len(b) : Tail(x)[i] = x[i + 1]
      BY <1>1, <2>4, HeadTailProperties, EmptySeq
    <3>2. \A i \in 1..Len(b) : x[i + 1] = b[i]
      BY <1>1, <2>4
    <3> QED
      BY <1>1, <3>1, <3>2, SeqEqual
  <2> HIDE DEF x
  <2>7. TrimSign(x) = Tail(x)
    BY <1>2, <2>2, <2>5 DEF TrimSign
  <2> QED
    BY <2>1, <2>6, <2>7
<1>3. CASE ~(b # << >> /\ Head(b) >= h)
  <2>1. getvch(n) = b
    BY <1>3 DEF getvch
  <2>2. ~(Len(b) >= 2 /\ b[1] = 0)
    BY <1>1 DEF NoLead
  <2> HIDE DEF b
  <2>3. TrimSign(b) = b
    BY <2>2 DEF TrimSign
  <2> QED
    BY <2>1, <2>3 DEF b
<1> QED
  BY <1>2, <1>3

\* The bytes come back from the characters.
LEMMA Base58 ==
  ASSUME NEW b \in Seq(ByteSet)
  PROVE  LET t == EncodeBase58(b)
         IN  /\ t \in Seq(DigitSet)
             /\ Zeros(t) \o TrimSign(getvch(Value(t, Digits))) = b
<1>1. PICK r \in Seq(ByteSet) : Zeros(b) \in Seq({0}) /\ b = Zeros(b) \o r /\ NoLead(r)
  BY Radices, ZerosSplit
<1>2. PICK z \in Seq({0}) : z = Zeros(b)
  BY <1>1
<1>3. r \in Seq(Nat)
  BY Radices, SeqMonotonic
<1>4. PICK n \in Nat : n = Value(r, Base) /\ n = Value(b, Base) /\ InBase(n, Base) = r
  <2>1. Value(b, Base) = Value(r, Base)
    BY <1>1, <1>2, <1>3, Radices, ValueOfZeros
  <2>2. Value(r, Base) \in Nat
    BY <1>3, Radices, ValueIs DEF Radix
  <2>3. InBase(Value(r, Base), Base) = r
    BY <1>1, Radices, DigitsOfValue DEF ByteSet
  <2> QED
    BY <2>1, <2>2, <2>3
<1>5. PICK d \in Seq(DigitSet) : d = InBase(n, Digits) /\ d \in Seq(Nat) /\ NoLead(d)
  <2>1. InBase(n, Digits) \in Seq(DigitSet)
    BY Radices, InBaseIs DEF DigitSet
  <2>2. InBase(n, Digits) \in Seq(Nat)
    BY <2>1, Radices, SeqMonotonic
  <2>3. NoLead(InBase(n, Digits))
    BY Radices, InBaseIs, DigitsLead DEF NoLead
  <2> QED
    BY <2>1, <2>2, <2>3
<1>6. EncodeBase58(b) = z \o d
  BY <1>2, <1>4, <1>5 DEF EncodeBase58
<1>7. z \o d \in Seq(DigitSet)
  <2>1. 0 \in DigitSet
    BY Radices DEF DigitSet, Radix
  <2>2. z \in Seq(DigitSet)
    BY <2>1, SeqMonotonic
  <2> QED
    BY <2>2, ConcatProperties
<1>8. Zeros(z \o d) = z
  BY <1>5, ZerosFront
<1>9. Value(z \o d, Digits) = n
  <2>1. Value(z \o d, Digits) = Value(d, Digits)
    BY <1>5, Radices, ValueOfZeros
  <2> QED
    BY <1>5, <2>1, Radices, ValueOfDigits
<1>10. TrimSign(getvch(n)) = r
  BY <1>4, SignTrimmed
<1> QED
  BY <1>1, <1>2, <1>6, <1>7, <1>8, <1>9, <1>10
-----------------------------------------------------------------------------
(* Reading a text. *)

\* The two parts of a concatenation.
LEMMA PrefixOf ==
  ASSUME NEW S, NEW s \in Seq(S), NEW t \in Seq(S)
  PROVE  SubSeq(s \o t, 1, Len(s)) = s
<1>1. /\ Len(s) \in Nat /\ Len(t) \in Nat /\ s \o t \in Seq(S) /\ Len(s \o t) = Len(s) + Len(t)
      /\ \A i \in 1..Len(s) : (s \o t)[i] = s[i]
      /\ \A i \in 1..Len(s) : s[i] \in S
  BY ConcatProperties, LenProperties, ElementOfSeq
<1> DEFINE c == s \o t
           u == SubSeq(c, 1, Len(s))
<1>2. \A i \in 1..Len(s) : c[i] \in S /\ 1 + i - 1 = i
  BY <1>1
<1> HIDE DEF c
<1>3. /\ u \in Seq(S) /\ Len(u) = Len(s)
      /\ \A i \in 1..Len(s) - 1 + 1 : u[i] = c[1 + i - 1]
  BY <1>1, <1>2, SubSeqProperties
<1>4. \A i \in 1..Len(s) : u[i] = s[i]
  BY <1>1, <1>2, <1>3 DEF c
<1> HIDE DEF u
<1>5. u = s
  BY <1>3, <1>4, SeqEqual
<1> QED
  BY <1>5 DEF u, c

\* What follows the first of two sequences is the second.
LEMMA SuffixOf ==
  ASSUME NEW S, NEW s \in Seq(S), NEW t \in Seq(S)
  PROVE  SubSeq(s \o t, Len(s) + 1, Len(s \o t)) = t
<1> DEFINE c == s \o t
           n == Len(s)
           u == SubSeq(c, n + 1, Len(c))
<1>1. /\ n \in Nat /\ Len(t) \in Nat /\ c \in Seq(S) /\ Len(c) = n + Len(t)
      /\ \A i \in 1..Len(c) : c[i] = IF i <= n THEN s[i] ELSE t[i - n]
      /\ \A i \in 1..Len(t) : t[i] \in S
  BY ConcatProperties, LenProperties, ElementOfSeq
<1> HIDE DEF c, n
<1>2. \A i \in 1..Len(t) : n + i \in 1..Len(c) /\ c[n + i] = t[i]
  BY <1>1
<1>3. \A i \in n + 1..Len(c) : c[i] \in S
  BY <1>1
<1>4. /\ u \in Seq(S) /\ Len(u) = Len(t)
      /\ \A i \in 1..Len(t) : u[i] = c[n + i]
  <2>1. /\ u \in Seq(S)
        /\ Len(u) = IF n + 1 <= Len(c) THEN Len(c) - (n + 1) + 1 ELSE 0
        /\ \A i \in 1..Len(c) - (n + 1) + 1 : u[i] = c[(n + 1) + i - 1]
    BY <1>1, <1>3, SubSeqProperties
  <2>2. ASSUME NEW i \in 1..Len(t) PROVE i \in 1..Len(c) - (n + 1) + 1 /\ (n + 1) + i - 1 = n + i
    BY <1>1
  <2> HIDE DEF u
  <2> QED
    BY <1>1, <2>1, <2>2
<1> HIDE DEF u
<1>5. u = t
  BY <1>2, <1>4, SeqEqual
<1> QED
  BY <1>5 DEF u, c, n

\* The characters of what is pasted: no text of uoskey holds another.
Chars == DigitSet \union {Blank, LetterO}

\* Blanks and the O are not in the alphabet, U and S are.
LEMMA CharsApart == /\ Blank \notin DigitSet /\ LetterO \notin DigitSet /\ Blank # LetterO
                    /\ LetterU \in DigitSet /\ LetterS \in DigitSet /\ 0 \in DigitSet
BY Radices, KeyTextConsts DEF DigitSet, Radix

\* Blanks in front are skipped.
LEMMA BlanksSkipped ==
  ASSUME NEW txt \in Seq(Chars), NEW k \in 1..Len(txt),
         \A i \in 1..k - 1 : txt[i] = Blank, txt[k] # Blank
  PROVE  SelectInSeq(Append(txt, 0), LAMBDA c : c # Blank) = k
<1> DEFINE t == Append(txt, 0)
           I == {i \in 1..Len(t) : t[i] # Blank}
<1>1. /\ Len(t) = Len(txt) + 1 /\ Len(txt) \in Nat
      /\ \A i \in 1..Len(txt) : t[i] = txt[i]
  BY CharsApart, AppendProperties, LenProperties DEF Chars
<1>2. k \in I /\ I \in SUBSET Nat
  BY <1>1
<1>3. SelectInSeq(t, LAMBDA c : c # Blank) = Min(I)
  BY <1>2 DEF SelectInSeq
<1> HIDE DEF t
<1>4. Min(I) \in I /\ Min(I) <= k
  BY <1>2, FirstOf
<1>5. ASSUME NEW i \in I, i <= k PROVE i = k
  <2>1. ASSUME i # k PROVE FALSE
    <3>1. i \in 1..k - 1 /\ i \in 1..Len(txt)
      BY <1>5, <2>1
    <3> QED
      BY <1>1, <3>1
  <2> QED
    BY <2>1
<1> QED
  BY <1>3, <1>4, <1>5 DEF t

\* The digits end at the first character that is none, or with the text.
LEMMA DigitsEnd ==
  ASSUME NEW psz \in Seq(Chars), NEW k \in 1..Len(psz) + 1,
         \A i \in 1..k - 1 : psz[i] \in DigitSet, k <= Len(psz) => psz[k] \notin DigitSet
  PROVE  SelectInSeq(Append(psz, Blank), LAMBDA c : c \notin 0..Digits - 1) = k
<1> DEFINE t == Append(psz, Blank)
           I == {i \in 1..Len(t) : t[i] \notin 0..Digits - 1}
<1>1. /\ Len(t) = Len(psz) + 1 /\ Len(psz) \in Nat
      /\ t[Len(psz) + 1] = Blank
      /\ \A i \in 1..Len(psz) : t[i] = psz[i]
  BY AppendProperties, LenProperties DEF Chars
<1>2. k \in I /\ I \in SUBSET Nat
  <2>1. k \in 1..Len(t)
    BY <1>1
  <2>2. CASE k <= Len(psz)
    <3>1. t[k] = psz[k]
      BY <1>1, <2>2
    <3> QED
      BY <2>1, <2>2, <3>1 DEF DigitSet
  <2>3. CASE k = Len(psz) + 1
    BY <1>1, <2>1, <2>3, CharsApart DEF DigitSet
  <2> QED
    BY <1>1, <2>2, <2>3
<1>3. SelectInSeq(t, LAMBDA c : c \notin 0..Digits - 1) = Min(I)
  BY <1>2 DEF SelectInSeq
<1> HIDE DEF t
<1>4. Min(I) \in I /\ Min(I) <= k
  BY <1>2, FirstOf
<1>5. ASSUME NEW i \in I, i <= k PROVE i = k
  <2>1. ASSUME i # k PROVE FALSE
    <3>1. i \in 1..k - 1 /\ i \in 1..Len(psz)
      BY <1>1, <1>5, <2>1
    <3>2. t[i] \in DigitSet
      BY <1>1, <3>1
    <3> QED
      BY <3>2 DEF DigitSet
  <2> QED
    BY <2>1
<1> QED
  BY <1>3, <1>4, <1>5 DEF t

\* Some bytes give some digits.
LEMMA EncodeSome ==
  ASSUME NEW b \in Seq(ByteSet), b # << >>
  PROVE  EncodeBase58(b) # << >>
<1>1. PICK t \in Seq(DigitSet) :
        t = EncodeBase58(b) /\ Zeros(t) \o TrimSign(getvch(Value(t, Digits))) = b
  BY Base58
<1>2. t # << >>
  <2>1. SUFFICES ASSUME t = << >> PROVE FALSE
    OBVIOUS
  <2>2. Value(t, Digits) = 0 /\ InBase(0, Base) = << >>
    BY <2>1, Radices, ValueIs, InBaseIs DEF Radix
  <2>3. TrimSign(getvch(Value(t, Digits))) = << >>
    BY <2>2, SignTrimmed
  <2>4. PICK r \in Seq(Nat) : Zeros(t) \in Seq({0}) /\ t = Zeros(t) \o r
    <3>1. Nat \in SUBSET Nat /\ t \in Seq(Nat)
      BY Radices, SeqMonotonic
    <3> QED
      BY <3>1, ZerosSplit
  <2>5. Zeros(t) = << >>
    <3>1. PICK z \in Seq(Nat) : z = Zeros(t)
      BY <2>4, SeqMonotonic
    <3>2. Len(z \o r) = Len(z) + Len(r) /\ Len(z) \in Nat /\ Len(r) \in Nat
      BY ConcatProperties, LenProperties
    <3>3. z \o r = << >>
      BY <2>1, <2>4, <3>1
    <3>4. Len(z) = 0
      BY <3>2, <3>3
    <3> QED
      BY <3>1, <3>4, EmptySeq
  <2>6. << >> \o << >> = << >>
    OBVIOUS
  <2> QED
    BY <1>1, <2>3, <2>5, <2>6
<1> QED
  BY <1>1, <1>2

\* base58 gives back the bytes it was given, blanks around the text or not.
LEMMA DecodeEncode ==
  ASSUME NEW b \in Seq(ByteSet), b # << >>,
         NEW before \in Seq({Blank}), NEW after \in Seq({Blank})
  PROVE  DecodeBase58(before \o EncodeBase58(b) \o after) = Bytes(b)
<1>1. PICK t \in Seq(DigitSet) :
        t = EncodeBase58(b) /\ Zeros(t) \o TrimSign(getvch(Value(t, Digits))) = b
  BY Base58
<1>2. t # << >>
  BY <1>1, EncodeSome
<1>3. before \in Seq(Chars) /\ t \in Seq(Chars) /\ after \in Seq(Chars)
  BY SeqMonotonic DEF Chars
<1>4. /\ Len(before) \in Nat /\ Len(t) \in Nat \ {0} /\ Len(after) \in Nat
      /\ \A i \in 1..Len(before) : before[i] = Blank
      /\ \A i \in 1..Len(after) : after[i] = Blank
      /\ \A i \in 1..Len(t) : t[i] \in DigitSet
  <2>1. Len(t) # 0
    BY <1>2, EmptySeq
  <2> QED
    BY <2>1, LenProperties, ElementOfSeq
<1> DEFINE txt == before \o t \o after
           psz  == t \o after
<1>5. psz \in Seq(Chars) /\ txt = before \o psz /\ txt \in Seq(Chars)
      /\ Len(psz) = Len(t) + Len(after) /\ Len(txt) = Len(before) + Len(psz)
  BY <1>3, ConcatProperties, ConcatAssociative
<1>5a. /\ Len(before) + 1 \in 1..Len(txt) /\ Len(t) + 1 \in 1..Len(psz) + 1
       /\ Len(psz) \in Nat /\ Len(txt) \in Nat
  <2> HIDE DEF txt, psz
  <2> QED
    BY <1>4, <1>5
<1>6. /\ \A i \in 1..Len(psz) : psz[i] = IF i <= Len(t) THEN t[i] ELSE after[i - Len(t)]
      /\ \A i \in 1..Len(txt) : txt[i] = IF i <= Len(before) THEN before[i]
                                           ELSE psz[i - Len(before)]
  BY <1>3, <1>5, ConcatProperties
<1> HIDE DEF txt, psz
<1>7. SelectInSeq(Append(txt, 0), LAMBDA c : c # Blank) = Len(before) + 1
  <2>1. PICK k \in 1..Len(txt) : k = Len(before) + 1 /\ k - Len(before) = 1 /\ ~(k <= Len(before))
    BY <1>4, <1>5a
  <2>2. txt[k] = t[1]
    BY <1>4, <1>5, <1>6, <2>1
  <2>3. txt[k] # Blank
    BY <1>4, <2>2, CharsApart
  <2>4. \A i \in 1..k - 1 : txt[i] = Blank
    BY <1>4, <1>5, <1>6, <2>1
  <2> QED
    BY <1>5, <2>1, <2>3, <2>4, BlanksSkipped
<1>8. SubSeq(txt, Len(before) + 1, Len(txt)) = psz
  BY <1>4, <1>5, SuffixOf
<1>9. SelectInSeq(Append(psz, Blank), LAMBDA c : c \notin 0..Digits - 1) = Len(t) + 1
  <2>1. PICK k \in 1..Len(psz) + 1 : k = Len(t) + 1 /\ k - 1 = Len(t)
    BY <1>4, <1>5a
  <2>2. \A i \in 1..k - 1 : psz[i] \in DigitSet
    BY <1>4, <1>5, <1>6, <2>1
  <2>3. ASSUME k <= Len(psz) PROVE psz[k] \notin DigitSet
    <3>1. k \in 1..Len(psz) /\ ~(k <= Len(t)) /\ k - Len(t) = 1 /\ 1 \in 1..Len(after)
      BY <1>4, <1>5, <1>5a, <2>1, <2>3
    <3>2. psz[k] = Blank
      BY <1>4, <1>6, <3>1
    <3> QED
      BY <3>2, CharsApart
  <2> QED
    BY <1>5, <2>1, <2>2, <2>3, DigitsEnd
<1>10. SubSeq(psz, 1, (Len(t) + 1) - 1) = t
  BY <1>3, <1>4, PrefixOf DEF psz
<1>11. \A k \in Len(t) + 1..Len(psz) : psz[k] = Blank
  <2> SUFFICES ASSUME NEW k \in Len(t) + 1..Len(psz) PROVE psz[k] = Blank
    OBVIOUS
  <2>1. k \in 1..Len(psz) /\ ~(k <= Len(t)) /\ k - Len(t) \in 1..Len(after)
    BY <1>4, <1>5
  <2> QED
    BY <1>4, <1>6, <2>1
<1>12. DecodeBase58(txt) = Bytes(Zeros(t) \o TrimSign(getvch(Value(t, Digits))))
  BY <1>7, <1>8, <1>9, <1>10, <1>11 DEF DecodeBase58
<1> QED
  BY <1>1, <1>12 DEF txt

\* The O of the prefix stops the reading: only blanks may follow the digits.
LEMMA DecodeRefuses ==
  ASSUME NEW txt \in Seq(Chars), NEW k \in Nat \ {0}, k + 1 <= Len(txt),
         \A i \in 1..k - 1 : txt[i] = Blank, txt[k] \in DigitSet, txt[k + 1] = LetterO
  PROVE  DecodeBase58(txt) = Throw
<1> DEFINE n == Len(txt)
           psz == SubSeq(txt, k, n)
<1>1. n \in Nat /\ \A i \in 1..n : txt[i] \in Chars
  BY LenProperties, ElementOfSeq
<1>2. SelectInSeq(Append(txt, 0), LAMBDA c : c # Blank) = k
  <2>1. k \in 1..n /\ txt[k] # Blank
    BY <1>1, CharsApart
  <2> QED
    BY <2>1, BlanksSkipped
<1>3. /\ psz \in Seq(Chars) /\ Len(psz) = n - k + 1 /\ Len(psz) \in Nat /\ Len(psz) >= 2
      /\ psz[1] = txt[k] /\ psz[2] = txt[k + 1]
  <2>1. \A i \in k..n : txt[i] \in Chars
    BY <1>1
  <2>2. /\ psz \in Seq(Chars) /\ Len(psz) = IF k <= n THEN n - k + 1 ELSE 0
        /\ \A i \in 1..n - k + 1 : psz[i] = txt[k + i - 1]
    BY <1>1, <2>1, SubSeqProperties
  <2>3. 1 \in 1..n - k + 1 /\ 2 \in 1..n - k + 1 /\ k + 1 - 1 = k /\ k + 2 - 1 = k + 1
    BY <1>1
  <2> HIDE DEF psz, n
  <2> QED
    BY <1>1, <2>2, <2>3 DEF n
<1> HIDE DEF psz
<1>4. SelectInSeq(Append(psz, Blank), LAMBDA c : c \notin 0..Digits - 1) = 2
  <2>1. 2 \in 1..Len(psz) + 1 /\ (\A i \in 1..2 - 1 : psz[i] \in DigitSet) /\ psz[2] \notin DigitSet
    BY <1>3, CharsApart
  <2> QED
    BY <1>3, <2>1, DigitsEnd
<1>5. \E i \in 2..Len(psz) : psz[i] # Blank
  BY <1>3, CharsApart
<1> QED
  BY <1>2, <1>4, <1>5 DEF DecodeBase58, psz, n
-----------------------------------------------------------------------------
(* private_key.cpp and public_key.cpp *)

\* A string of n bytes is a sequence of n bytes.
LEMMA BlobIs ==
  ASSUME NEW n \in Nat, NEW b \in Blobs(n)
  PROVE  b \in Seq(ByteSet) /\ Len(b) = n /\ \A i \in 1..n : b[i] \in ByteSet
<1>1. b \in [1..n -> ByteSet]
  BY DEF Blobs, ByteSet
<1>2. b \in Seq(ByteSet)
  BY <1>1, IsASeq
<1>3. Len(b) = n
  BY <1>1, <1>2, LenProperties
<1> QED
  BY <1>1, <1>2, <1>3

\* What is encoded of a private key.
LEMMA WifData ==
  ASSUME NEW key \in Secrets
  PROVE  LET data  == <<MainNet>> \o key
             check == SubSeq(Hash(Hash(data, KeyBytes), KeyBytes), 1, CheckBytes)
         IN  /\ data \in Seq(ByteSet) /\ Len(data) = KeyBytes + 1
             /\ \A i \in 1..KeyBytes : data[i + 1] = key[i]
             /\ check \in Seq(ByteSet) /\ Len(check) = CheckBytes
             /\ key \in Seq(ByteSet) /\ Len(key) = KeyBytes
<1> DEFINE data == <<MainNet>> \o key
           one == Hash(data, KeyBytes)
           two == Hash(one, KeyBytes)
<1>1. KeyBytes \in Nat /\ CheckBytes \in Nat /\ CheckBytes <= KeyBytes
  BY KeyTextConsts
<1>2. key \in Seq(ByteSet) /\ Len(key) = KeyBytes
  BY <1>1, BlobIs, KeyTextConsts
<1>3. <<MainNet>> \in Seq(ByteSet) /\ Len(<<MainNet>>) = 1
  BY KeyTextConsts DEF ByteSet
<1>4. /\ data \in Seq(ByteSet) /\ Len(data) = 1 + Len(key)
      /\ \A i \in 1..Len(data) : data[i] = IF i <= 1 THEN <<MainNet>>[i] ELSE key[i - 1]
  BY <1>2, <1>3, ConcatProperties
<1>5. \A i \in 1..KeyBytes : data[i + 1] = key[i]
  <2> HIDE DEF data
  <2> SUFFICES ASSUME NEW i \in 1..KeyBytes PROVE data[i + 1] = key[i]
    OBVIOUS
  <2>1. i + 1 \in 1..Len(data) /\ ~(i + 1 <= 1) /\ (i + 1) - 1 = i
    BY <1>1, <1>2, <1>4
  <2> QED
    BY <1>4, <2>1
<1>6. two \in Blobs(KeyBytes)
  <2>1. one \in Blobs(KeyBytes)
    BY KeyTextConsts
  <2> QED
    BY <2>1, KeyTextConsts
<1> HIDE DEF two
<1>7. SubSeq(two, 1, CheckBytes) \in Seq(ByteSet) /\ Len(SubSeq(two, 1, CheckBytes)) = CheckBytes
  <2>1. \A i \in 1..CheckBytes : two[i] \in ByteSet
    BY <1>1, <1>6, BlobIs
  <2>2. /\ SubSeq(two, 1, CheckBytes) \in Seq(ByteSet)
        /\ Len(SubSeq(two, 1, CheckBytes)) = IF 1 <= CheckBytes THEN CheckBytes - 1 + 1 ELSE 0
    BY <1>1, <2>1, SubSeqProperties
  <2> QED
    BY <1>1, <2>2
<1> QED
  BY <1>1, <1>2, <1>4, <1>5, <1>7 DEF two

\* A private key is read back from its text.
LEMMA PrivateReadBack ==
  ASSUME NEW key \in Secrets, NEW before \in Seq({Blank}), NEW after \in Seq({Blank})
  PROVE  from_wif(before \o to_wif(key) \o after) = Bytes(key)
<1> DEFINE data  == <<MainNet>> \o key
           one   == Hash(data, KeyBytes)
           check == SubSeq(Hash(one, KeyBytes), 1, CheckBytes)
           wif   == data \o check
           txt  == before \o to_wif(key) \o after
<1>1. /\ data \in Seq(ByteSet) /\ Len(data) = KeyBytes + 1
      /\ \A i \in 1..KeyBytes : data[i + 1] = key[i]
      /\ check \in Seq(ByteSet) /\ Len(check) = CheckBytes
      /\ key \in Seq(ByteSet) /\ Len(key) = KeyBytes
      /\ KeyBytes \in Nat /\ CheckBytes \in Nat
  BY WifData, KeyTextConsts
<1>2. to_wif(key) = EncodeBase58(wif)
  BY DEF to_wif
<1> HIDE DEF data, check
<1>3. wif \in Seq(ByteSet) /\ Len(wif) = KeyBytes + 1 + CheckBytes /\ wif # << >>
      /\ \A i \in 1..KeyBytes + 1 : wif[i] = data[i]
  <2>1. data \in Seq(ByteSet) /\ check \in Seq(ByteSet)
    BY <1>1
  <2>2. /\ wif \in Seq(ByteSet) /\ Len(wif) = Len(data) + Len(check)
        /\ \A i \in 1..Len(wif) : wif[i] = IF i <= Len(data) THEN data[i] ELSE check[i - Len(data)]
    BY <2>1, ConcatProperties
  <2> HIDE DEF wif
  <2>3. Len(wif) # 0
    BY <1>1, <2>2
  <2>4. wif # << >>
    BY <2>3
  <2> QED
    BY <1>1, <2>2, <2>4
<1>4. DecodeBase58(txt) = Bytes(wif)
  BY <1>2, <1>3, DecodeEncode
<1> HIDE DEF txt
<1>5. PICK cut \in Nat : cut = Len(wif) - CheckBytes /\ cut = KeyBytes + 1 /\ cut = Len(data) /\ ~(cut < 1)
  <2> HIDE DEF wif
  <2> QED
    BY <1>1, <1>3
<1>6. SubSeq(wif, 1, cut) = data
  BY <1>1, <1>5, PrefixOf
<1>7. SubSeq(wif, cut + 1, Len(wif)) = check
  BY <1>1, <1>5, SuffixOf
<1> HIDE DEF wif
<1>8. Fitted(SubSeq(wif, 2, cut)) = key
  <2>1. 2 \in Int /\ \A i \in 2..cut : wif[i] \in ByteSet
    <3>1. \A i \in 2..cut : i \in 1..Len(wif)
      BY <1>1, <1>3, <1>5
    <3> QED
      BY <1>3, <3>1, ElementOfSeq
  <2>2. /\ Len(SubSeq(wif, 2, cut)) = IF 2 <= cut THEN cut - 2 + 1 ELSE 0
        /\ SubSeq(wif, 2, cut) \in Seq(ByteSet)
        /\ \A i \in 1..cut - 2 + 1 : SubSeq(wif, 2, cut)[i] = wif[2 + i - 1]
    BY <2>1, SubSeqProperties
  <2> DEFINE u == SubSeq(wif, 2, cut)
  <2> HIDE DEF u
  <2>3. Len(u) = KeyBytes /\ DOMAIN u = 1..KeyBytes
    <3>1. u \in Seq(ByteSet) /\ Len(u) = IF 2 <= cut THEN cut - 2 + 1 ELSE 0
      BY <2>2 DEF u
    <3>2. Len(u) = KeyBytes
      BY <1>1, <1>5, <3>1
    <3> QED
      BY <3>1, <3>2, LenProperties
  <2>4. ASSUME NEW i \in 1..KeyBytes PROVE u[i] = key[i]
    <3>1. i \in 1..cut - 2 + 1 /\ 2 + i - 1 = i + 1 /\ i + 1 \in 1..KeyBytes + 1
      BY <1>1, <1>5
    <3> QED
      BY <1>1, <1>3, <2>2, <3>1 DEF u
  <2>5. key = [i \in 1..KeyBytes |-> key[i]]
    BY <1>1, LenProperties
  <2>6. Fitted(u) = key
    BY <2>3, <2>4, <2>5 DEF Fitted
  <2> QED
    BY <2>6 DEF u
<1>9. check \in {SubSeq(h, 1, CheckBytes) : h \in {one, Hash(one, KeyBytes)}}
  BY DEF check
<1>10. DecodeBase58(txt).ok /\ DecodeBase58(txt).bytes = wif
  BY <1>4 DEF Bytes
<1> HIDE DEF one
<1>11. from_wif(txt) = Bytes(Fitted(SubSeq(wif, 2, cut)))
  <2>1. Hash(SubSeq(wif, 1, cut), KeyBytes) = one
    BY <1>6 DEF one
  <2> QED
    BY <1>5, <1>7, <1>9, <1>10, <2>1 DEF from_wif
<1> QED
  BY <1>8, <1>11 DEF txt

\* The characters of a text with blanks around it.
LEMMA Surrounded ==
  ASSUME NEW before \in Seq({Blank}), NEW t \in Seq(Chars), NEW after \in Seq({Blank})
  PROVE  LET txt == before \o t \o after
         IN  /\ txt \in Seq(Chars)
             /\ Len(txt) = Len(before) + Len(t) + Len(after)
             /\ \A i \in 1..Len(txt) :
                  txt[i] = IF i <= Len(before) THEN Blank
                            ELSE IF i <= Len(before) + Len(t) THEN t[i - Len(before)]
                            ELSE Blank
<1> DEFINE left == before \o t
           txt == left \o after
<1>1. before \in Seq(Chars) /\ after \in Seq(Chars)
  BY SeqMonotonic DEF Chars
<1>2. /\ Len(before) \in Nat /\ Len(t) \in Nat /\ Len(after) \in Nat
      /\ \A i \in 1..Len(before) : before[i] = Blank
      /\ \A i \in 1..Len(after) : after[i] = Blank
  BY LenProperties, ElementOfSeq
<1>3. /\ left \in Seq(Chars) /\ Len(left) = Len(before) + Len(t)
      /\ \A i \in 1..Len(left) : left[i] = IF i <= Len(before) THEN before[i]
                                           ELSE t[i - Len(before)]
  BY <1>1, ConcatProperties
<1> HIDE DEF left
<1>4. /\ txt \in Seq(Chars) /\ Len(txt) = Len(left) + Len(after)
      /\ \A i \in 1..Len(txt) : txt[i] = IF i <= Len(left) THEN left[i]
                                           ELSE after[i - Len(left)]
  <2>1. left \in Seq(Chars) /\ after \in Seq(Chars)
    BY <1>1, <1>3
  <2> QED
    BY <2>1, ConcatProperties
<1> HIDE DEF txt
<1>5. ASSUME NEW i \in 1..Len(txt)
      PROVE  txt[i] = IF i <= Len(before) THEN Blank
                       ELSE IF i <= Len(before) + Len(t) THEN t[i - Len(before)]
                       ELSE Blank
  <2>1. CASE i <= Len(left)
    <3>1. i \in 1..Len(left) /\ txt[i] = left[i]
      BY <1>2, <1>3, <1>4, <2>1
    <3>2. i <= Len(before) => before[i] = Blank
      BY <1>2
    <3> QED
      BY <1>3, <2>1, <3>1, <3>2
  <2>2. CASE ~(i <= Len(left))
    <3>1. i - Len(left) \in 1..Len(after)
      BY <1>2, <1>3, <1>4, <2>2
    <3>2. ~(i <= Len(before))
      BY <1>2, <1>3, <2>2
    <3> QED
      BY <1>2, <1>3, <1>4, <2>2, <3>1, <3>2
  <2> QED
    BY <2>1, <2>2
<1> QED
  BY <1>2, <1>3, <1>4, <1>5 DEF txt, left

\* No text with the prefix is without its O.
LEMMA PrefixHasO ==
  ASSUME NEW txt \in Seq(Chars), Len(txt) > 3, SubSeq(txt, 1, 3) = legacy_prefix
  PROVE  txt[1] = LetterU /\ txt[2] = LetterO
<1>1. \A i \in 1..3 : txt[i] \in Chars
  BY LenProperties, ElementOfSeq
<1>2. \A i \in 1..3 - 1 + 1 : SubSeq(txt, 1, 3)[i] = txt[1 + i - 1]
  BY <1>1, SubSeqProperties
<1>3. SubSeq(txt, 1, 3)[1] = txt[1] /\ SubSeq(txt, 1, 3)[2] = txt[2]
  BY <1>2
<1>4. legacy_prefix[1] = LetterU /\ legacy_prefix[2] = LetterO
  BY DEF legacy_prefix
<1> QED
  BY <1>3, <1>4

\* A private key is never read as a public one.
LEMMA PrivateRefused ==
  ASSUME NEW key \in Secrets, NEW before \in Seq({Blank}), NEW after \in Seq({Blank})
  PROVE  ~FromLegacy(before \o to_wif(key) \o after).ok
<1>1. PICK t \in Seq(DigitSet) : t = to_wif(key)
  <2> DEFINE data  == <<MainNet>> \o key
             check == SubSeq(Hash(Hash(data, KeyBytes), KeyBytes), 1, CheckBytes)
  <2>1. data \in Seq(ByteSet) /\ check \in Seq(ByteSet)
    BY WifData
  <2>2. to_wif(key) = EncodeBase58(data \o check)
    BY DEF to_wif
  <2> HIDE DEF data, check
  <2>3. data \o check \in Seq(ByteSet)
    BY <2>1, ConcatProperties
  <2> QED
    BY <2>2, <2>3, Base58
<1> DEFINE txt == before \o t \o after
<1>2. t \in Seq(Chars) /\ Len(t) \in Nat /\ Len(before) \in Nat /\ \A i \in 1..Len(t) : t[i] \in DigitSet
  BY SeqMonotonic, LenProperties, ElementOfSeq DEF Chars
<1>3. /\ txt \in Seq(Chars)
      /\ \A i \in 1..Len(txt) :
           txt[i] = IF i <= Len(before) THEN Blank
                     ELSE IF i <= Len(before) + Len(t) THEN t[i - Len(before)]
                     ELSE Blank
  BY <1>2, Surrounded
<1> HIDE DEF txt
<1>4. \A i \in 1..Len(txt) : txt[i] # LetterO
  <2> SUFFICES ASSUME NEW i \in 1..Len(txt) PROVE txt[i] # LetterO
    OBVIOUS
  <2>1. ASSUME ~(i <= Len(before)), i <= Len(before) + Len(t) PROVE t[i - Len(before)] # LetterO
    <3>1. i - Len(before) \in 1..Len(t)
      BY <1>2, <2>1
    <3> QED
      BY <1>2, <3>1, CharsApart
  <2> QED
    BY <1>3, <2>1, CharsApart
<1>5. ASSUME Len(txt) > 3, SubSeq(txt, 1, 3) = legacy_prefix PROVE FALSE
  <2>1. txt[2] = LetterO
    BY <1>3, <1>5, PrefixHasO
  <2>2. 2 \in 1..Len(txt)
    BY <1>3, <1>5, LenProperties
  <2> QED
    BY <1>4, <2>1, <2>2
<1>6. FromLegacy(txt) = Throw
  BY <1>5 DEF FromLegacy
<1> QED
  BY <1>1, <1>6 DEF Throw, txt

\* What is encoded of a public key.
LEMMA LegacyData ==
  ASSUME NEW key \in Secrets
  PROVE  LET data  == PublicOf(key)
             check == Hash(data, CheckBytes)
         IN  /\ data \in Seq(ByteSet) /\ Len(data) = PubBytes
             /\ check \in Seq(ByteSet) /\ Len(check) = CheckBytes
             /\ data \o check \in Seq(ByteSet) /\ Len(data \o check) = PubBytes + CheckBytes
             /\ data \o check # << >>
<1> DEFINE data  == PublicOf(key)
           check == Hash(data, CheckBytes)
<1>1. PubBytes \in Nat \ {0} /\ CheckBytes \in Nat
  BY KeyTextConsts
<1>2. data \in Blobs(PubBytes) /\ check \in Blobs(CheckBytes)
  BY KeyTextConsts
<1> HIDE DEF check, data
<1>3. data \in Seq(ByteSet) /\ Len(data) = PubBytes /\ check \in Seq(ByteSet) /\ Len(check) = CheckBytes
  BY <1>1, <1>2, BlobIs
<1>4. data \o check \in Seq(ByteSet) /\ Len(data \o check) = Len(data) + Len(check)
  <2>1. data \in Seq(ByteSet) /\ check \in Seq(ByteSet)
    BY <1>3
  <2> QED
    BY <2>1, ConcatProperties
<1> DEFINE both == data \o check
<1> HIDE DEF both
<1>5. Len(both) = PubBytes + CheckBytes /\ Len(both) # 0
  BY <1>1, <1>3, <1>4 DEF both
<1>6. both # << >>
  BY <1>5
<1> QED
  BY <1>3, <1>4, <1>5, <1>6 DEF check, data, both

\* The text of a public key: the prefix, and digits.
LEMMA LegacyText ==
  ASSUME NEW key \in Secrets
  PROVE  LET digits == EncodeBase58(PublicOf(key) \o Hash(PublicOf(key), CheckBytes))
             txt   == ToLegacy(PublicOf(key))
         IN  /\ digits \in Seq(Chars) /\ Len(digits) \in Nat /\ Len(digits) > 0
             /\ legacy_prefix \in Seq(Chars) /\ Len(legacy_prefix) = 3
             /\ txt = legacy_prefix \o digits
             /\ txt \in Seq(Chars) /\ Len(txt) = 3 + Len(digits)
             /\ txt[1] = LetterU /\ txt[2] = LetterO
<1> DEFINE both   == PublicOf(key) \o Hash(PublicOf(key), CheckBytes)
           digits == EncodeBase58(both)
           txt   == ToLegacy(PublicOf(key))
<1>1. both \in Seq(ByteSet) /\ both # << >>
  BY LegacyData
<1> HIDE DEF both
<1>2. digits \in Seq(DigitSet)
  BY <1>1, Base58
<1>3. digits # << >>
  BY <1>1, EncodeSome
<1>4. digits \in Seq(Chars) /\ Len(digits) \in Nat /\ Len(digits) > 0
  <2>1. digits \in Seq(Chars)
    BY <1>2, SeqMonotonic DEF Chars
  <2>2. Len(digits) # 0
    BY <1>2, <1>3, EmptySeq
  <2> QED
    BY <2>1, <2>2, LenProperties
<1> HIDE DEF digits
<1>5. /\ legacy_prefix \in Seq(Chars) /\ Len(legacy_prefix) = 3
      /\ legacy_prefix[1] = LetterU /\ legacy_prefix[2] = LetterO
  BY CharsApart DEF legacy_prefix, Chars
<1>6. txt = legacy_prefix \o digits
  BY DEF ToLegacy, digits, both
<1> HIDE DEF txt
<1>7. /\ txt \in Seq(Chars) /\ Len(txt) = Len(legacy_prefix) + Len(digits)
      /\ \A i \in 1..Len(txt) : txt[i] = IF i <= Len(legacy_prefix) THEN legacy_prefix[i]
                                           ELSE digits[i - Len(legacy_prefix)]
  <2>1. legacy_prefix \in Seq(Chars) /\ digits \in Seq(Chars)
    BY <1>4, <1>5
  <2> QED
    BY <1>6, <2>1, ConcatProperties
<1>8. 1 \in 1..Len(txt) /\ 2 \in 1..Len(txt) /\ 1 <= Len(legacy_prefix) /\ 2 <= Len(legacy_prefix)
  BY <1>4, <1>5, <1>7
<1>9. txt[1] = LetterU /\ txt[2] = LetterO
  BY <1>5, <1>7, <1>8
<1> QED
  BY <1>4, <1>5, <1>6, <1>7, <1>9 DEF txt, digits, both

\* A public key is read back from its text, blanks after it or not.
LEMMA PublicReadBack ==
  ASSUME NEW key \in Secrets, NEW after \in Seq({Blank})
  PROVE  FromLegacy(<< >> \o ToLegacy(PublicOf(key)) \o after) = Bytes(PublicOf(key))
<1> DEFINE data   == PublicOf(key)
           check  == Hash(data, CheckBytes)
           both   == data \o check
           digits == EncodeBase58(both)
           txt   == << >> \o ToLegacy(data) \o after
<1>1. /\ digits \in Seq(Chars) /\ Len(digits) \in Nat /\ Len(digits) > 0
      /\ legacy_prefix \in Seq(Chars) /\ Len(legacy_prefix) = 3
      /\ ToLegacy(data) = legacy_prefix \o digits
  BY LegacyText
<1>2. /\ data \in Seq(ByteSet) /\ Len(data) = PubBytes
      /\ check \in Seq(ByteSet) /\ Len(check) = CheckBytes
      /\ both \in Seq(ByteSet) /\ Len(both) = PubBytes + CheckBytes /\ both # << >>
      /\ PubBytes \in Nat /\ CheckBytes \in Nat
  BY LegacyData, KeyTextConsts
<1>3. << >> \in Seq({Blank}) /\ after \in Seq(Chars) /\ Len(after) \in Nat
  BY SeqMonotonic, LenProperties DEF Chars
<1>4. DecodeBase58(digits \o after) = Bytes(both)
  <2>1. DecodeBase58(<< >> \o digits \o after) = Bytes(both)
    <3> HIDE DEF both
    <3> QED
      BY <1>2, <1>3, DecodeEncode
  <2>2. << >> \o digits = digits
    <3> HIDE DEF digits
    <3> QED
      BY <1>1, ConcatEmptySeq
  <2> QED
    BY <2>1, <2>2
<1>5. SubSeq(both, 1, PubBytes) = data
  <2> HIDE DEF data, check
  <2> QED
    BY <1>2, PrefixOf
<1>6. SubSeq(both, PubBytes + 1, Len(both)) = check
  <2> HIDE DEF data, check
  <2> QED
    BY <1>2, SuffixOf
<1> HIDE DEF data, check, both, digits
<1> DEFINE rest == digits \o after
<1>7. rest \in Seq(Chars) /\ Len(rest) = Len(digits) + Len(after)
  <2>1. digits \in Seq(Chars) /\ after \in Seq(Chars)
    BY <1>1, <1>3
  <2> QED
    BY <2>1, ConcatProperties
<1>8. txt = legacy_prefix \o rest
  <2>1. legacy_prefix \in Seq(Chars) /\ digits \in Seq(Chars) /\ after \in Seq(Chars)
    BY <1>1, <1>3
  <2>2. (legacy_prefix \o digits) \o after = legacy_prefix \o (digits \o after)
    BY <2>1, ConcatAssociative
  <2>3. << >> \o (legacy_prefix \o digits) = legacy_prefix \o digits
    <3>1. legacy_prefix \o digits \in Seq(Chars)
      BY <2>1, ConcatProperties
    <3> QED
      BY <3>1, ConcatEmptySeq
  <2> QED
    BY <1>1, <2>2, <2>3
<1> HIDE DEF rest, txt
<1>9. SubSeq(txt, 1, 3) = legacy_prefix /\ SubSeq(txt, 4, Len(txt)) = rest
      /\ Len(txt) = 3 + Len(rest)
  <2>1. legacy_prefix \in Seq(Chars) /\ rest \in Seq(Chars)
    BY <1>1, <1>7
  <2>2. /\ SubSeq(txt, 1, Len(legacy_prefix)) = legacy_prefix
        /\ SubSeq(txt, Len(legacy_prefix) + 1, Len(txt)) = rest
        /\ Len(txt) = Len(legacy_prefix) + Len(rest)
    BY <1>8, <2>1, PrefixOf, SuffixOf, ConcatProperties
  <2> QED
    BY <1>1, <2>2
<1>10. Len(txt) > 3
  BY <1>1, <1>3, <1>7, <1>9
<1>11. DecodeBase58(SubSeq(txt, 4, Len(txt))) = Bytes(both)
  BY <1>4, <1>9 DEF rest
<1>12. FromLegacy(txt) = Bytes(data)
  <2>1. Bytes(both).ok /\ Bytes(both).bytes = both
    BY DEF Bytes
  <2>2. Hash(data, CheckBytes) = check
    BY DEF check
  <2> QED
    BY <1>2, <1>5, <1>6, <1>9, <1>10, <1>11, <2>1, <2>2 DEF FromLegacy
<1> QED
  BY <1>12 DEF txt, data

\* A blank before the prefix is not skipped.
LEMMA PublicRefused ==
  ASSUME NEW key \in Secrets, NEW after \in Seq({Blank})
  PROVE  FromLegacy(<<Blank>> \o ToLegacy(PublicOf(key)) \o after) = Throw
<1> DEFINE legacy == ToLegacy(PublicOf(key))
           txt   == <<Blank>> \o legacy \o after
<1>1. legacy \in Seq(Chars) /\ <<Blank>> \in Seq({Blank}) /\ Len(<<Blank>>) = 1
  BY LegacyText
<1> HIDE DEF legacy
<1>2. txt \in Seq(Chars) /\ \A i \in 1..Len(txt) : i <= 1 => txt[i] = Blank
  BY <1>1, Surrounded
<1> HIDE DEF txt
<1>3. ASSUME Len(txt) > 3, SubSeq(txt, 1, 3) = legacy_prefix PROVE FALSE
  <2>1. txt[1] = LetterU
    BY <1>2, <1>3, PrefixHasO
  <2>2. 1 \in 1..Len(txt)
    BY <1>2, <1>3, LenProperties
  <2> QED
    BY <1>2, <2>1, <2>2, CharsApart
<1> QED
  BY <1>3 DEF FromLegacy, txt, legacy

\* A public key is never read as a private one.
LEMMA PublicNoSecret ==
  ASSUME NEW key \in Secrets, NEW before \in Seq({Blank}), NEW after \in Seq({Blank})
  PROVE  ~from_wif(before \o ToLegacy(PublicOf(key)) \o after).ok
<1> DEFINE legacy == ToLegacy(PublicOf(key))
           txt   == before \o legacy \o after
<1>1. /\ legacy \in Seq(Chars) /\ Len(legacy) \in Nat /\ Len(legacy) > 3
      /\ legacy[1] = LetterU /\ legacy[2] = LetterO
  BY LegacyText
<1> HIDE DEF legacy
<1>2. Len(before) \in Nat /\ Len(after) \in Nat
  BY LenProperties
<1>3. /\ txt \in Seq(Chars) /\ Len(txt) = Len(before) + Len(legacy) + Len(after)
      /\ \A i \in 1..Len(txt) :
           txt[i] = IF i <= Len(before) THEN Blank
                     ELSE IF i <= Len(before) + Len(legacy) THEN legacy[i - Len(before)]
                     ELSE Blank
  BY <1>1, Surrounded
<1> HIDE DEF txt
<1>4. PICK k \in Nat \ {0} : k = Len(before) + 1
  BY <1>2
<1>5. k + 1 <= Len(txt) /\ \A i \in 1..k - 1 : txt[i] = Blank
  BY <1>1, <1>2, <1>3, <1>4
<1>6. txt[k] = LetterU /\ txt[k + 1] = LetterO
  <2>1. k \in 1..Len(txt) /\ ~(k <= Len(before)) /\ k <= Len(before) + Len(legacy) /\ k - Len(before) = 1
    BY <1>1, <1>2, <1>3, <1>4
  <2>2. /\ k + 1 \in 1..Len(txt) /\ ~(k + 1 <= Len(before)) /\ k + 1 <= Len(before) + Len(legacy)
        /\ (k + 1) - Len(before) = 2
    BY <1>1, <1>2, <1>3, <1>4
  <2> QED
    BY <1>1, <1>3, <2>1, <2>2
<1>7. DecodeBase58(txt) = Throw
  BY <1>3, <1>5, <1>6, CharsApart, DecodeRefuses
<1>8. from_wif(txt) = Throw
  BY <1>7 DEF from_wif, Throw
<1> QED
  BY <1>8 DEF Throw, txt, legacy
-----------------------------------------------------------------------------
(* The texts printed are those of the key, so reading them gives it back. *)

KeyPrinted ==
  secret # << >> =>
    /\ secret \in Secrets
    /\ private = to_wif(secret) /\ public = ToLegacy(PublicOf(secret))

\* Reading a printed text gives the key, and as nothing else.
LEMMA PasteReads ==
  ASSUME KeyPrinted, NEW of \in {"private", "public"},
         NEW before \in Blanks, NEW after \in Blanks, Paste(of, before, after)
  PROVE  KeyPrinted' /\ KeysReadBack'
<1>1. before \in Seq({Blank}) /\ after \in Seq({Blank})
  <2>1. << >> \in Seq({Blank}) /\ <<Blank>> \in Seq({Blank})
    OBVIOUS
  <2> QED
    BY <2>1 DEF Blanks
<1>2. PICK key \in Secrets :
        key = secret /\ private = to_wif(key) /\ public = ToLegacy(PublicOf(key))
  BY DEF Paste, KeyPrinted
<1>3. secret' = secret /\ private' = private /\ public' = public
  BY DEF Paste
<1>4. CASE of = "private"
  <2> DEFINE txt == before \o to_wif(key) \o after
  <2>1. from_wif(txt) = Bytes(key) /\ ~FromLegacy(txt).ok
    BY <1>1, PrivateReadBack, PrivateRefused
  <2>2. pasted' = [asPrivate |-> from_wif(txt), asPublic |-> FromLegacy(txt),
                   of |-> of, before |-> before]
    BY <1>2, <1>4 DEF Paste
  <2> HIDE DEF txt
  <2>3. KeysReadBack'
    BY <1>2, <1>3, <1>4, <2>1, <2>2 DEF KeysReadBack
  <2> QED
    BY <1>3, <2>3 DEF KeyPrinted
<1>5. CASE of = "public"
  <2> DEFINE txt == before \o ToLegacy(PublicOf(key)) \o after
  <2>1. ~from_wif(txt).ok
    BY <1>1, PublicNoSecret
  <2>2. FromLegacy(txt) = IF before = << >> THEN Bytes(PublicOf(key)) ELSE Throw
    <3>1. CASE before = << >>
      BY <1>1, <3>1, PublicReadBack
    <3>2. CASE before = <<Blank>>
      <4>1. before # << >>
        BY <3>2
      <4> QED
        BY <1>1, <3>2, <4>1, PublicRefused
    <3> QED
      BY <3>1, <3>2 DEF Blanks
  <2>3. pasted' = [asPrivate |-> from_wif(txt), asPublic |-> FromLegacy(txt),
                   of |-> of, before |-> before]
    BY <1>2, <1>5 DEF Paste
  <2> HIDE DEF txt
  <2>4. KeysReadBack'
    BY <1>2, <1>3, <1>5, <2>1, <2>2, <2>3 DEF KeysReadBack
  <2> QED
    BY <1>3, <2>4 DEF KeyPrinted
<1> QED
  BY <1>4, <1>5

\* Every key uoskey prints is read back, and as nothing else (KeysReadBack).
THEOREM KeysRead == ToolsSpec => []KeysReadBack
<1>1. ToolsInit => KeyPrinted /\ KeysReadBack
  BY DEF ToolsInit, Idle, NothingRead, KeyPrinted, KeysReadBack
<1>2. KeyPrinted /\ KeysReadBack /\ [ToolsNext]_<<tool, vars, keyvars>> =>
        KeyPrinted' /\ KeysReadBack'
  <2> SUFFICES ASSUME KeyPrinted, KeysReadBack, [ToolsNext]_<<tool, vars, keyvars>>
               PROVE  KeyPrinted' /\ KeysReadBack'
    OBVIOUS
  <2>1. CASE UNCHANGED keyvars
    BY <2>1 DEF keyvars, KeyPrinted, KeysReadBack
  <2>2. ASSUME NEW key \in Secrets, GenerateKey(key) PROVE KeyPrinted' /\ KeysReadBack'
    BY <2>2 DEF GenerateKey, NothingRead, KeyPrinted, KeysReadBack
  <2>3. ASSUME NEW of \in {"private", "public"}, NEW before \in Blanks, NEW after \in Blanks,
               Paste(of, before, after)
        PROVE  KeyPrinted' /\ KeysReadBack'
    BY <2>3, PasteReads
  <2>4. CASE KeyNext
    BY <2>2, <2>3, <2>4 DEF KeyNext
  <2> QED
    BY <2>1, <2>4 DEF ToolsNext
<1> QED
  BY <1>1, <1>2, PTL DEF ToolsSpec

-----------------------------------------------------------------------------
(* Bits. *)

\* TwoTo turns sums into products.
LEMMA TwoToSum ==
  ASSUME NEW j \in Nat, NEW k \in Nat
  PROVE  TwoTo(j + k) = TwoTo(j) * TwoTo(k)
<1> DEFINE T == {i \in 0..k : TwoTo(j + i) = TwoTo(j) * TwoTo(i)}
<1>1. 0 \in T
  <2>1. j + 0 = j /\ 0 \in 0..k /\ TwoTo(j) \in Nat
    BY TwoToIs
  <2> QED
    BY <2>1, TwoToIs
<1>2. ASSUME NEW i \in 1..k, i - 1 \in T PROVE i \in T
  <2>1. i - 1 \in Nat /\ j + (i - 1) \in Nat /\ (i - 1) + 1 = i /\ (j + (i - 1)) + 1 = j + i /\ i \in 0..k
    OBVIOUS
  <2>2. TwoTo(j + i) = 2 * TwoTo(j + (i - 1)) /\ TwoTo(i) = 2 * TwoTo(i - 1)
    BY <2>1, TwoToIs
  <2>3. TwoTo(j + (i - 1)) = TwoTo(j) * TwoTo(i - 1)
    BY <1>2
  <2>4. PICK x \in Nat, y \in Nat : x = TwoTo(j) /\ y = TwoTo(i - 1)
    BY <2>1, TwoToIs
  <2>5. 2 * (x * y) = x * (2 * y)
    OBVIOUS
  <2> QED
    BY <2>1, <2>2, <2>3, <2>4, <2>5
<1> HIDE DEF T
<1>3. k \in T
  BY <1>1, <1>2, UpTo
<1> QED
  BY <1>3 DEF T

\* A number is its quotient and its rest.
LEMMA Quotient ==
  ASSUME NEW n \in Nat, NEW b \in Nat \ {0}
  PROVE  /\ n \div b \in Nat /\ n % b \in 0..b - 1 /\ n = (n \div b) * b + (n % b)
         /\ n < b => n \div b = 0 /\ n % b = n
BY SMTT(30)

\* A number put together of a quotient and a remainder has those.
LEMMA QuotientIs ==
  ASSUME NEW q \in Nat, NEW b \in Nat \ {0}, NEW r \in 0..b - 1
  PROVE  /\ q * b + r \in Nat /\ (q * b + r) \div b = q /\ (q * b + r) % b = r
BY SMTT(30)

\* Shifting twice is shifting once by both.
LEMMA QuotientTwice ==
  ASSUME NEW n \in Nat, NEW b \in Nat \ {0}, NEW c \in Nat \ {0}
  PROVE  (n \div b) \div c = n \div (b * c)
BY SMTT(30)

\* One bit more of a number.
LEMMA NextBit ==
  ASSUME NEW n \in Nat, NEW k \in Nat
  PROVE  /\ Bit(n, k) \in 0..1
         /\ n % TwoTo(k + 1) = (n % TwoTo(k)) + (IF Bit(n, k) = 1 THEN TwoTo(k) ELSE 0)
<1>1. PICK t \in Nat \ {0} : t = TwoTo(k) /\ TwoTo(k + 1) = 2 * t
  BY TwoToIs
<1>2. PICK q \in Nat, r \in Nat : q = n \div t /\ r = n % t /\ r < t /\ n = q * t + r
  BY Quotient
<1>3. PICK h \in Nat, b \in 0..1 : b = q % 2 /\ q = 2 * h + b
  <2>1. q \div 2 \in Nat /\ q % 2 \in 0..1 /\ q = 2 * (q \div 2) + (q % 2)
    OBVIOUS
  <2> QED
    BY <2>1
<1>4. PICK c \in Nat : c = IF b = 1 THEN t ELSE 0
  OBVIOUS
<1>5. n = h * (2 * t) + (c + r) /\ c + r \in 0..2 * t - 1 /\ 2 * t \in Nat \ {0}
  <2>1. CASE b = 1
    <3>1. q * t = (2 * h + 1) * t /\ (2 * h + 1) * t = h * (2 * t) + t
      BY <1>3, <2>1
    <3> QED
      BY <1>2, <1>4, <2>1, <3>1
  <2>2. CASE b = 0
    <3>1. q * t = (2 * h) * t /\ (2 * h) * t = h * (2 * t)
      BY <1>3, <2>2
    <3> QED
      BY <1>2, <1>4, <2>2, <3>1
  <2> QED
    BY <2>1, <2>2
<1>6. n % (2 * t) = c + r
  BY <1>5, QuotientIs
<1>7. Bit(n, k) = b
  BY <1>1, <1>2, <1>3 DEF Bit
<1>8. c = IF Bit(n, k) = 1 THEN TwoTo(k) ELSE 0
  BY <1>1, <1>4, <1>7
<1>9. n % TwoTo(k + 1) = (n % TwoTo(k)) + c
  <2>1. n % TwoTo(k + 1) = c + r /\ n % TwoTo(k) = r
    BY <1>1, <1>2, <1>6
  <2> QED
    BY <2>1
<1> QED
  BY <1>7, <1>8, <1>9

\* The bits of a multiple of 2^j and of what lies below it do not meet.
LEMMA BitsApart ==
  ASSUME NEW q \in Nat, NEW j \in Nat, NEW b \in Nat, b < TwoTo(j), NEW k \in Nat
  PROVE  LET a == q * TwoTo(j)
         IN  Bit(a + b, k) = 1 <=> Bit(a, k) = 1 \/ Bit(b, k) = 1
<1> DEFINE a == q * TwoTo(j)
<1>1. PICK t \in Nat \ {0} : t = TwoTo(k)
  BY TwoToIs
<1>2. CASE k < j
  <2>1. PICK i \in Nat : j = k + (i + 1)
    <3>1. (j - k) - 1 \in Nat /\ j = k + (((j - k) - 1) + 1)
      BY <1>2
    <3> QED
      BY <3>1
  <2>2. PICK u \in Nat : u = TwoTo(i)
    BY TwoToIs
  <2>3. TwoTo(j) = t * (2 * u)
    <3>1. TwoTo(k + (i + 1)) = TwoTo(k) * TwoTo(i + 1) /\ TwoTo(i + 1) = 2 * TwoTo(i)
      <4>1. i + 1 \in Nat
        OBVIOUS
      <4> QED
        BY <4>1, TwoToSum, TwoToIs
    <3> QED
      BY <1>1, <2>1, <2>2, <3>1
  <2>4. PICK m \in Nat : m = q * u
    BY <2>2
  <2>5. a = (2 * m) * t
    <3>1. q * (t * (2 * u)) = (2 * (q * u)) * t
      OBVIOUS
    <3> QED
      BY <2>3, <2>4, <3>1
  <2>6. PICK c \in Nat, r \in 0..t - 1 : c = b \div t /\ b = c * t + r
    <3>1. b \div t \in Nat /\ b % t \in 0..t - 1 /\ b = (b \div t) * t + (b % t)
      BY Quotient
    <3> QED
      BY <3>1
  <2>7. a \div t = 2 * m
    <3>1. 2 * m \in Nat /\ 0 \in 0..t - 1 /\ (2 * m) * t + 0 = (2 * m) * t
      OBVIOUS
    <3> QED
      BY <2>5, <3>1, QuotientIs
  <2>8. (a + b) \div t = 2 * m + c
    <3>1. 2 * m + c \in Nat /\ a + b = (2 * m + c) * t + r
      <4>1. (2 * m) * t + (c * t + r) = (2 * m + c) * t + r
        OBVIOUS
      <4> QED
        BY <2>5, <2>6, <4>1
    <3> QED
      BY <3>1, QuotientIs
  <2>9. (2 * m) % 2 = 0 /\ (2 * m + c) % 2 = c % 2
    OBVIOUS
  <2> QED
    BY <1>1, <2>6, <2>7, <2>8, <2>9 DEF Bit
<1>3. CASE ~(k < j)
  <2>1. PICK i \in Nat : k = j + i
    <3>1. k - j \in Nat /\ k = j + (k - j)
      BY <1>3
    <3> QED
      BY <3>1
  <2>2. PICK u \in Nat \ {0}, v \in Nat \ {0} : u = TwoTo(i) /\ v = TwoTo(j) /\ t = v * u
    <3>1. TwoTo(i) \in Nat \ {0} /\ TwoTo(j) \in Nat \ {0} /\ TwoTo(j + i) = TwoTo(j) * TwoTo(i)
      BY TwoToSum, TwoToIs
    <3> QED
      BY <1>1, <2>1, <3>1
  <2>3. b \div t = 0
    <3>1. v <= v * u
      OBVIOUS
    <3>2. b < t
      BY <2>2, <3>1
    <3> QED
      BY <3>2, Quotient
  <2>4. PICK c \in Nat, r \in 0..u - 1 : c = q \div u /\ q = c * u + r
    <3>1. q \div u \in Nat /\ q % u \in 0..u - 1 /\ q = (q \div u) * u + (q % u)
      BY Quotient
    <3> QED
      BY <3>1
  <2>5. \A x \in 0..v - 1 : (q * v + x) \div t = c
    <3> SUFFICES ASSUME NEW x \in 0..v - 1 PROVE (q * v + x) \div t = c
      OBVIOUS
    <3>1. PICK y \in Nat : y = r * v + x
      OBVIOUS
    <3>2. q * v + x = c * t + y
      <4>1. (c * u + r) * v + x = c * (v * u) + (r * v + x)
        OBVIOUS
      <4> QED
        BY <2>2, <2>4, <3>1, <4>1
    <3>3. y \in 0..t - 1
      <4>1. r * v <= (u - 1) * v /\ (u - 1) * v = v * u - v
        OBVIOUS
      <4> QED
        BY <2>2, <3>1, <4>1
    <3> QED
      BY <3>2, <3>3, QuotientIs
  <2>6. (a + b) \div t = c /\ a \div t = c
    <3>1. b \in 0..v - 1 /\ 0 \in 0..v - 1 /\ q * v + 0 = q * v
      BY <2>2
    <3> QED
      BY <2>2, <2>5, <3>1
  <2>7. 0 % 2 = 0
    OBVIOUS
  <2> QED
    BY <1>1, <2>3, <2>6, <2>7 DEF Bit
<1> QED
  BY <1>2, <1>3

\* a | b is a + b where the bits do not meet.
OrTurn(a, b, w) ==
  [t \in (1..w) \X Nat |->
     t[2] + (IF Bit(a, t[1] - 1) = 1 \/ Bit(b, t[1] - 1) = 1 THEN TwoTo(t[1] - 1) ELSE 0)]

\* a | b is what is added up bit by bit.
LEMMA OrLoop ==
  ASSUME NEW a \in Nat, NEW b \in Nat, NEW w \in Nat
  PROVE  \E or : Loop(w, Nat, 0, OrTurn(a, b, w), or) /\ BitOr(a, b, w) = or[w]
<1> DEFINE or(k) == IF Bit(a, k - 1) = 1 \/ Bit(b, k - 1) = 1 THEN TwoTo(k - 1) ELSE 0
<1>1. OrTurn(a, b, w) \in [(1..w) \X Nat -> Nat]
  <2>1. ASSUME NEW t \in (1..w) \X Nat PROVE t[2] + or(t[1]) \in Nat
    <3>1. t[1] - 1 \in Nat /\ t[2] \in Nat
      OBVIOUS
    <3>2. TwoTo(t[1] - 1) \in Nat
      BY <3>1, TwoToIs
    <3> QED
      BY <3>1, <3>2
  <2> QED
    BY <2>1 DEF OrTurn
<1>2. PICK f : Loop(w, Nat, 0, OrTurn(a, b, w), f)
  BY <1>1, LoopExists
<1>3. f = [k \in 0..w |-> IF k = 0 THEN 0 ELSE f[k - 1] + or(k)]
  <2>1. f = [k \in 0..w |-> f[k]] /\ f[0] = 0
    BY <1>2 DEF Loop
  <2>2. ASSUME NEW k \in 0..w, k # 0 PROVE f[k] = f[k - 1] + or(k)
    <3>1. k \in 1..w /\ k - 1 \in 0..w
      BY <2>2
    <3>2. f[k - 1] \in Nat /\ f[k] = OrTurn(a, b, w)[<<k, f[k - 1]>>]
      BY <1>2, <3>1 DEF Loop
    <3> QED
      BY <3>1, <3>2 DEF OrTurn
  <2> HIDE DEF or
  <2> QED
    BY <2>1, <2>2
<1>4. PICK p : p = [k \in 0..w |-> IF k = 0 THEN 0 ELSE p[k - 1] + or(k)] /\ BitOr(a, b, w) = p[w]
  BY <1>3, Zenon DEF BitOr
<1>5. Loop(w, Nat, 0, OrTurn(a, b, w), p)
  <2>1. p = [k \in 0..w |-> p[k]] /\ p[0] = 0
    <3> HIDE DEF or
    <3> QED
      BY <1>4
  <2>2. ASSUME NEW k \in 1..w, p[k - 1] \in Nat PROVE p[k] = OrTurn(a, b, w)[<<k, p[k - 1]>>]
    <3>1. k \in 0..w /\ k # 0 /\ <<k, p[k - 1]>> \in (1..w) \X Nat
      BY <2>2
    <3>2. p[k] = p[k - 1] + or(k)
      <4> HIDE DEF or
      <4> QED
        BY <1>4, <3>1
    <3> QED
      BY <3>1, <3>2 DEF OrTurn
  <2> QED
    BY <1>1, <2>1, <2>2, LoopIs
<1> QED
  BY <1>4, <1>5

\* Where the bits of two numbers do not meet, | is +.
LEMMA OrIsSum ==
  ASSUME NEW q \in Nat, NEW j \in Nat, NEW b \in Nat, b < TwoTo(j),
         NEW w \in Nat, q * TwoTo(j) + b < TwoTo(w)
  PROVE  BitOr(q * TwoTo(j), b, w) = q * TwoTo(j) + b
<1>1. PICK a \in Nat : a = q * TwoTo(j)
  <2>1. PICK x \in Nat : x = TwoTo(j)
    BY TwoToIs
  <2>2. q * x \in Nat
    OBVIOUS
  <2> QED
    BY <2>1, <2>2
<1>2. PICK or : Loop(w, Nat, 0, OrTurn(a, b, w), or) /\ BitOr(a, b, w) = or[w]
  BY OrLoop
<1> DEFINE T == {k \in 0..w : or[k] = (a + b) % TwoTo(k)}
<1>3. 0 \in T
  <2>1. (a + b) % 1 = 0
    OBVIOUS
  <2> QED
    BY <1>2, <2>1, TwoToIs DEF Loop
<1>4. ASSUME NEW k \in 1..w, k - 1 \in T PROVE k \in T
  <2>1. PICK l \in Nat : l = k - 1 /\ k = l + 1 /\ l \in 0..w
    <3>1. k - 1 \in Nat /\ k = (k - 1) + 1 /\ k - 1 \in 0..w
      OBVIOUS
    <3> QED
      BY <3>1
  <2>2. or[l] \in Nat /\ or[k] = OrTurn(a, b, w)[<<k, or[l]>>]
    BY <1>2, <2>1 DEF Loop
  <2>3. or[k] = or[l] + (IF Bit(a, l) = 1 \/ Bit(b, l) = 1 THEN TwoTo(l) ELSE 0)
    BY <2>1, <2>2 DEF OrTurn
  <2>4. Bit(a + b, l) = 1 <=> Bit(a, l) = 1 \/ Bit(b, l) = 1
    BY <1>1, BitsApart
  <2>5. or[l] = (a + b) % TwoTo(l)
    BY <1>4, <2>1
  <2>6. a + b \in Nat
    OBVIOUS
  <2>7. (a + b) % TwoTo(k) = ((a + b) % TwoTo(l)) + (IF Bit(a + b, l) = 1 THEN TwoTo(l) ELSE 0)
    BY <2>1, <2>6, NextBit
  <2> QED
    BY <2>3, <2>4, <2>5, <2>7
<1> HIDE DEF T
<1>5. w \in T
  BY <1>3, <1>4, UpTo
<1>6. (a + b) % TwoTo(w) = a + b
  <2>1. PICK x \in Nat \ {0} : x = TwoTo(w)
    BY TwoToIs
  <2>2. a + b \in Nat /\ a + b < x
    BY <1>1, <2>1
  <2> QED
    BY <2>1, <2>2, Quotient
<1> QED
  BY <1>1, <1>2, <1>5, <1>6 DEF T

-----------------------------------------------------------------------------
(* The symbols of a name. *)

\* A symbol's place is worth 32 times the next one's.
LEMMA FiveBits ==
  /\ TwoTo(4) = 16
  /\ \A k \in Nat : TwoTo(k + 5) = 32 * TwoTo(k)
<1>1. TwoTo(0) = 1 /\ \A k \in Nat : TwoTo(k) \in Nat /\ TwoTo(k + 1) = 2 * TwoTo(k)
  BY TwoToIs
<1>2. TwoTo(4) = 16
  <2>1. TwoTo(1) = 2 * TwoTo(0)
    <3>1. 0 \in Nat /\ 0 + 1 = 1
      OBVIOUS
    <3> QED
      BY <1>1, <3>1
  <2>2. TwoTo(2) = 2 * TwoTo(1)
    <3>1. 1 \in Nat /\ 1 + 1 = 2
      OBVIOUS
    <3> QED
      BY <1>1, <3>1
  <2>3. TwoTo(3) = 2 * TwoTo(2)
    <3>1. 2 \in Nat /\ 2 + 1 = 3
      OBVIOUS
    <3> QED
      BY <1>1, <3>1
  <2>4. TwoTo(4) = 2 * TwoTo(3)
    <3>1. 3 \in Nat /\ 3 + 1 = 4
      OBVIOUS
    <3> QED
      BY <1>1, <3>1
  <2> QED
    BY <1>1, <2>1, <2>2, <2>3, <2>4
<1>3. ASSUME NEW k \in Nat PROVE TwoTo(k + 5) = 32 * TwoTo(k)
  <2>1. TwoTo(k + 4) = TwoTo(k) * TwoTo(4)
    BY TwoToSum
  <2>2. TwoTo(k + 5) = 2 * TwoTo(k + 4)
    <3>1. k + 4 \in Nat /\ (k + 4) + 1 = k + 5
      OBVIOUS
    <3> QED
      BY <1>1, <3>1
  <2>3. TwoTo(k) \in Nat
    BY <1>1
  <2> QED
    BY <1>2, <2>1, <2>2, <2>3
<1> QED
  BY <1>2, <1>3

\* The numbers that Long symbols give, one after the other.
Packed(d, v) ==
  /\ d \in [1..Long -> 0..31] /\ v \in [0..Long -> Nat]
  /\ v[0] = 0
  /\ \A k \in 1..Long : v[k] = 32 * v[k - 1] + d[k]

\* There is a sequence of partial sums as Packed describes it.
LEMMA PackedExists ==
  ASSUME NEW d \in [1..Long -> 0..31]
  PROVE  \E v : Packed(d, v) /\ Value(d, 32) = v[Long]
<1>1. Long \in Nat
  BY NamesConsts
<1>2. d \in Seq(Nat) /\ Len(d) = Long
  <2>1. d \in Seq(0..31)
    BY <1>1, IsASeq
  <2>2. 0..31 \in SUBSET Nat
    OBVIOUS
  <2>3. d \in Seq(Nat)
    BY <2>1, <2>2, SeqMonotonic
  <2> QED
    BY <1>1, <2>1, <2>3, LenProperties
<1>3. PICK v : Loop(Len(d), Nat, 0, Horner(d, 32), v) /\ Value(d, 32) = v[Len(d)]
  BY <1>2, ValueLoop
<1>4. v \in [0..Long -> Nat] /\ v[0] = 0
  BY <1>2, <1>3 DEF Loop
<1>5. ASSUME NEW k \in 1..Long PROVE v[k] = 32 * v[k - 1] + d[k]
  <2>1. k - 1 \in 0..Long
    BY <1>1
  <2>2. v[k - 1] \in Nat /\ v[k] = Horner(d, 32)[<<k, v[k - 1]>>]
    BY <1>2, <1>3, <1>4, <2>1 DEF Loop
  <2>3. <<k, v[k - 1]>> \in (1..Len(d)) \X Nat
    BY <1>2, <2>2
  <2> QED
    BY <2>2, <2>3 DEF Horner
<1> QED
  BY <1>2, <1>3, <1>4, <1>5 DEF Packed

\* The place of the k-th symbol, from the top.
LEMMA Places ==
  /\ Width \in Nat /\ Long \in Nat \ {0}
  /\ \A k \in 0..Long : Width - 5 * k \in Nat /\ TwoTo(Width - 5 * k) \in Nat \ {0}
  /\ \A k \in 1..Long : TwoTo(Width - 5 * (k - 1)) = 32 * TwoTo(Width - 5 * k)
  /\ TwoTo(Width - 5 * 0) = TwoTo(Width) /\ TwoTo(Width - 5 * Long) = 16
  /\ \A k \in 0..Long : Long - k \in Nat /\ 5 * (Long - k) \in Nat
  /\ \A k \in 1..Long : TwoTo(5 * (Long - (k - 1))) = 32 * TwoTo(5 * (Long - k))
<1>1. Long \in Nat \ {0} /\ Width \in Nat /\ Width = 5 * Long + 4
  BY NamesConsts DEF Width
<1>2. ASSUME NEW k \in 0..Long
      PROVE  /\ Width - 5 * k \in Nat /\ TwoTo(Width - 5 * k) \in Nat \ {0}
             /\ Long - k \in Nat /\ 5 * (Long - k) \in Nat
  <2>1. Width - 5 * k \in Nat /\ Long - k \in Nat /\ 5 * (Long - k) \in Nat
    BY <1>1
  <2> QED
    BY <2>1, TwoToIs
<1>3. ASSUME NEW k \in 1..Long
      PROVE  /\ TwoTo(Width - 5 * (k - 1)) = 32 * TwoTo(Width - 5 * k)
             /\ TwoTo(5 * (Long - (k - 1))) = 32 * TwoTo(5 * (Long - k))
  <2>1. /\ Width - 5 * k \in Nat /\ (Width - 5 * k) + 5 = Width - 5 * (k - 1)
        /\ 5 * (Long - k) \in Nat /\ 5 * (Long - k) + 5 = 5 * (Long - (k - 1))
    BY <1>1
  <2> QED
    BY <2>1, FiveBits
<1>4. Width - 5 * 0 = Width /\ Width - 5 * Long = 4
  BY <1>1
<1> QED
  BY <1>1, <1>2, <1>3, <1>4, FiveBits

\* A number of k symbols leaves the places below them free.
LEMMA PackedFits ==
  ASSUME NEW d, NEW v, Packed(d, v), NEW k \in 0..Long
  PROVE  v[k] \in Nat /\ (v[k] + 1) * TwoTo(Width - 5 * k) <= TwoTo(Width)
<1> DEFINE T == {i \in 0..Long : (v[i] + 1) * TwoTo(Width - 5 * i) <= TwoTo(Width)}
<1>0. Long \in Nat /\ TwoTo(Width) \in Nat
  BY Places, TwoToIs
<1>1. 0 \in T
  <2>1. v[0] + 1 = 1 /\ TwoTo(Width - 5 * 0) = TwoTo(Width) /\ 1 * TwoTo(Width) <= TwoTo(Width) /\ 0 \in 0..Long
    BY <1>0, Places DEF Packed
  <2> QED
    BY <2>1
<1>2. ASSUME NEW i \in 1..Long, i - 1 \in T PROVE i \in T
  <2>1. i \in 0..Long /\ i - 1 \in 0..Long
    BY <1>0
  <2>2. PICK x \in Nat, y \in Nat, s \in 0..31 :
          x = v[i - 1] /\ y = v[i] /\ s = d[i] /\ y = 32 * x + s
    <3>1. v[i - 1] \in Nat /\ v[i] \in Nat /\ d[i] \in 0..31 /\ v[i] = 32 * v[i - 1] + d[i]
      BY <2>1 DEF Packed
    <3> QED
      BY <3>1
  <2>3. PICK t \in Nat : t = TwoTo(Width - 5 * i) /\ TwoTo(Width - 5 * (i - 1)) = 32 * t
    BY <2>1, Places
  <2>4. (x + 1) * (32 * t) <= TwoTo(Width)
    BY <1>2, <2>2, <2>3
  <2>5. (y + 1) * t <= (x + 1) * (32 * t)
    <3>1. y + 1 <= 32 * (x + 1)
      BY <2>2
    <3>2. (y + 1) * t <= (32 * (x + 1)) * t /\ (32 * (x + 1)) * t = (x + 1) * (32 * t)
      BY <3>1
    <3> QED
      BY <3>2
  <2>6. (y + 1) * t <= TwoTo(Width)
    <3>1. (y + 1) * t \in Nat /\ (x + 1) * (32 * t) \in Nat
      OBVIOUS
    <3> QED
      BY <1>0, <2>4, <2>5, <3>1
  <2> QED
    BY <2>1, <2>2, <2>3, <2>6
<1> HIDE DEF T
<1>3. k \in T
  BY <1>0, <1>1, <1>2, UpTo
<1> QED
  BY <1>3 DEF T, Packed

\* So with the last symbol it is a name.
LEMMA PackedName ==
  ASSUME NEW d, NEW v, Packed(d, v), NEW e \in 0..15
  PROVE  16 * v[Long] + e \in Names
<1>1. PICK x \in Nat : x = v[Long] /\ (x + 1) * 16 <= TwoTo(Width)
  <2>1. Long \in 0..Long
    BY Places
  <2>2. v[Long] \in Nat /\ (v[Long] + 1) * TwoTo(Width - 5 * Long) <= TwoTo(Width)
    BY <2>1, PackedFits
  <2>3. TwoTo(Width - 5 * Long) = 16
    BY Places
  <2> QED
    BY <2>2, <2>3
<1>2. TwoTo(Width) \in Nat
  BY Places, TwoToIs
<1> QED
  BY <1>1, <1>2 DEF Names

\* The symbols of the number made of some are these.
LEMMA SymbolsBack ==
  ASSUME NEW d, NEW v, Packed(d, v), NEW e \in 0..15
  PROVE  LET nm == 16 * v[Long] + e
         IN  /\ \A p \in 1..Long : SymbolAt(nm, p) = d[p]
             /\ SymbolAt(nm, Long + 1) = e
<1> DEFINE nm == 16 * v[Long] + e
           T  == {j \in 0..Long : v[Long] \div TwoTo(5 * (Long - (Long - j))) = v[Long - j]}
<1>1. Long \in Nat \ {0} /\ v \in [0..Long -> Nat]
  BY Places DEF Packed
<1>2. PICK x \in Nat : x = v[Long]
  BY <1>1
<1>3. nm \div 16 = x /\ nm % 16 = e
  <2>1. (x * 16 + e) \div 16 = x /\ (x * 16 + e) % 16 = e
    BY QuotientIs
  <2>2. nm = x * 16 + e
    BY <1>2
  <2> HIDE DEF nm
  <2> QED
    BY <2>1, <2>2
<1>4. 0 \in T
  <2>1. 5 * (Long - (Long - 0)) = 0 /\ Long - 0 = Long /\ 0 \in 0..Long
    BY <1>1
  <2>2. x \div 1 = x
    OBVIOUS
  <2> QED
    BY <1>2, <2>1, <2>2, TwoToIs
<1>5. ASSUME NEW j \in 1..Long, j - 1 \in T PROVE j \in T
  <2>1. PICK k \in 1..Long : k = Long - (j - 1) /\ k - 1 = Long - j /\ k \in 0..Long /\ k - 1 \in 0..Long
    <3>1. /\ Long - (j - 1) \in 1..Long /\ (Long - (j - 1)) - 1 = Long - j
          /\ Long - (j - 1) \in 0..Long /\ (Long - (j - 1)) - 1 \in 0..Long
      BY <1>1
    <3> QED
      BY <3>1
  <2>2. PICK t \in Nat \ {0} : t = TwoTo(5 * (Long - k)) /\ TwoTo(5 * (Long - (k - 1))) = 32 * t
    <3>1. 5 * (Long - k) \in Nat
      BY <1>1, <2>1
    <3> QED
      BY <2>1, <3>1, Places, TwoToIs
  <2>3. PICK y \in Nat, s \in 0..31 : y = v[k - 1] /\ v[k] = 32 * y + s
    <3>1. v[k - 1] \in Nat /\ d[k] \in 0..31 /\ v[k] = 32 * v[k - 1] + d[k]
      BY <2>1 DEF Packed
    <3> QED
      BY <3>1
  <2>4. x \div t = 32 * y + s
    BY <1>2, <1>5, <2>1, <2>2, <2>3
  <2>5. x \div (32 * t) = y
    <3>1. (x \div t) \div 32 = x \div (32 * t)
      <4>1. t * 32 = 32 * t
        OBVIOUS
      <4> QED
        BY <4>1, QuotientTwice
    <3>2. (y * 32 + s) \div 32 = y
      BY QuotientIs
    <3> QED
      BY <2>4, <3>1, <3>2
  <2>6. j \in 0..Long
    BY <1>1
  <2> QED
    BY <1>2, <2>1, <2>2, <2>3, <2>5, <2>6
<1> HIDE DEF T
<1>6. \A j \in 0..Long : j \in T
  BY <1>1, <1>4, <1>5, UpTo
<1>7. ASSUME NEW p \in 1..Long PROVE SymbolAt(nm, p) = d[p]
  <2>1. PICK j \in 0..Long : Long - j = p /\ Long - (Long - j) = Long - p
    <3>1. Long - p \in 0..Long /\ Long - (Long - p) = p
      BY <1>1
    <3> QED
      BY <3>1
  <2>2. x \div TwoTo(5 * (Long - p)) = v[p]
    BY <1>2, <1>6, <2>1 DEF T
  <2>3. PICK y \in Nat, s \in 0..31 : s = d[p] /\ v[p] = 32 * y + s
    <3>1. p - 1 \in 0..Long
      BY <1>1
    <3>2. v[p - 1] \in Nat /\ d[p] \in 0..31 /\ v[p] = 32 * v[p - 1] + d[p]
      BY <3>1 DEF Packed
    <3> QED
      BY <3>2
  <2>4. v[p] % 32 = s
    <3>1. (y * 32 + s) % 32 = s
      BY QuotientIs
    <3> QED
      BY <2>3, <3>1
  <2>5. p # Long + 1
    BY <1>1
  <2> QED
    BY <1>3, <2>2, <2>3, <2>4, <2>5 DEF SymbolAt
<1>8. SymbolAt(nm, Long + 1) = e
  BY <1>3 DEF SymbolAt
<1> QED
  BY <1>7, <1>8

\* Every name is the number of its symbols.
LEMMA SymbolsOf ==
  ASSUME NEW nm \in Names
  PROVE  LET d == [p \in 1..Long |-> SymbolAt(nm, p)]
         IN  /\ d \in [1..Long -> 0..31] /\ SymbolAt(nm, Long + 1) \in 0..15
             /\ nm = 16 * Value(d, 32) + SymbolAt(nm, Long + 1)
<1> DEFINE d == [p \in 1..Long |-> SymbolAt(nm, p)]
<1>1. Long \in Nat \ {0} /\ nm \in Nat /\ TwoTo(Width) \in Nat /\ nm < TwoTo(Width)
  <2>1. Long \in Nat \ {0} /\ TwoTo(Width) \in Nat
    BY Places, TwoToIs
  <2> QED
    BY <2>1 DEF Names
<1>2. PICK m \in Nat, e \in 0..15 : m = nm \div 16 /\ e = nm % 16 /\ nm = 16 * m + e
  BY <1>1
<1>3. SymbolAt(nm, Long + 1) = e
  BY <1>2 DEF SymbolAt
<1>4. ASSUME NEW p \in 1..Long
      PROVE  /\ SymbolAt(nm, p) = (m \div TwoTo(5 * (Long - p))) % 32
             /\ SymbolAt(nm, p) \in 0..31
  <2>1. p # Long + 1
    BY <1>1
  <2>2. PICK t \in Nat \ {0} : t = TwoTo(5 * (Long - p))
    <3>1. 5 * (Long - p) \in Nat
      BY <1>1
    <3> QED
      BY <3>1, TwoToIs
  <2>3. m \div t \in Nat /\ (m \div t) % 32 \in 0..31
    <3>1. m \div t \in Nat
      BY Quotient
    <3> QED
      BY <3>1
  <2> QED
    BY <1>2, <2>1, <2>2, <2>3 DEF SymbolAt
<1>5. d \in [1..Long -> 0..31]
  BY <1>4
<1>6. PICK v : Packed(d, v) /\ Value(d, 32) = v[Long]
  <2> HIDE DEF d
  <2> QED
    BY <1>5, PackedExists
<1> DEFINE T == {k \in 0..Long : v[k] = m \div TwoTo(5 * (Long - k))}
<1>7. 0 \in T
  <2>1. PICK t \in Nat \ {0} : t = TwoTo(5 * Long) /\ TwoTo(Width) = t * 16
    <3>1. 5 * Long \in Nat /\ Width = 5 * Long + 4
      BY <1>1 DEF Width
    <3>2. TwoTo(5 * Long + 4) = TwoTo(5 * Long) * TwoTo(4)
      BY <3>1, TwoToSum
    <3> QED
      BY <3>1, <3>2, FiveBits, TwoToIs
  <2>2. m < t
    BY <1>1, <1>2, <2>1
  <2>3. m \div t = 0
    BY <2>2, Quotient
  <2>4. 5 * (Long - 0) = 5 * Long /\ 0 \in 0..Long
    BY <1>1
  <2> QED
    BY <1>6, <2>1, <2>3, <2>4 DEF Packed
<1>8. ASSUME NEW k \in 1..Long, k - 1 \in T PROVE k \in T
  <2>1. k \in 0..Long /\ k - 1 \in 0..Long
    BY <1>1
  <2>2. PICK t \in Nat \ {0} : t = TwoTo(5 * (Long - k)) /\ TwoTo(5 * (Long - (k - 1))) = 32 * t
    <3>1. 5 * (Long - k) \in Nat
      BY <1>1, <2>1
    <3> QED
      BY <3>1, Places, TwoToIs
  <2>3. PICK q \in Nat : q = m \div t
    BY Quotient
  <2>4. v[k - 1] = q \div 32
    <3>1. (m \div t) \div 32 = m \div (t * 32) /\ t * 32 = 32 * t
      BY QuotientTwice
    <3> QED
      BY <1>8, <2>2, <2>3, <3>1
  <2>5. d[k] = q % 32
    BY <1>4, <2>2, <2>3
  <2>6. v[k] = 32 * v[k - 1] + d[k]
    <3> HIDE DEF d
    <3> QED
      BY <1>6 DEF Packed
  <2>7. v[k] = q
    <3>1. q = 32 * (q \div 32) + (q % 32)
      OBVIOUS
    <3> QED
      BY <2>4, <2>5, <2>6, <3>1
  <2> QED
    BY <2>1, <2>2, <2>3, <2>7
<1> HIDE DEF T
<1>9. Long \in T
  BY <1>1, <1>7, <1>8, UpTo
<1>10. v[Long] = m
  <2>1. 5 * (Long - Long) = 0 /\ m \div 1 = m
    BY <1>1
  <2>2. v[Long] = m \div TwoTo(5 * (Long - Long))
    BY <1>9 DEF T
  <2> QED
    BY <2>1, <2>2, TwoToIs
<1> QED
  BY <1>2, <1>3, <1>5, <1>6, <1>10

-----------------------------------------------------------------------------
(* string_to_name. *)

\* The symbol of the p-th character: past the end it is that of a dot.
Sym(str, p) == IF p <= Len(str) THEN char_to_symbol(str[p]) ELSE 0

\* A symbol has five bits.
LEMMA SymRange ==
  ASSUME NEW str \in Seq(Nat), NEW p \in Nat \ {0}
  PROVE  Sym(str, p) \in 0..31
<1>1. ASSUME NEW c \in Nat PROVE char_to_symbol(c) \in 0..31
  BY DEF char_to_symbol
<1>2. ASSUME p <= Len(str) PROVE char_to_symbol(str[p]) \in 0..31
  <2>1. p \in 1..Len(str)
    BY <1>2, LenProperties
  <2>2. str[p] \in Nat
    BY <2>1, ElementOfSeq
  <2> QED
    BY <1>1, <2>2
<1> QED
  BY <1>2 DEF Sym

\* Setting the next symbol in its place makes the number of one symbol more.
LEMMA NextPlaced ==
  ASSUME NEW d, NEW v, Packed(d, v), NEW i \in 1..Long
  PROVE  BitOr(v[i - 1] * TwoTo(Width - 5 * (i - 1)), d[i] * TwoTo(Width - 5 * i), Width)
           = v[i] * TwoTo(Width - 5 * i)
<1>1. i \in 0..Long /\ i - 1 \in 0..Long /\ Width - 5 * (i - 1) \in Nat /\ Width \in Nat
  <2>1. i \in 0..Long /\ i - 1 \in 0..Long
    BY Places
  <2> QED
    BY <2>1, Places
<1>2. PICK t \in Nat \ {0} : t = TwoTo(Width - 5 * i) /\ TwoTo(Width - 5 * (i - 1)) = 32 * t
  BY <1>1, Places
<1>3. PICK x \in Nat, y \in Nat, s \in 0..31 :
        x = v[i - 1] /\ y = v[i] /\ s = d[i] /\ y = 32 * x + s
  <2>1. v[i - 1] \in Nat /\ v[i] \in Nat /\ d[i] \in 0..31 /\ v[i] = 32 * v[i - 1] + d[i]
    BY <1>1 DEF Packed
  <2> QED
    BY <2>1
<1>4. s * t \in Nat /\ s * t < 32 * t
  <2>1. 32 * t = s * t + (32 - s) * t /\ (32 - s) * t > 0
    BY SMTT(30)
  <2> QED
    BY <2>1
<1>5. x * (32 * t) + s * t = y * t
  BY <1>3
<1>6. y * t < TwoTo(Width)
  <2>1. (y + 1) * t <= TwoTo(Width)
    BY <1>1, <1>2, <1>3, PackedFits
  <2>2. y * t < (y + 1) * t /\ y * t \in Nat /\ (y + 1) * t \in Nat
    <3>1. (y + 1) * t = y * t + t /\ y * t \in Nat
      OBVIOUS
    <3> QED
      BY <3>1
  <2>3. TwoTo(Width) \in Nat
    BY <1>1, TwoToIs
  <2> QED
    BY <2>1, <2>2, <2>3
<1>7. BitOr(x * (32 * t), s * t, Width) = x * (32 * t) + s * t
  BY <1>1, <1>2, <1>4, <1>5, <1>6, OrIsSum
<1> QED
  BY <1>2, <1>3, <1>5, <1>7

\* Symbols that are zero leave the number in its place.
LEMMA NothingBelow ==
  ASSUME NEW d, NEW v, Packed(d, v), NEW n \in 0..Long, \A k \in n + 1..Long : d[k] = 0
  PROVE  v[Long] * TwoTo(Width - 5 * Long) = v[n] * TwoTo(Width - 5 * n)
<1> DEFINE T == {k \in 0..Long : k >= n => v[k] * TwoTo(Width - 5 * k) = v[n] * TwoTo(Width - 5 * n)}
<1>1. Long \in Nat /\ n \in Nat
  BY Places
<1>2. 0 \in T
  <2>1. 0 >= n => n = 0
    OBVIOUS
  <2>2. 0 \in 0..Long
    BY <1>1
  <2> QED
    BY <2>1, <2>2
<1>3. ASSUME NEW k \in 1..Long, k - 1 \in T PROVE k \in T
  <2>1. k \in 0..Long
    BY <1>1
  <2>2. ASSUME k >= n, k # n
        PROVE  v[k] * TwoTo(Width - 5 * k) = v[n] * TwoTo(Width - 5 * n)
    <3>1. k \in n + 1..Long /\ k - 1 >= n /\ k - 1 \in 0..Long
      BY <1>1, <2>2
    <3>2. v[k - 1] * TwoTo(Width - 5 * (k - 1)) = v[n] * TwoTo(Width - 5 * n)
      BY <1>3, <3>1
    <3>3. PICK x \in Nat : x = v[k - 1] /\ v[k] = 32 * x
      <4>1. v[k - 1] \in Nat /\ v[k] = 32 * v[k - 1] + 0
        BY <3>1 DEF Packed
      <4> QED
        BY <4>1
    <3>4. PICK t \in Nat : t = TwoTo(Width - 5 * k) /\ TwoTo(Width - 5 * (k - 1)) = 32 * t
      BY <2>1, Places
    <3>5. (32 * x) * t = x * (32 * t)
      OBVIOUS
    <3> QED
      BY <3>2, <3>3, <3>4, <3>5
  <2> QED
    BY <2>1, <2>2
<1> HIDE DEF T
<1>4. Long \in T
  BY <1>1, <1>2, <1>3, UpTo
<1> QED
  BY <1>1, <1>4 DEF T

\* The number is that of the symbols (string_to_name), whatever the string.
LEMMA NameOfString ==
  ASSUME NEW str \in Seq(Nat)
  PROVE  LET d == [p \in 1..Long |-> Sym(str, p)]
             e == Sym(str, Long + 1) % 16
         IN  /\ d \in [1..Long -> 0..31] /\ e \in 0..15
             /\ string_to_name(str) = 16 * Value(d, 32) + e
<1> DEFINE d == [p \in 1..Long |-> Sym(str, p)]
           e == Sym(str, Long + 1) % 16
           n == IF Len(str) < Long THEN Len(str) ELSE Long
<1>1. Long \in Nat \ {0} /\ Len(str) \in Nat
  BY Places, LenProperties
<1>2. d \in [1..Long -> 0..31] /\ e \in 0..15
  <2>1. \A p \in Nat \ {0} : Sym(str, p) \in 0..31
    BY SymRange
  <2>2. PICK s \in 0..31 : s = Sym(str, Long + 1)
    <3>1. Long + 1 \in Nat \ {0}
      BY <1>1
    <3> QED
      BY <2>1, <3>1
  <2>3. s % 16 \in 0..15
    OBVIOUS
  <2>4. \A p \in 1..Long : Sym(str, p) \in 0..31
    BY <1>1, <2>1
  <2> QED
    BY <2>2, <2>3, <2>4
<1>3. PICK v : Packed(d, v) /\ Value(d, 32) = v[Long]
  <2> HIDE DEF d
  <2> QED
    BY <1>2, PackedExists
<1>4. n \in 0..Long /\ n <= Len(str) /\ \A i \in 1..n : i \in 1..Long /\ i <= Len(str)
  BY <1>1
<1> DEFINE f == [i \in 0..n |-> v[i] * TwoTo(Width - 5 * i)]
<1>5. ASSUME NEW i \in 1..n
      PROVE  BitOr(v[i - 1] * TwoTo(Width - 5 * (i - 1)), Placed(str, i - 1), Width)
               = v[i] * TwoTo(Width - 5 * i)
  <2>1. i \in 1..Long /\ i <= Len(str) /\ (i - 1) + 1 = i
    BY <1>4
  <2>2. d[i] = char_to_symbol(str[i]) /\ d[i] \in 0..31
    BY <1>2, <2>1 DEF Sym
  <2>3. char_to_symbol(str[i]) % 32 = d[i]
    <3>1. PICK s \in 0..31 : s = d[i]
      BY <2>2
    <3>2. s % 32 = s
      OBVIOUS
    <3> QED
      BY <2>2, <3>1, <3>2
  <2>4. Placed(str, i - 1) = d[i] * TwoTo(Width - 5 * i)
    BY <2>1, <2>3 DEF Placed
  <2> HIDE DEF d
  <2> QED
    BY <1>3, <2>1, <2>4, NextPlaced
<1> HIDE DEF n, d
<1>6. f[0] = 0
  <2>1. 0 \in 0..n /\ TwoTo(Width - 5 * 0) \in Nat /\ v[0] = 0
    <3>1. 0 \in 0..n /\ 0 \in 0..Long
      BY <1>1, <1>4
    <3> QED
      BY <1>3, <3>1, Places DEF Packed
  <2>2. f[0] = v[0] * TwoTo(Width - 5 * 0)
    BY <2>1
  <2> HIDE DEF f
  <2> QED
    BY <2>1, <2>2
<1>7. \A i \in 1..n : f[i] = BitOr(f[i - 1], Placed(str, i - 1), Width)
  <2> SUFFICES ASSUME NEW i \in 1..n PROVE f[i] = BitOr(f[i - 1], Placed(str, i - 1), Width)
    OBVIOUS
  <2>1. i \in 0..n /\ i - 1 \in 0..n
    BY <1>4
  <2> QED
    BY <1>5, <2>1
<1>8. f = [i \in 0..n |-> IF i = 0 THEN 0 ELSE BitOr(f[i - 1], Placed(str, i - 1), Width)]
  <2>1. f = [i \in 0..n |-> f[i]]
    OBVIOUS
  <2> HIDE DEF f
  <2>2. \A i \in 0..n : i # 0 => i \in 1..n
    BY <1>4
  <2> QED
    BY <1>6, <1>7, <2>1, <2>2
<1>9. PICK h : /\ h = [i \in 0..n |-> IF i = 0 THEN 0 ELSE BitOr(h[i - 1], Placed(str, i - 1), Width)]
               /\ string_to_name(str) =
                    IF n = Long /\ Len(str) > Long
                    THEN BitOr(h[n], char_to_symbol(str[Long + 1]) % 16, Width)
                    ELSE h[n]
  <2> HIDE DEF f
  <2> QED
    BY <1>8, Zenon DEF string_to_name, n
<1>10. h[n] = v[n] * TwoTo(Width - 5 * n)
  <2> DEFINE T == {i \in 0..n : h[i] = f[i]}
  <2>1. n \in Nat /\ 0 \in T
    <3>1. 0 \in 0..n /\ n \in Nat
      BY <1>4
    <3>2. h[0] = 0
      BY <1>9, <3>1
    <3> HIDE DEF f
    <3> QED
      BY <1>6, <3>1, <3>2
  <2>2. ASSUME NEW i \in 1..n, i - 1 \in T PROVE i \in T
    <3>1. i \in 0..n /\ i # 0
      BY <2>1
    <3>2. h[i] = BitOr(h[i - 1], Placed(str, i - 1), Width)
      BY <1>9, <3>1
    <3> HIDE DEF f
    <3> QED
      BY <1>7, <2>2, <3>1, <3>2
  <2> HIDE DEF T
  <2>3. \A i \in 0..n : i \in T
    BY <2>1, <2>2, UpTo
  <2>4. n \in 0..n
    BY <2>1
  <2> QED
    BY <2>3, <2>4 DEF T
<1>11. v[n] * TwoTo(Width - 5 * n) = 16 * v[Long]
  <2>1. ASSUME NEW k \in n + 1..Long PROVE d[k] = 0
    <3>1. k \in 1..Long /\ ~(k <= Len(str))
      BY <1>1, <1>4 DEF n
    <3> QED
      BY <3>1 DEF d, Sym
  <2>2. v[Long] * TwoTo(Width - 5 * Long) = v[n] * TwoTo(Width - 5 * n)
    BY <1>3, <1>4, <2>1, NothingBelow
  <2>3. PICK x \in Nat : x = v[Long]
    <3>1. Long \in 0..Long
      BY <1>1
    <3> QED
      BY <1>3, <3>1 DEF Packed
  <2>4. x * 16 = 16 * x
    OBVIOUS
  <2> QED
    BY <2>2, <2>3, <2>4, Places
<1>12. PICK x \in Nat : x = v[Long] /\ 16 * x + e \in Names
  <2>1. Long \in 0..Long
    BY <1>1
  <2>2. v[Long] \in Nat
    BY <1>3, <2>1 DEF Packed
  <2> HIDE DEF e
  <2>3. 16 * v[Long] + e \in Names
    BY <1>2, <1>3, PackedName
  <2> QED
    BY <2>2, <2>3
<1>13. string_to_name(str) = 16 * x + e
  <2>1. CASE n = Long /\ Len(str) > Long
    <3>1. Long + 1 <= Len(str)
      BY <1>1, <2>1
    <3>2. string_to_name(str) = BitOr(16 * x, e, Width)
      BY <1>9, <1>10, <1>11, <1>12, <2>1, <3>1 DEF Sym
    <3> HIDE DEF e
    <3>3. 16 * x + e < TwoTo(Width) /\ e < 16 /\ e \in Nat
      <4>1. TwoTo(Width) \in Nat
        BY Places, TwoToIs
      <4> QED
        BY <1>2, <1>12, <4>1 DEF Names
    <3>4. x * 16 = 16 * x /\ 4 \in Nat
      OBVIOUS
    <3>5. BitOr(x * TwoTo(4), e, Width) = x * TwoTo(4) + e
      <4>1. e < TwoTo(4) /\ x * TwoTo(4) + e < TwoTo(Width)
        BY <3>3, <3>4, FiveBits
      <4> QED
        BY <3>3, <3>4, <4>1, Places, OrIsSum
    <3> QED
      BY <3>2, <3>4, <3>5, FiveBits
  <2>2. CASE ~(n = Long /\ Len(str) > Long)
    <3>1. ~(Long + 1 <= Len(str))
      BY <1>1, <2>2 DEF n
    <3>2. e = 0
      <4>1. Sym(str, Long + 1) = 0
        BY <3>1 DEF Sym
      <4>2. 0 % 16 = 0
        OBVIOUS
      <4> QED
        BY <4>1, <4>2
    <3> HIDE DEF e
    <3> QED
      BY <1>9, <1>10, <1>11, <1>12, <2>2, <3>2
  <2> QED
    BY <2>1, <2>2
<1> QED
  BY <1>2, <1>3, <1>12, <1>13 DEF d

-----------------------------------------------------------------------------
(* name_to_string. *)

\* The characters of a name and their symbols.
LEMMA Charmap ==
  /\ charmap \in Seq(Nat) /\ Len(charmap) = 32
  /\ charmap[1] = Dot
  /\ \A i \in 1..5 : charmap[i + 1] = 48 + i
  /\ \A i \in 1..26 : charmap[i + 6] = 96 + i
<1> DEFINE dot    == <<Dot>>
           digit  == [i \in 1..5 |-> 48 + i]
           letter == [i \in 1..26 |-> 96 + i]
           low    == dot \o digit
<1>1. dot \in Seq(Nat) /\ Len(dot) = 1 /\ dot[1] = Dot
  BY DEF Dot
<1>2. digit \in Seq(Nat) /\ Len(digit) = 5 /\ \A i \in 1..5 : digit[i] = 48 + i
  <2>1. digit \in [1..5 -> Nat] /\ \A i \in 1..5 : digit[i] = 48 + i
    OBVIOUS
  <2> HIDE DEF digit
  <2>2. PICK n \in Nat : n = 5
    OBVIOUS
  <2>3. digit \in [1..n -> Nat]
    BY <2>1, <2>2
  <2>4. digit \in Seq(Nat)
    BY <2>3, IsASeq
  <2>5. Len(digit) = n
    BY <2>3, <2>4, LenProperties
  <2> QED
    BY <2>1, <2>2, <2>4, <2>5
<1>3. letter \in Seq(Nat) /\ Len(letter) = 26 /\ \A i \in 1..26 : letter[i] = 96 + i
  <2>1. letter \in [1..26 -> Nat] /\ \A i \in 1..26 : letter[i] = 96 + i
    OBVIOUS
  <2> HIDE DEF letter
  <2>2. PICK n \in Nat : n = 26
    OBVIOUS
  <2>3. letter \in [1..n -> Nat]
    BY <2>1, <2>2
  <2>4. letter \in Seq(Nat)
    BY <2>3, IsASeq
  <2>5. Len(letter) = n
    BY <2>3, <2>4, LenProperties
  <2> QED
    BY <2>1, <2>2, <2>4, <2>5
<1> HIDE DEF dot, digit, letter
<1>4. /\ low \in Seq(Nat) /\ Len(low) = Len(dot) + Len(digit)
      /\ \A i \in 1..Len(low) : low[i] = IF i <= Len(dot) THEN dot[i] ELSE digit[i - Len(dot)]
  <2>1. dot \in Seq(Nat) /\ digit \in Seq(Nat)
    BY <1>1, <1>2
  <2> QED
    BY <2>1, ConcatProperties
<1> HIDE DEF low
<1>5. /\ charmap \in Seq(Nat) /\ Len(charmap) = Len(low) + Len(letter)
      /\ \A i \in 1..Len(charmap) : charmap[i] = IF i <= Len(low) THEN low[i]
                                                 ELSE letter[i - Len(low)]
  <2>1. charmap = low \o letter
    BY DEF charmap, low, dot, digit, letter
  <2>2. low \in Seq(Nat) /\ letter \in Seq(Nat)
    BY <1>3, <1>4
  <2> QED
    BY <2>1, <2>2, ConcatProperties
<1>6. Len(low) = 6 /\ Len(charmap) = 32
  BY <1>1, <1>2, <1>3, <1>4, <1>5
<1>7. \A i \in 1..6 : charmap[i] = low[i]
  BY <1>5, <1>6
<1>8. charmap[1] = Dot
  BY <1>1, <1>4, <1>6, <1>7
<1>9. ASSUME NEW i \in 1..5 PROVE charmap[i + 1] = 48 + i
  <2>1. i + 1 \in 1..6 /\ ~(i + 1 <= 1) /\ (i + 1) - 1 = i
    OBVIOUS
  <2>2. charmap[i + 1] = low[i + 1]
    BY <1>7, <2>1
  <2>3. low[i + 1] = digit[i]
    <3>1. Len(low) = 6 /\ Len(dot) = 1
      BY <1>1, <1>6
    <3> QED
      BY <1>4, <2>1, <3>1
  <2> QED
    BY <1>2, <2>2, <2>3
<1>10. ASSUME NEW i \in 1..26 PROVE charmap[i + 6] = 96 + i
  <2>1. i + 6 \in 1..32 /\ ~(i + 6 <= 6) /\ (i + 6) - 6 = i
    OBVIOUS
  <2>2. charmap[i + 6] = letter[i]
    BY <1>5, <1>6, <2>1
  <2> QED
    BY <1>3, <2>2
<1> QED
  BY <1>5, <1>6, <1>8, <1>9, <1>10

\* The charmap prints a symbol as a character that is read as it.
LEMMA CharacterOf ==
  ASSUME NEW s \in 0..31
  PROVE  /\ charmap[s + 1] \in Nat /\ charmap[s + 1] \in ToSet(charmap)
         /\ char_to_symbol(charmap[s + 1]) = s
<1>1. s + 1 \in 1..Len(charmap)
  BY Charmap
<1>2. charmap[s + 1] \in Nat /\ charmap[s + 1] \in ToSet(charmap)
  <2>1. DOMAIN charmap = 1..Len(charmap)
    BY Charmap, LenProperties
  <2> QED
    BY <1>1, <2>1, Charmap, ElementOfSeq DEF ToSet
<1> DEFINE c == charmap[s + 1]
<1> HIDE DEF c
<1>3. CASE s = 0
  <2>1. s + 1 = 1
    BY <1>3
  <2>2. c = 46
    BY <2>1, Charmap DEF Dot, c
  <2> QED
    BY <1>2, <1>3, <2>2 DEF char_to_symbol, c
<1>4. CASE s \in 1..5
  <2>1. c = 48 + s
    BY <1>4, Charmap DEF c
  <2>2. PICK n \in Nat : n = c /\ n \in 49..53 /\ n - 49 + 1 = s
    BY <1>4, <2>1
  <2>3. char_to_symbol(n) = s
    BY <2>2 DEF char_to_symbol
  <2> QED
    BY <1>2, <2>2, <2>3 DEF c
<1>5. CASE s \in 6..31
  <2>1. s - 5 \in 1..26 /\ (s - 5) + 6 = s + 1
    BY <1>5
  <2>2. c = 96 + (s - 5)
    BY <2>1, Charmap DEF c
  <2>3. PICK n \in Nat : n = c /\ n \in 97..122 /\ n - 97 + 6 = s
    BY <1>5, <2>2
  <2>4. char_to_symbol(n) = s
    BY <2>3 DEF char_to_symbol
  <2> QED
    BY <1>2, <2>3, <2>4 DEF c
<1>6. s = 0 \/ s \in 1..5 \/ s \in 6..31
  OBVIOUS
<1> QED
  BY <1>2, <1>3, <1>4, <1>5, <1>6

\* Two characters of names have two symbols, and only the dot has zero.
LEMMA CharactersApart ==
  /\ \A b, c \in ToSet(charmap) : char_to_symbol(b) = char_to_symbol(c) => b = c
  /\ Dot \in ToSet(charmap) /\ char_to_symbol(Dot) = 0
<1>1. ASSUME NEW c \in ToSet(charmap)
      PROVE  \E s \in 0..31 : c = charmap[s + 1] /\ char_to_symbol(c) = s
  <2>1. PICK i \in 1..32 : c = charmap[i]
    <3>1. DOMAIN charmap = 1..32
      BY Charmap, LenProperties
    <3> QED
      BY <3>1 DEF ToSet
  <2>2. i - 1 \in 0..31 /\ (i - 1) + 1 = i
    OBVIOUS
  <2>3. c = charmap[(i - 1) + 1] /\ char_to_symbol(c) = i - 1
    BY <2>1, <2>2, CharacterOf
  <2> QED
    BY <2>2, <2>3
<1>2. Dot \in ToSet(charmap) /\ char_to_symbol(Dot) = 0
  <2>1. 0 \in 0..31 /\ 0 + 1 = 1
    OBVIOUS
  <2> QED
    BY <2>1, CharacterOf, Charmap
<1>3. ASSUME NEW b \in ToSet(charmap), NEW c \in ToSet(charmap), char_to_symbol(b) = char_to_symbol(c)
      PROVE  b = c
  <2>1. PICK s \in 0..31 : b = charmap[s + 1] /\ char_to_symbol(b) = s
    BY <1>1
  <2>2. PICK u \in 0..31 : c = charmap[u + 1] /\ char_to_symbol(c) = u
    BY <1>1
  <2> QED
    BY <1>3, <2>1, <2>2
<1> QED
  BY <1>2, <1>3

\* The dots at the end are cut off, and nothing else.
LEMMA Trimmed ==
  ASSUME NEW str \in Seq(Nat)
  PROVE  LET t == TrimRight(str)
         IN  /\ t \in Seq(Nat) /\ Len(t) <= Len(str)
             /\ \A i \in 1..Len(t) : t[i] = str[i]
             /\ \A i \in Len(t) + 1..Len(str) : str[i] = Dot
             /\ Len(t) > 0 => t[Len(t)] # Dot
<1> DEFINE n == Len(str)
           I == {i \in 1..n : str[i] # Dot}
           last == IF I # {} THEN Max(I) ELSE 0
           t == SubSeq(str, 1, last)
<1>1. n \in Nat /\ \A i \in 1..n : str[i] \in Nat
  BY LenProperties, ElementOfSeq
<1>2. TrimRight(str) = t
  BY DEF TrimRight, SelectLastInSeq
<1>3. /\ last \in 0..n /\ (last > 0 => str[last] # Dot)
      /\ \A i \in last + 1..n : str[i] = Dot
  <2> HIDE DEF n
  <2>1. CASE I = {}
    <3>1. last = 0
      BY <2>1
    <3>2. \A i \in 1..n : str[i] = Dot
      BY <2>1
    <3> QED
      BY <1>1, <3>1, <3>2
  <2>2. CASE I # {}
    <3>1. I \in SUBSET (1..n)
      OBVIOUS
    <3>2. last = Max(I) /\ Max(I) \in I /\ \A x \in I : x <= Max(I)
      <4> HIDE DEF I
      <4> QED
        BY <1>1, <2>2, <3>1, LastOf
    <3>3. last \in 1..n /\ str[last] # Dot
      BY <3>2
    <3>4. ASSUME NEW i \in last + 1..n PROVE str[i] = Dot
      <4> HIDE DEF last
      <4>1. i \in 1..n /\ ~(i <= last)
        BY <1>1, <3>3
      <4> QED
        BY <3>2, <4>1
    <3> HIDE DEF last
    <3> QED
      BY <1>1, <3>3, <3>4
  <2> QED
    BY <2>1, <2>2
<1> HIDE DEF last, n
<1>4. /\ t \in Seq(Nat) /\ Len(t) = last /\ \A i \in 1..last : t[i] = str[i]
  <2>1. \A i \in 1..last : str[i] \in Nat
    BY <1>1, <1>3
  <2>2. /\ t \in Seq(Nat) /\ Len(t) = IF 1 <= last THEN last - 1 + 1 ELSE 0
        /\ \A i \in 1..last - 1 + 1 : t[i] = str[1 + i - 1]
    BY <1>3, <2>1, SubSeqProperties
  <2> HIDE DEF t
  <2>3. \A i \in 1..last : i \in 1..last - 1 + 1 /\ 1 + i - 1 = i
    BY <1>3
  <2> QED
    BY <1>3, <2>2, <2>3
<1> HIDE DEF t
<1>5. Len(t) <= n /\ (Len(t) > 0 => t[Len(t)] # Dot)
  <2>1. last > 0 => last \in 1..last
    BY <1>3
  <2> QED
    BY <1>1, <1>3, <1>4, <2>1
<1> QED
  BY <1>2, <1>3, <1>4, <1>5 DEF n

\* The characters of a name, before the dots are cut off.
LEMMA CharactersIs ==
  ASSUME NEW nm \in Names
  PROVE  /\ Characters(nm) \in Seq(Nat) /\ Len(Characters(nm)) = Long + 1
         /\ \A p \in 1..Long + 1 :
              /\ SymbolAt(nm, p) \in 0..31
              /\ Characters(nm)[p] \in ToSet(charmap)
              /\ char_to_symbol(Characters(nm)[p]) = SymbolAt(nm, p)
<1> DEFINE chars == Characters(nm)
<1>1. PICK n \in Nat \ {0} : n = Long + 1
  BY Places
<1>2. ASSUME NEW p \in 1..n PROVE SymbolAt(nm, p) \in 0..31
  <2> DEFINE d == [i \in 1..Long |-> SymbolAt(nm, i)]
  <2>1. d \in [1..Long -> 0..31] /\ SymbolAt(nm, Long + 1) \in 0..15
    BY SymbolsOf
  <2>2. CASE p = Long + 1
    <3>1. PICK s \in 0..15 : s = SymbolAt(nm, p)
      BY <2>1, <2>2
    <3>2. s \in 0..31
      OBVIOUS
    <3> QED
      BY <3>1, <3>2
  <2>3. CASE p # Long + 1
    <3>1. p \in 1..Long
      BY <1>1, <2>3, Places
    <3>2. d[p] = SymbolAt(nm, p)
      BY <3>1
    <3> HIDE DEF d
    <3> QED
      BY <2>1, <3>1, <3>2
  <2> QED
    BY <2>2, <2>3
<1>3. \A p \in 1..n : /\ charmap[SymbolAt(nm, p) + 1] \in Nat
                      /\ charmap[SymbolAt(nm, p) + 1] \in ToSet(charmap)
                      /\ char_to_symbol(charmap[SymbolAt(nm, p) + 1]) = SymbolAt(nm, p)
  BY <1>2, CharacterOf
<1>4. chars \in [1..n -> Nat] /\ \A p \in 1..n : chars[p] = charmap[SymbolAt(nm, p) + 1]
  BY <1>1, <1>3 DEF Characters
<1> HIDE DEF chars
<1>5. chars \in Seq(Nat)
  BY <1>4, IsASeq
<1>6. Len(chars) = n
  BY <1>4, <1>5, LenProperties
<1> QED
  BY <1>1, <1>2, <1>3, <1>4, <1>5, <1>6 DEF chars

\* The string of a name has its symbols, and is a well formed name.
LEMMA StringOfName ==
  ASSUME NEW nm \in Names
  PROVE  LET str == name_to_string(nm)
         IN  /\ str \in Seq(Nat) /\ WellFormed(str)
             /\ \A p \in 1..Long + 1 : Sym(str, p) = SymbolAt(nm, p)
<1> DEFINE chars == Characters(nm)
           str   == TrimRight(chars)
<1>1. PICK n \in Nat \ {0} : n = Long + 1
  BY Places
<1>2. /\ chars \in Seq(Nat) /\ Len(chars) = n
      /\ \A p \in 1..n : /\ SymbolAt(nm, p) \in 0..31
                         /\ chars[p] \in ToSet(charmap)
                         /\ char_to_symbol(chars[p]) = SymbolAt(nm, p)
  BY <1>1, CharactersIs
<1> HIDE DEF chars
<1>3. /\ str \in Seq(Nat) /\ Len(str) \in Nat /\ Len(str) <= n
      /\ \A i \in 1..Len(str) : str[i] = chars[i]
      /\ \A i \in Len(str) + 1..n : chars[i] = Dot
      /\ Len(str) > 0 => str[Len(str)] # Dot
  BY <1>2, Trimmed, LenProperties
<1> HIDE DEF str
<1>4. ASSUME NEW p \in 1..n PROVE Sym(str, p) = SymbolAt(nm, p)
  <2>1. CASE p <= Len(str)
    <3>1. p \in 1..Len(str)
      BY <2>1
    <3>2. str[p] = chars[p]
      BY <1>3, <3>1
    <3> QED
      BY <1>2, <2>1, <3>2 DEF Sym
  <2>2. CASE ~(p <= Len(str))
    <3>1. p \in Len(str) + 1..n
      BY <1>3, <2>2
    <3>2. chars[p] = Dot
      BY <1>3, <3>1
    <3>3. SymbolAt(nm, p) = 0
      BY <1>2, <3>2, CharactersApart
    <3> QED
      BY <2>2, <3>3 DEF Sym
  <2> QED
    BY <2>1, <2>2
<1>5. WellFormed(str)
  <2>1. \A i \in 1..Len(str) : str[i] \in ToSet(charmap)
    <3> SUFFICES ASSUME NEW i \in 1..Len(str) PROVE str[i] \in ToSet(charmap)
      OBVIOUS
    <3>1. i \in 1..n
      BY <1>3
    <3> QED
      BY <1>2, <1>3, <3>1
  <2>2. str # << >> => str[Len(str)] # Dot
    <3>1. str # << >> => Len(str) # 0
      BY <1>3, EmptySeq
    <3> QED
      BY <1>3, <3>1
  <2>3. ASSUME Len(str) = n PROVE char_to_symbol(str[n]) < 16
    <3>1. n \in 1..n
      BY <1>1
    <3>2. char_to_symbol(str[n]) = SymbolAt(nm, n)
      BY <1>2, <1>3, <2>3, <3>1
    <3>3. SymbolAt(nm, n) \in 0..15
      BY <1>1, SymbolsOf
    <3>4. PICK s \in 0..15 : s = SymbolAt(nm, n)
      BY <3>3
    <3> QED
      BY <3>2, <3>4
  <2> QED
    BY <1>1, <1>3, <2>1, <2>2, <2>3 DEF WellFormed
<1> QED
  BY <1>1, <1>3, <1>4, <1>5 DEF name_to_string, str, chars

\* The symbols of the number of a string: of the last character four bits.
LEMMA StringSymbols ==
  ASSUME NEW str \in Seq(Nat)
  PROVE  LET nm == string_to_name(str)
         IN  /\ nm \in Names
             /\ \A p \in 1..Long : SymbolAt(nm, p) = Sym(str, p)
             /\ SymbolAt(nm, Long + 1) = Sym(str, Long + 1) % 16
<1> DEFINE d == [p \in 1..Long |-> Sym(str, p)]
           e == Sym(str, Long + 1) % 16
<1>1. d \in [1..Long -> 0..31] /\ e \in 0..15 /\ string_to_name(str) = 16 * Value(d, 32) + e
  BY NameOfString
<1>2. \A p \in 1..Long : d[p] = Sym(str, p)
  OBVIOUS
<1> HIDE DEF d, e
<1>3. PICK v : Packed(d, v) /\ Value(d, 32) = v[Long]
  BY <1>1, PackedExists
<1>4. string_to_name(str) \in Names
  BY <1>1, <1>3, PackedName
<1>5. /\ \A p \in 1..Long : SymbolAt(string_to_name(str), p) = d[p]
      /\ SymbolAt(string_to_name(str), Long + 1) = e
  <2> DEFINE nm == 16 * v[Long] + e
  <2>1. (\A p \in 1..Long : SymbolAt(nm, p) = d[p]) /\ SymbolAt(nm, Long + 1) = e
    BY <1>1, <1>3, SymbolsBack
  <2>2. string_to_name(str) = nm
    BY <1>1, <1>3
  <2> HIDE DEF nm
  <2> QED
    BY <2>1, <2>2
<1> QED
  BY <1>2, <1>4, <1>5 DEF e

\* A name is its symbols.
LEMMA NamesApart ==
  ASSUME NEW nm \in Names, NEW mn \in Names,
         \A p \in 1..Long + 1 : SymbolAt(nm, p) = SymbolAt(mn, p)
  PROVE  nm = mn
<1>1. Long + 1 \in 1..Long + 1 /\ \A p \in 1..Long : p \in 1..Long + 1
  BY Places
<1>2. [p \in 1..Long |-> SymbolAt(nm, p)] = [p \in 1..Long |-> SymbolAt(mn, p)]
  BY <1>1
<1>3. /\ nm = 16 * Value([p \in 1..Long |-> SymbolAt(nm, p)], 32) + SymbolAt(nm, Long + 1)
      /\ mn = 16 * Value([p \in 1..Long |-> SymbolAt(mn, p)], 32) + SymbolAt(mn, Long + 1)
  BY SymbolsOf
<1> QED
  BY <1>1, <1>2, <1>3

\* nameToString loses nothing.
LEMMA ReadBack ==
  ASSUME NEW nm \in Names
  PROVE  string_to_name(name_to_string(nm)) = nm
<1> DEFINE str == name_to_string(nm)
           mn  == string_to_name(str)
<1>1. str \in Seq(Nat) /\ \A p \in 1..Long + 1 : Sym(str, p) = SymbolAt(nm, p)
  BY StringOfName
<1>2. /\ mn \in Names
      /\ \A p \in 1..Long : SymbolAt(mn, p) = Sym(str, p)
      /\ SymbolAt(mn, Long + 1) = Sym(str, Long + 1) % 16
  BY <1>1, StringSymbols
<1>3. SymbolAt(nm, Long + 1) \in 0..15
  BY SymbolsOf
<1> HIDE DEF mn, str
<1>4. ASSUME NEW p \in 1..Long + 1 PROVE SymbolAt(mn, p) = SymbolAt(nm, p)
  <2>1. CASE p = Long + 1
    <3>1. PICK s \in 0..15 : s = SymbolAt(nm, Long + 1)
      BY <1>3
    <3>2. s % 16 = s
      OBVIOUS
    <3> QED
      BY <1>1, <1>2, <2>1, <3>1, <3>2
  <2>2. CASE p # Long + 1
    <3>1. p \in 1..Long
      BY <2>2, Places
    <3> QED
      BY <1>1, <1>2, <3>1
  <2> QED
    BY <2>1, <2>2
<1>5. mn = nm
  BY <1>2, <1>4, NamesApart
<1> QED
  BY <1>5 DEF mn, str

\* Two well formed names with the same symbols are one.
LEMMA WellFormedApart ==
  ASSUME NEW a \in Seq(Nat), NEW b \in Seq(Nat), WellFormed(a), WellFormed(b),
         \A p \in 1..Long + 1 : Sym(a, p) = Sym(b, p)
  PROVE  a = b
<1>1. PICK n \in Nat \ {0} : n = Long + 1
  BY Places
<1>2. ASSUME NEW x \in Seq(Nat), NEW y \in Seq(Nat), WellFormed(x), WellFormed(y),
             \A p \in 1..n : Sym(x, p) = Sym(y, p), Len(x) < Len(y)
      PROVE  FALSE
  <2>1. PICK l \in 1..n : l = Len(y) /\ ~(l <= Len(x))
    <3>1. Len(x) \in Nat /\ Len(y) \in Nat /\ Len(y) <= n
      BY <1>1, <1>2, LenProperties DEF WellFormed
    <3>2. Len(y) \in 1..n /\ ~(Len(y) <= Len(x))
      BY <1>2, <3>1
    <3> QED
      BY <3>2
  <2>2. y[l] # Dot /\ y[l] \in ToSet(charmap)
    <3>1. y # << >>
      <4>1. y = << >> => Len(y) = 0
        BY EmptySeq
      <4> QED
        BY <2>1, <4>1
    <3>2. l \in 1..Len(y)
      BY <2>1
    <3> QED
      BY <1>2, <2>1, <3>1, <3>2 DEF WellFormed
  <2>3. Sym(y, l) = char_to_symbol(y[l]) /\ Sym(x, l) = 0
    BY <2>1 DEF Sym
  <2>4. char_to_symbol(y[l]) = char_to_symbol(Dot)
    BY <1>2, <2>3, CharactersApart
  <2> QED
    BY <2>2, <2>4, CharactersApart
<1>3. Len(a) = Len(b)
  <2>1. ~(Len(a) < Len(b)) /\ ~(Len(b) < Len(a))
    BY <1>1, <1>2
  <2> QED
    BY <2>1, LenProperties
<1>4. ASSUME NEW i \in 1..Len(a) PROVE a[i] = b[i]
  <2>1. i \in 1..n /\ i <= Len(a) /\ i <= Len(b)
    BY <1>1, <1>3, LenProperties DEF WellFormed
  <2>2. a[i] \in ToSet(charmap) /\ b[i] \in ToSet(charmap)
    BY <1>3 DEF WellFormed
  <2>3. char_to_symbol(a[i]) = char_to_symbol(b[i])
    BY <1>1, <2>1 DEF Sym
  <2> QED
    BY <2>2, <2>3, CharactersApart
<1> QED
  BY <1>3, <1>4, SeqEqual

\* stringToName loses what is not a well formed name, and nothing else.
LEMMA PrintedBack ==
  ASSUME NEW str \in Seq(Nat)
  PROVE  LET back == name_to_string(string_to_name(str))
         IN  (back = str <=> WellFormed(str)) /\ WellFormed(back)
<1> DEFINE nm   == string_to_name(str)
           back == name_to_string(nm)
<1>1. /\ nm \in Names
      /\ \A p \in 1..Long : SymbolAt(nm, p) = Sym(str, p)
      /\ SymbolAt(nm, Long + 1) = Sym(str, Long + 1) % 16
  BY StringSymbols
<1> HIDE DEF nm
<1>2. /\ back \in Seq(Nat) /\ WellFormed(back)
      /\ \A p \in 1..Long + 1 : Sym(back, p) = SymbolAt(nm, p)
  BY <1>1, StringOfName
<1> HIDE DEF back
<1>3. ASSUME WellFormed(str) PROVE back = str
  <2>1. PICK s \in 0..15 : s = Sym(str, Long + 1)
    <3>1. Long + 1 \in Nat \ {0} /\ Len(str) \in Nat
      BY Places, LenProperties
    <3>2. PICK s \in 0..31 : s = Sym(str, Long + 1)
      BY <3>1, SymRange
    <3>3. s < 16
      <4>1. CASE Long + 1 <= Len(str)
        <5>1. Len(str) = Long + 1
          BY <1>3, <3>1, <4>1, Places DEF WellFormed
        <5> QED
          BY <1>3, <3>2, <4>1, <5>1 DEF WellFormed, Sym
      <4>2. CASE ~(Long + 1 <= Len(str))
        BY <3>2, <4>2 DEF Sym
      <4> QED
        BY <4>1, <4>2
    <3>4. s \in 0..15
      BY <3>3
    <3> QED
      BY <3>2, <3>4
  <2>2. s % 16 = s
    OBVIOUS
  <2>3. ASSUME NEW p \in 1..Long + 1 PROVE Sym(back, p) = Sym(str, p)
    <3>1. CASE p = Long + 1
      BY <1>1, <1>2, <2>1, <2>2, <3>1
    <3>2. CASE p # Long + 1
      <4>1. p \in 1..Long
        BY <3>2, Places
      <4> QED
        BY <1>1, <1>2, <4>1
    <3> QED
      BY <3>1, <3>2
  <2> QED
    BY <1>2, <1>3, <2>3, WellFormedApart
<1> QED
  BY <1>2, <1>3 DEF back, nm
-----------------------------------------------------------------------------
(* stringToName and nameToString. *)

NamesInv ==
  /\ name \in Names /\ text \in Seq(Nat)
  /\ TypeOK /\ NameRoundTrip /\ TextRoundTrip /\ SymbolsStayApart

\* NamesInv holds at first.
LEMMA NamesStart == ToolsInit => NamesInv
<1> SUFFICES ASSUME ToolsInit PROVE NamesInv
  OBVIOUS
<1>1. ran = "none"
  BY DEF ToolsInit, Init
<1>2. name \in Names /\ text \in Seq(Nat)
  <2>1. 0 \in Names
    <3>1. TwoTo(Width) \in Nat \ {0}
      BY Places, TwoToIs
    <3> QED
      BY <3>1 DEF Names
  <2>2. << >> \in Seq(Nat)
    OBVIOUS
  <2> QED
    BY <2>1, <2>2, NameCodecConsts DEF ToolsInit, Init
<1> QED
  BY <1>1, <1>2 DEF NamesInv, TypeOK, NameRoundTrip, TextRoundTrip, SymbolsStayApart

\* Each of the two tools keeps NamesInv, whatever it is given.
LEMMA NamesStep == NamesInv /\ [ToolsNext]_<<tool, vars, keyvars>> => NamesInv'
<1> SUFFICES ASSUME NamesInv, [ToolsNext]_<<tool, vars, keyvars>> PROVE NamesInv'
  OBVIOUS
<1>1. CASE UNCHANGED vars
  BY <1>1 DEF NamesInv, TypeOK, NameRoundTrip, TextRoundTrip, SymbolsStayApart, vars
<1>2. CASE StringToName
  <2>1. name' = string_to_name(text) /\ ran' = "stringToName" /\ text' = text
    BY <1>2 DEF StringToName
  <2>2. PICK str \in Seq(Nat) : str = text
    BY DEF NamesInv
  <2>3. string_to_name(str) \in Names
    BY StringSymbols
  <2>4. string_to_name(str) = Positional(str)
    BY NameOfString DEF Positional, Sym
  <2>5. LET back == name_to_string(string_to_name(str))
        IN  (back = str <=> WellFormed(str)) /\ WellFormed(back)
    BY PrintedBack
  <2> QED
    BY <2>1, <2>2, <2>3, <2>4, <2>5
    DEF NamesInv, TypeOK, NameRoundTrip, TextRoundTrip, SymbolsStayApart
<1>3. CASE NameToString
  <2>1. text' = name_to_string(name) /\ ran' = "nameToString" /\ name' = name
    BY <1>3 DEF NameToString
  <2>2. PICK nm \in Names : nm = name
    BY DEF NamesInv
  <2>3. PICK str \in Seq(Nat) : str = name_to_string(nm) /\ WellFormed(str) /\ string_to_name(str) = nm
    BY StringOfName, ReadBack
  <2>4. Len(str) <= Long + 1 /\ ToSet(str) \subseteq ToSet(charmap)
    <3>1. DOMAIN str = 1..Len(str)
      BY LenProperties
    <3> QED
      BY <2>3, <3>1 DEF WellFormed, ToSet
  <2> QED
    BY <2>1, <2>2, <2>3, <2>4
    DEF NamesInv, TypeOK, NameRoundTrip, TextRoundTrip, SymbolsStayApart
<1> QED
  BY <1>1, <1>2, <1>3 DEF ToolsNext, Next

\* What the name tools print is related as NamesInv says, in every state.
THEOREM NamesHold == ToolsSpec => []NamesInv
BY NamesStart, NamesStep, PTL DEF ToolsSpec

\* The numbers are names and the strings fit the charmap (TypeOK).
THEOREM TypeCorrect == ToolsSpec => []TypeOK
<1>1. NamesInv => TypeOK
  BY DEF NamesInv
<1> QED
  BY <1>1, NamesHold, PTL

\* nameToString loses nothing: stringToName gives the number back
\* (NameRoundTrip).
THEOREM NamesRead == ToolsSpec => []NameRoundTrip
<1>1. NamesInv => NameRoundTrip
  BY DEF NamesInv
<1> QED
  BY <1>1, NamesHold, PTL

\* stringToName loses what no name can hold, and nothing else
\* (TextRoundTrip).
THEOREM TextsRead == ToolsSpec => []TextRoundTrip
<1>1. NamesInv => TextRoundTrip
  BY DEF NamesInv
<1> QED
  BY <1>1, NamesHold, PTL

\* The symbols of a name do not run into each other (SymbolsStayApart).
THEOREM SymbolsApart == ToolsSpec => []SymbolsStayApart
<1>1. NamesInv => SymbolsStayApart
  BY DEF NamesInv
<1> QED
  BY <1>1, NamesHold, PTL
=============================================================================

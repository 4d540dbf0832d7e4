------------------------ MODULE MessageBufferProofs -------------------------
(***************************************************************************)
(* message_buffer is a queue of bytes, for blocks of any length, chains of *)
(* any length and whatever arrives.  The pair of a block and an offset is  *)
(* read as one address, Pos; Chain says what the member functions keep,    *)
(* and Handed that the memory given to an asynchronous read is, whatever   *)
(* was read since, the part of the chain behind the write pointer.         *)
(***************************************************************************)
EXTENDS MessageBuffer, SequenceTheorems, FiniteSetTheorems, TLAPS

Indices == [first : Nat, second : 0..buffer_len - 1]

Span(n) == n * buffer_len
BlockOf(a) == a \div buffer_len
Offset(a) == a % buffer_len

Pos(ind) == Span(ind.first) + ind.second

\* Division with a remainder.
LEMMA Division ==
  ASSUME NEW a \in Nat, NEW b \in Nat, b > 0
  PROVE  /\ a \div b \in Nat /\ a % b \in 0..b - 1
         /\ a = (a \div b) * b + (a % b)
<1>1. a \div b \in Int /\ a % b \in 0..b - 1
  OBVIOUS
<1>2. a = (a \div b) * b + (a % b)
  OBVIOUS
<1>3. a \div b >= 0
  OBVIOUS
<1> QED
  BY <1>1, <1>2, <1>3

\* Blocks one after the other.
LEMMA Spans ==
  ASSUME NEW x \in Nat, NEW y \in Nat
  PROVE  /\ Span(0) = 0 /\ Span(x) \in Nat /\ Span(x + y) = Span(x) + Span(y)
         /\ x < y => Span(x) + buffer_len <= Span(y)
<1>1. buffer_len \in Nat /\ buffer_len > 0
  BY BufferConsts
<1>2. \A z \in Nat : Span(z) \in Nat
  BY <1>1 DEF Span
<1>3. \A z, t \in Nat : Span(z + t) = Span(z) + Span(t)
  BY <1>1 DEF Span
<1>4. Span(1) = buffer_len /\ Span(0) = 0
  BY <1>1 DEF Span
<1>5. ASSUME x < y PROVE Span(x) + buffer_len <= Span(y)
  <2>1. PICK d \in Nat : y = (x + 1) + d
    <3>1. y - (x + 1) \in Nat /\ y = (x + 1) + (y - (x + 1))
      BY <1>5
    <3> QED
      BY <3>1
  <2>2. Span((x + 1) + d) = Span(x + 1) + Span(d) /\ Span(x + 1) = Span(x) + Span(1)
    BY <1>3
  <2>3. Span(x) \in Nat /\ Span(d) \in Nat
    BY <1>2
  <2> QED
    BY <1>1, <1>4, <2>1, <2>2, <2>3
<1> QED
  BY <1>2, <1>3, <1>4, <1>5

\* Every address is in a block, at an offset.
LEMMA Address ==
  ASSUME NEW a \in Nat
  PROVE  /\ BlockOf(a) \in Nat /\ Offset(a) \in 0..buffer_len - 1
         /\ a = Span(BlockOf(a)) + Offset(a)
<1>1. buffer_len \in Nat /\ buffer_len > 0
  BY BufferConsts
<1>2. /\ a \div buffer_len \in Nat /\ a % buffer_len \in 0..buffer_len - 1
      /\ a = (a \div buffer_len) * buffer_len + (a % buffer_len)
  BY <1>1, Division
<1> QED
  BY <1>2, Zenon DEF BlockOf, Offset, Span

\* The block and the offset that give an address are its block and offset.
LEMMA Quotient ==
  ASSUME NEW q \in Nat, NEW s \in 0..buffer_len - 1
  PROVE  BlockOf(Span(q) + s) = q /\ Offset(Span(q) + s) = s
<1> DEFINE p == BlockOf(Span(q) + s)
           t == Offset(Span(q) + s)
<1>1. buffer_len \in Nat /\ Span(q) \in Nat /\ Span(q) + s \in Nat
  <2>1. buffer_len \in Nat /\ Span(q) \in Nat
    BY BufferConsts, Spans
  <2> QED
    BY <2>1
<1>2. p \in Nat /\ t \in 0..buffer_len - 1 /\ Span(q) + s = Span(p) + t
  BY <1>1, Address
<1> HIDE DEF p, t
<1>3. Span(p) \in Nat
  BY <1>2, Spans
<1>4. ~(p < q)
  <2>1. p < q => Span(p) + buffer_len <= Span(q)
    BY <1>2, Spans
  <2> QED
    BY <1>1, <1>2, <1>3, <2>1
<1>5. ~(q < p)
  <2>1. q < p => Span(q) + buffer_len <= Span(p)
    BY <1>2, Spans
  <2> QED
    BY <1>1, <1>2, <1>3, <2>1
<1>6. p = q
  BY <1>2, <1>4, <1>5
<1>7. t = s
  BY <1>1, <1>2, <1>3, <1>6
<1> QED
  BY <1>6, <1>7 DEF p, t

\* An index is typed, and so is its address.
LEMMA PosType ==
  ASSUME NEW ind \in Indices
  PROVE  /\ ind.first \in Nat /\ ind.second \in 0..buffer_len - 1
         /\ Pos(ind) \in Nat /\ ind = Index(ind.first, ind.second)
         /\ BlockOf(Pos(ind)) = ind.first /\ Offset(Pos(ind)) = ind.second
<1>1. ind.first \in Nat /\ ind.second \in 0..buffer_len - 1 /\ ind = Index(ind.first, ind.second)
  BY DEF Indices, Index
<1>2. Span(ind.first) \in Nat /\ buffer_len \in Nat
  BY <1>1, Spans, BufferConsts
<1>3. Pos(ind) \in Nat
  BY <1>1, <1>2 DEF Pos
<1>4. BlockOf(Pos(ind)) = ind.first /\ Offset(Pos(ind)) = ind.second
  BY <1>1, Quotient DEF Pos
<1> QED
  BY <1>1, <1>3, <1>4

\* Indices are equal when their addresses are.
LEMMA PosInjective ==
  ASSUME NEW i \in Indices, NEW j \in Indices, Pos(i) = Pos(j)
  PROVE  i = j
BY PosType

\* Addresses in earlier blocks are lower, and the converse.
LEMMA BelowBlock ==
  ASSUME NEW a \in Nat, NEW n \in Nat
  PROVE  a < Span(n) <=> BlockOf(a) < n
<1> DEFINE q == BlockOf(a)
           s == Offset(a)
<1>1. q \in Nat /\ s \in 0..buffer_len - 1 /\ a = Span(q) + s
  BY Address
<1> HIDE DEF q, s
<1>2. buffer_len \in Nat /\ Span(q) \in Nat /\ Span(n) \in Nat
  BY <1>1, BufferConsts, Spans
<1>3. q < n => Span(q) + buffer_len <= Span(n)
  BY <1>1, Spans
<1>4. n < q => Span(n) + buffer_len <= Span(q)
  BY <1>1, Spans
<1>5. a < Span(n) <=> q < n
  BY <1>1, <1>2, <1>3, <1>4
<1> QED
  BY <1>5 DEF q

\* Whole blocks more or less change the block and not the offset.
LEMMA Shift ==
  ASSUME NEW a \in Nat, NEW d \in Nat
  PROVE  /\ BlockOf(a + Span(d)) = BlockOf(a) + d /\ Offset(a + Span(d)) = Offset(a)
         /\ Span(d) \in Nat /\ a + Span(d) \in Nat
<1> DEFINE q == BlockOf(a)
           s == Offset(a)
<1>1. q \in Nat /\ s \in 0..buffer_len - 1 /\ a = Span(q) + s
  BY Address
<1> HIDE DEF q, s
<1>2. Span(q) \in Nat /\ Span(d) \in Nat /\ Span(q + d) = Span(q) + Span(d)
  BY <1>1, Spans
<1>3. q + d \in Nat /\ buffer_len \in Nat
  BY <1>1, BufferConsts
<1>4. a + Span(d) = Span(q + d) + s /\ a + Span(d) \in Nat
  BY <1>1, <1>2, <1>3
<1>5. BlockOf(a + Span(d)) = q + d /\ Offset(a + Span(d)) = s
  BY <1>1, <1>3, <1>4, Quotient
<1> QED
  BY <1>2, <1>4, <1>5 DEF q, s

\* advance_index adds to the address.
LEMMA Advance ==
  ASSUME NEW ind \in Indices, NEW n \in Nat
  PROVE  /\ advance_index(ind, n) \in Indices
         /\ Pos(advance_index(ind, n)) = Pos(ind) + n
         /\ advance_index(ind, n) = Index(BlockOf(Pos(ind) + n), Offset(Pos(ind) + n))
<1> DEFINE a == n + ind.second
<1>1. ind.first \in Nat /\ ind.second \in Nat /\ a \in Nat /\ Pos(ind) \in Nat
  BY PosType, BufferConsts
<1>2. advance_index(ind, n) = Index(ind.first + BlockOf(a), Offset(a))
  BY DEF advance_index, BlockOf, Offset
<1> HIDE DEF a
<1>3. /\ BlockOf(a + Span(ind.first)) = BlockOf(a) + ind.first
      /\ Offset(a + Span(ind.first)) = Offset(a)
      /\ Span(ind.first) \in Nat
  BY <1>1, Shift
<1> DEFINE b == Pos(ind) + n
<1>4. b = a + Span(ind.first) /\ b \in Nat
  BY <1>1, <1>3 DEF Pos, a
<1> HIDE DEF b
<1>5. ind.first + BlockOf(a) = BlockOf(b) /\ Offset(a) = Offset(b)
  <2>1. BlockOf(a) \in Nat
    BY <1>1, Address
  <2> QED
    BY <1>1, <1>3, <1>4, <2>1
<1>6. advance_index(ind, n) = Index(BlockOf(b), Offset(b))
  BY <1>2, <1>5
<1>7. BlockOf(b) \in Nat /\ Offset(b) \in 0..buffer_len - 1 /\ b = Span(BlockOf(b)) + Offset(b)
  BY <1>4, Address
<1>8. Index(BlockOf(b), Offset(b)) \in Indices /\ Pos(Index(BlockOf(b), Offset(b))) = b
  BY <1>7 DEF Indices, Index, Pos
<1> QED
  BY <1>6, <1>8 DEF b

\* What is between an index and the write pointer.
LEMMA Distance ==
  ASSUME NEW m, NEW ind \in Indices, m.write_ind \in Indices
  PROVE  bytes_to_read_from_index(m, ind) = Pos(m.write_ind) - Pos(ind)
<1>1. /\ m.write_ind.first \in Nat /\ m.write_ind.second \in Nat
      /\ ind.first \in Nat /\ ind.second \in Nat /\ buffer_len \in Nat
  BY PosType, BufferConsts
<1>2. (m.write_ind.first - ind.first) * buffer_len = Span(m.write_ind.first) - Span(ind.first)
  BY <1>1 DEF Span
<1>3. Span(m.write_ind.first) \in Nat /\ Span(ind.first) \in Nat
  BY <1>1, Spans
<1> QED
  BY <1>1, <1>2, <1>3 DEF bytes_to_read_from_index, Pos
-----------------------------------------------------------------------------
(* Growing: the pool gives blocks that are not in the chain.               *)

Block == [id : Ids, bytes : Bytes]
Distinct(bs) == \A j, k \in DOMAIN bs : bs[j].id = bs[k].id => j = k

\* The numbers from 1 to n are n.
LEMMA Initial ==
  ASSUME NEW n \in Nat
  PROVE  IsFiniteSet(1..n) /\ Cardinality(1..n) = n
<1>1. IsFiniteSet(1..n) /\ Cardinality(1..n) = IF 1 > n THEN 0 ELSE n - 1 + 1
  BY FS_Interval
<1>2. (IF 1 > n THEN 0 ELSE n - 1 + 1) = n
  OBVIOUS
<1> QED
  BY <1>1, <1>2

\* There are as many ids left as there are blocks that can still be asked for.
LEMMA FreeIds ==
  ASSUME NEW bs \in Seq(Block), NEW n \in Nat, Len(bs) + n <= MaxBlocks + 2,
         NEW free, free = {id \in Ids : \A k \in DOMAIN bs : bs[k].id # id}
  PROVE  \E f \in [1..n -> free] : \A j, k \in 1..n : f[j] = f[k] => j = k
<1> DEFINE idOf == [k \in 1..Len(bs) |-> bs[k].id]
           used == {idOf[k] : k \in 1..Len(bs)}
<1>1. MaxBlocks \in Nat /\ Len(bs) \in Nat /\ DOMAIN bs = 1..Len(bs)
  BY BufferConsts, LenProperties
<1>2. IsFiniteSet(1..Len(bs)) /\ Cardinality(1..Len(bs)) = Len(bs)
  BY <1>1, Initial
<1>3. IsFiniteSet(Ids) /\ Cardinality(Ids) = MaxBlocks + 2
  <2>1. IsFiniteSet(1..(MaxBlocks + 2)) /\ Cardinality(1..(MaxBlocks + 2)) = MaxBlocks + 2
    BY <1>1, Initial
  <2>2. Ids = 1..(MaxBlocks + 2)
    BY DEF Ids
  <2> QED
    BY <2>1, <2>2
<1>4. IsFiniteSet(used) /\ Cardinality(used) <= Len(bs)
  <2>1. idOf \in Surjection(1..Len(bs), used)
    BY DEF Surjection
  <2> HIDE DEF idOf, used
  <2>2. IsFiniteSet(used) /\ Cardinality(used) <= Cardinality(1..Len(bs))
    BY <1>2, <2>1, FS_Surjection
  <2> QED
    BY <1>2, <2>2
<1>5. free = Ids \ used
  BY <1>1
<1> HIDE DEF idOf, used
<1>6. IsFiniteSet(free) /\ Cardinality(free) = Cardinality(Ids) - Cardinality(Ids \cap used)
  <2>1. /\ IsFiniteSet(Ids \ used)
        /\ Cardinality(Ids \ used) = Cardinality(Ids) - Cardinality(Ids \cap used)
    BY <1>3, FS_Difference
  <2> QED
    BY <1>5, <2>1
<1>7. /\ IsFiniteSet(Ids \cap used) /\ Cardinality(Ids \cap used) <= Cardinality(used)
  <2>1. Ids \cap used \in SUBSET used
    OBVIOUS
  <2> QED
    BY <1>4, <2>1, FS_Subset
<1>8. Cardinality(used) \in Nat /\ Cardinality(Ids \cap used) \in Nat /\ Cardinality(free) \in Nat
  BY <1>4, <1>6, <1>7, FS_CardinalityType
<1>9. n <= Cardinality(free)
  BY <1>1, <1>3, <1>4, <1>6, <1>7, <1>8
<1>10. PICK b : b \in Bijection(1..Cardinality(free), free)
  BY <1>6, FS_CardinalityType DEF ExistsBijection
<1>11. /\ b \in [1..Cardinality(free) -> free]
       /\ \A j, k \in 1..Cardinality(free) : b[j] = b[k] => j = k
  BY <1>10 DEF Bijection, Injection, IsInjective
<1>12. \A k \in 1..n : k \in 1..Cardinality(free)
  BY <1>8, <1>9
<1> DEFINE f == [k \in 1..n |-> b[k]]
<1>13. f \in [1..n -> free] /\ \A j, k \in 1..n : f[j] = f[k] => j = k
  BY <1>11, <1>12
<1> QED
  BY <1>13

\* What malloc() of the pool returns.
LEMMA FreshBlocks ==
  ASSUME NEW bs \in Seq(Block), NEW n \in Nat, Len(bs) + n <= MaxBlocks + 2
  PROVE  /\ Fresh(bs, n) \in Seq(Block) /\ Len(Fresh(bs, n)) = n
         /\ Distinct(Fresh(bs, n))
         /\ \A j \in 1..n, k \in DOMAIN bs : bs[k].id # Fresh(bs, n)[j].id
<1> DEFINE free == {id \in Ids : \A k \in DOMAIN bs : bs[k].id # id}
           ids == CHOOSE f \in [1..n -> free] : \A j, k \in 1..n : f[j] = f[k] => j = k
           blank == [b \in 1..buffer_len |-> Junk]
<1>1. \E f \in [1..n -> free] : \A j, k \in 1..n : f[j] = f[k] => j = k
  BY FreeIds
<1>2. ids \in [1..n -> free] /\ \A j, k \in 1..n : ids[j] = ids[k] => j = k
  <2> HIDE DEF free
  <2> QED
    BY <1>1
<1>3. \A i \in free : i \in Ids /\ \A k \in DOMAIN bs : bs[k].id # i
  OBVIOUS
<1>4. Fresh(bs, n) = [k \in 1..n |-> [id |-> ids[k], bytes |-> blank]]
  BY DEF Fresh
<1>5. blank \in Bytes
  BY DEF Bytes
<1> HIDE DEF free, ids, blank
<1>6. \A k \in 1..n : ids[k] \in free
  BY <1>2
<1>7. Fresh(bs, n) \in [1..n -> Block]
  BY <1>3, <1>4, <1>5, <1>6 DEF Block
<1>8. Fresh(bs, n) \in Seq(Block) /\ Len(Fresh(bs, n)) = n /\ DOMAIN Fresh(bs, n) = 1..n
  BY <1>7
<1>9. \A k \in 1..n : Fresh(bs, n)[k].id = ids[k]
  BY <1>4
<1> QED
  BY <1>2, <1>3, <1>6, <1>8, <1>9 DEF Distinct

Buffer == [buffers : Seq(Block), read_ind : Indices, write_ind : Indices,
           sanity_check : Nat, exited : BOOLEAN]

\* A chain of different blocks that have been counted.
Counted(m) == m \in Buffer /\ Distinct(m.buffers) /\ m.sanity_check = Len(m.buffers)

\* The members of a message_buffer, typed.
LEMMA Members ==
  ASSUME NEW m \in Buffer
  PROVE  /\ m.buffers \in Seq(Block) /\ Len(m.buffers) \in Nat
         /\ DOMAIN m.buffers = 1..Len(m.buffers)
         /\ m.read_ind \in Indices /\ m.write_ind \in Indices
         /\ m.sanity_check \in Nat /\ m.exited \in BOOLEAN
<1>1. m.buffers \in Seq(Block)
  BY DEF Buffer
<1> QED
  BY <1>1, LenProperties DEF Buffer

\* Growing leaves the blocks there were where they were.
LEMMA Grows ==
  ASSUME NEW m \in Buffer, Counted(m), NEW n \in Nat, Len(m.buffers) + n <= MaxBlocks + 2
  PROVE  LET g == GrownBy(m, n)
         IN  /\ Counted(g)
             /\ Len(g.buffers) = Len(m.buffers) + n
             /\ \A k \in 1..Len(m.buffers) : g.buffers[k] = m.buffers[k]
             /\ g.read_ind = m.read_ind /\ g.write_ind = m.write_ind /\ g.exited = m.exited
<1> DEFINE bs == m.buffers
           new == Fresh(bs, n)
<1>1. /\ m \in Buffer /\ Distinct(bs) /\ m.sanity_check = Len(bs)
      /\ bs \in Seq(Block) /\ Len(bs) \in Nat /\ DOMAIN bs = 1..Len(bs)
      /\ m.sanity_check \in Nat
  BY Members DEF Counted
<1>2. LET g == GrownBy(m, n)
      IN  /\ g.buffers = bs \o new /\ g.sanity_check = m.sanity_check + n
          /\ g.read_ind = m.read_ind /\ g.write_ind = m.write_ind /\ g.exited = m.exited
          /\ bs \o new \in Seq(Block) /\ m.sanity_check + n \in Nat => g \in Buffer
  BY <1>1 DEF GrownBy, Buffer
<1>3. /\ new \in Seq(Block) /\ Len(new) = n /\ DOMAIN new = 1..n
      /\ Distinct(new)
      /\ \A j \in 1..n, k \in DOMAIN bs : bs[k].id # new[j].id
  <2>1. new \in Seq(Block) /\ Len(new) = n
    BY <1>1, FreshBlocks
  <2> QED
    BY <1>1, <2>1, FreshBlocks, LenProperties
<1> HIDE DEF bs, new
<1>4. /\ bs \o new \in Seq(Block) /\ Len(bs \o new) = Len(bs) + n
      /\ \A k \in 1..Len(bs) + n : (bs \o new)[k] = IF k <= Len(bs) THEN bs[k] ELSE new[k - Len(bs)]
  <2>1. bs \in Seq(Block) /\ new \in Seq(Block) /\ Len(new) = n
    BY <1>1, <1>3
  <2> QED
    BY <2>1, ConcatProperties
<1>5. DOMAIN (bs \o new) = 1..Len(bs) + n
  BY <1>4, LenProperties
<1>6. Distinct(bs \o new)
  <2> SUFFICES ASSUME NEW j \in 1..Len(bs) + n, NEW k \in 1..Len(bs) + n,
                      (bs \o new)[j].id = (bs \o new)[k].id
               PROVE  j = k
    BY <1>5 DEF Distinct
  <2>1. CASE j <= Len(bs) /\ k <= Len(bs)
    BY <1>1, <1>4, <2>1 DEF Distinct
  <2>2. CASE j > Len(bs) /\ k > Len(bs)
    <3>1. j - Len(bs) \in 1..n /\ k - Len(bs) \in 1..n
      BY <1>1, <2>2
    <3>2. new[j - Len(bs)].id = new[k - Len(bs)].id
      BY <1>1, <1>4, <2>2
    <3>3. j - Len(bs) = k - Len(bs)
      BY <1>3, <3>1, <3>2 DEF Distinct
    <3> QED
      BY <1>1, <3>3
  <2>3. CASE j <= Len(bs) /\ k > Len(bs)
    <3>1. j \in DOMAIN bs /\ k - Len(bs) \in 1..n
      BY <1>1, <2>3
    <3> QED
      BY <1>1, <1>3, <1>4, <2>3, <3>1
  <2>4. CASE j > Len(bs) /\ k <= Len(bs)
    <3>1. k \in DOMAIN bs /\ j - Len(bs) \in 1..n
      BY <1>1, <2>4
    <3> QED
      BY <1>1, <1>3, <1>4, <2>4, <3>1
  <2> QED
    BY <1>1, <2>1, <2>2, <2>3, <2>4
<1>7. GrownBy(m, n) \in Buffer
  BY <1>1, <1>2, <1>4
<1>8. Counted(GrownBy(m, n))
  BY <1>1, <1>2, <1>4, <1>6, <1>7 DEF Counted
<1> QED
  BY <1>1, <1>2, <1>4, <1>8 DEF bs
-----------------------------------------------------------------------------
(* What the member functions keep.                                         *)

Chain(m) ==
  /\ Counted(m)
  /\ m.write_ind.first < Len(m.buffers)
  /\ Pos(m.read_ind) <= Pos(m.write_ind)
  /\ m.exited => Len(m.buffers) > MaxChain
  /\ ~m.exited => m.read_ind.first = 0

\* The byte and the piece of memory at an address of the chain.
Cell(m, a) == m.buffers[BlockOf(a) + 1].bytes[Offset(a) + 1]
Slot(m, a) == [id |-> m.buffers[BlockOf(a) + 1].id, second |-> Offset(a)]

\* The bytes between the pointers.
Between(m) ==
  [k \in 1..(Pos(m.write_ind) - Pos(m.read_ind)) |-> Cell(m, Pos(m.read_ind) + (k - 1))]

\* The memory behind the write pointer of m is still there in r, if that has
\* not moved towards the end.
Keeps(m, r) ==
  /\ Pos(r.write_ind) <= Pos(m.write_ind)
  /\ \A k \in Nat : Pos(m.write_ind) + k < Span(Len(m.buffers)) =>
       /\ Pos(r.write_ind) + k < Span(Len(r.buffers))
       /\ Slot(r, Pos(r.write_ind) + k) = Slot(m, Pos(m.write_ind) + k)

\* The pointers are addresses of the chain.
LEMMA Pointers ==
  ASSUME NEW m \in Buffer, Chain(m)
  PROVE  /\ m \in Buffer /\ m.buffers \in Seq(Block) /\ Len(m.buffers) \in Nat \ {0}
         /\ m.read_ind \in Indices /\ m.write_ind \in Indices
         /\ Pos(m.read_ind) \in Nat /\ Pos(m.write_ind) \in Nat
         /\ Pos(m.read_ind) <= Pos(m.write_ind)
         /\ Pos(m.write_ind) < Span(Len(m.buffers))
         /\ Span(Len(m.buffers)) \in Nat
         /\ bytes_to_read(m) = Pos(m.write_ind) - Pos(m.read_ind)
<1>1. /\ m \in Buffer /\ m.buffers \in Seq(Block) /\ Len(m.buffers) \in Nat
      /\ m.read_ind \in Indices /\ m.write_ind \in Indices
  BY Members DEF Chain, Counted
<1>2. Pos(m.read_ind) \in Nat /\ Pos(m.write_ind) \in Nat
  BY <1>1, PosType
<1>3. m.write_ind.first \in Nat /\ m.write_ind.first = BlockOf(Pos(m.write_ind))
  BY <1>1, PosType
<1>4. Pos(m.write_ind) < Span(Len(m.buffers))
  BY <1>1, <1>2, <1>3, BelowBlock DEF Chain
<1>5. Span(Len(m.buffers)) \in Nat
  BY <1>1, Spans
<1> QED
  BY <1>1, <1>2, <1>3, <1>4, <1>5, Distance DEF Chain, bytes_to_read

\* An address of the chain is in one of its blocks.
LEMMA InChain ==
  ASSUME NEW m \in Buffer, NEW a \in Nat, a < Span(Len(m.buffers))
  PROVE  /\ BlockOf(a) + 1 \in 1..Len(m.buffers)
         /\ Offset(a) + 1 \in 1..buffer_len
         /\ m.buffers[BlockOf(a) + 1] \in Block
         /\ Cell(m, a) \in Byte \union {Junk}
         /\ Slot(m, a) \in [id : Ids, second : 0..buffer_len - 1]
<1>1. m.buffers \in Seq(Block) /\ Len(m.buffers) \in Nat /\ buffer_len \in Nat
  BY Members, BufferConsts
<1>2. BlockOf(a) < Len(m.buffers)
  BY <1>1, BelowBlock
<1>3. BlockOf(a) \in Nat /\ Offset(a) \in 0..buffer_len - 1
  BY Address
<1> DEFINE b == BlockOf(a)
           s == Offset(a)
<1> HIDE DEF b, s
<1>4. b \in Nat /\ b < Len(m.buffers) /\ s \in 0..buffer_len - 1
  BY <1>2, <1>3 DEF b, s
<1>5. b + 1 \in 1..Len(m.buffers) /\ s + 1 \in 1..buffer_len
  BY <1>1, <1>4
<1>6. m.buffers[b + 1] \in Block
  BY <1>1, <1>5, ElementOfSeq
<1>7. m.buffers[b + 1].bytes[s + 1] \in Byte \union {Junk} /\ m.buffers[b + 1].id \in Ids
  BY <1>5, <1>6 DEF Block, Bytes
<1>8. Cell(m, a) \in Byte \union {Junk}
  BY <1>7 DEF Cell, b, s
<1>9. [id |-> m.buffers[b + 1].id, second |-> s] \in [id : Ids, second : 0..buffer_len - 1]
  BY <1>4, <1>7
<1>10. Slot(m, a) \in [id : Ids, second : 0..buffer_len - 1]
  BY <1>9 DEF Slot, b, s
<1> QED
  BY <1>5, <1>6, <1>8, <1>10 DEF b, s

\* The bytes of a block, from an index on.
LEMMA BlockBytes ==
  ASSUME NEW m \in Buffer, Chain(m), NEW ind \in Indices, NEW n \in Nat,
         Pos(ind) + n <= Pos(m.write_ind), ind.second + n <= buffer_len
  PROVE  /\ BytesAt(m, ind, n) \in Seq(Byte \union {Junk})
         /\ Len(BytesAt(m, ind, n)) = n
         /\ \A k \in 1..n : BytesAt(m, ind, n)[k] = Cell(m, Pos(ind) + (k - 1))
<1> DEFINE data == m.buffers[ind.first + 1].bytes
           s == ind.second
<1>1. /\ ind.first \in Nat /\ s \in Nat /\ buffer_len \in Nat /\ Pos(ind) \in Nat
      /\ m \in Buffer /\ Pos(m.write_ind) \in Nat /\ Span(Len(m.buffers)) \in Nat
      /\ Pos(m.write_ind) < Span(Len(m.buffers))
  BY PosType, Pointers, BufferConsts
<1>2. /\ BlockOf(Pos(ind)) = ind.first
  BY PosType
<1>3. m.buffers[ind.first + 1] \in Block
  <2>1. Pos(ind) < Span(Len(m.buffers))
    BY <1>1
  <2>2. m.buffers[BlockOf(Pos(ind)) + 1] \in Block
    BY <1>1, <2>1, InChain
  <2> QED
    BY <1>2, <2>2
<1>4. \A i \in 1..buffer_len : data[i] \in Byte \union {Junk}
  BY <1>3 DEF Block, Bytes
<1> HIDE DEF data
<1>5. BytesAt(m, ind, n) = SubSeq(data, s + 1, s + n)
  BY DEF BytesAt, data
<1> HIDE DEF s
<1>6. /\ SubSeq(data, s + 1, s + n) \in Seq(Byte \union {Junk})
      /\ Len(SubSeq(data, s + 1, s + n)) = IF s + 1 <= s + n THEN (s + n) - (s + 1) + 1 ELSE 0
      /\ \A i \in 1..(s + n) - (s + 1) + 1 : SubSeq(data, s + 1, s + n)[i] = data[(s + 1) + i - 1]
  <2>1. \A i \in s + 1..s + n : data[i] \in Byte \union {Junk}
    BY <1>1, <1>4 DEF s
  <2>2. s + 1 \in Int /\ s + n \in Int
    BY <1>1
  <2> QED
    BY <2>1, <2>2, SubSeqProperties
<1>7. \A k \in 1..n : SubSeq(data, s + 1, s + n)[k] = data[s + k]
  <2> TAKE k \in 1..n
  <2>1. k \in 1..(s + n) - (s + 1) + 1 /\ (s + 1) + k - 1 = s + k
    BY <1>1
  <2> QED
    BY <1>6, <2>1
<1>8. \A k \in 1..n : Cell(m, Pos(ind) + (k - 1)) = data[s + k]
  <2> TAKE k \in 1..n
  <2>1. k - 1 \in Nat /\ s + (k - 1) \in 0..buffer_len - 1
    BY <1>1 DEF s
  <2>2. Pos(ind) + (k - 1) = Span(ind.first) + (s + (k - 1))
    <3>1. Pos(ind) = Span(ind.first) + s /\ Span(ind.first) \in Nat
      BY <1>1, Spans DEF Pos, s
    <3> QED
      BY <1>1, <2>1, <3>1
  <2>3. /\ BlockOf(Span(ind.first) + (s + (k - 1))) = ind.first
        /\ Offset(Span(ind.first) + (s + (k - 1))) = s + (k - 1)
    BY <1>1, <2>1, Quotient
  <2>4. s + (k - 1) + 1 = s + k
    BY <1>1
  <2> QED
    BY <2>2, <2>3, <2>4 DEF Cell, data
<1>9. Len(SubSeq(data, s + 1, s + n)) = n
  BY <1>1, <1>6
<1> QED
  BY <1>5, <1>6, <1>7, <1>8, <1>9
-----------------------------------------------------------------------------
(* Reading.                                                                *)

\* reset leaves one block and no bytes, or ends the process.
LEMMA Resets ==
  ASSUME NEW m \in Buffer, Counted(m), Len(m.buffers) \in Nat \ {0}
  PROVE  /\ Counted(reset(m))
         /\ Len(m.buffers) > MaxChain =>
              /\ reset(m).buffers = m.buffers /\ reset(m).exited = TRUE
              /\ reset(m).read_ind = m.read_ind /\ reset(m).write_ind = m.write_ind
         /\ ~(Len(m.buffers) > MaxChain) =>
              /\ Len(reset(m).buffers) = 1 /\ reset(m).exited = m.exited
              /\ reset(m).read_ind = Start /\ reset(m).write_ind = Start
<1> DEFINE bs == m.buffers
           first == <<Head(bs)>>
<1>1. /\ m \in Buffer /\ Distinct(bs) /\ m.sanity_check = Len(bs) /\ MaxChain \in Nat
      /\ bs \in Seq(Block) /\ Len(bs) \in Nat \ {0}
  BY Members, BufferConsts DEF Counted
<1>2. Start \in Indices
  BY BufferConsts DEF Start, Index, Indices
<1>3. bs[1] \in Block /\ Head(bs) = bs[1]
  BY <1>1, ElementOfSeq
<1>4. first \in Seq(Block) /\ Len(first) = 1 /\ DOMAIN first = 1..1
  BY <1>3
<1>5. Distinct(first)
  BY <1>4 DEF Distinct
<1>6. CASE Len(bs) > MaxChain
  <2>1. reset(m) = [m EXCEPT !.exited = TRUE]
    BY <1>6 DEF reset
  <2>2. /\ reset(m) \in Buffer /\ reset(m).buffers = m.buffers /\ reset(m).exited = TRUE
        /\ reset(m).read_ind = m.read_ind /\ reset(m).write_ind = m.write_ind
        /\ reset(m).sanity_check = m.sanity_check
    BY <1>1, <2>1 DEF Buffer
  <2> QED
    BY <1>1, <1>6, <2>2 DEF Counted
<1>7. CASE ~(Len(bs) > MaxChain)
  <2> DEFINE n == m.sanity_check - (Len(bs) - 1)
  <2>1. n = 1
    BY <1>1
  <2>2. reset(m) = [m EXCEPT !.sanity_check = n, !.buffers = first,
                             !.read_ind = Start, !.write_ind = Start]
    BY <1>1, <1>7 DEF reset
  <2> HIDE DEF n, first
  <2>3. /\ reset(m).buffers = first /\ reset(m).exited = m.exited
        /\ reset(m).read_ind = Start /\ reset(m).write_ind = Start
        /\ reset(m).sanity_check = n
    BY <1>1, <2>2 DEF Buffer
  <2>4. reset(m) \in Buffer
    <3>1. n \in Nat
      BY <2>1
    <3> QED
      BY <1>1, <1>2, <1>4, <2>2, <3>1 DEF Buffer
  <2> QED
    BY <1>4, <1>5, <1>7, <2>1, <2>3, <2>4 DEF Counted
<1> QED
  BY <1>6, <1>7

\* What is left when n bytes have been passed over.
Advanced(m, r, n) ==
  /\ Chain(r) /\ Len(r.buffers) <= Len(m.buffers) /\ Pos(r.write_ind) <= Pos(m.write_ind)
  /\ Pos(r.write_ind) - Pos(r.read_ind) = Pos(m.write_ind) - Pos(m.read_ind) - n
  /\ \A k \in 1..(Pos(m.write_ind) - Pos(m.read_ind) - n) :
       Cell(r, Pos(r.read_ind) + (k - 1)) = Cell(m, Pos(m.read_ind) + (n + k - 1))
  /\ n < Pos(m.write_ind) - Pos(m.read_ind) => ~r.exited /\ Keeps(m, r)

\* All there was has been read: the chain is reset.
LEMMA AdvancesToEnd ==
  ASSUME NEW m \in Buffer, Chain(m), ~m.exited, NEW n \in Nat,
         n = Pos(m.write_ind) - Pos(m.read_ind)
  PROVE  Advanced(m, advance_read_ptr(m, n), n)
<1> DEFINE w == m.write_ind
           moved == [m EXCEPT !.read_ind = w]
           r == reset(moved)
<1>1. /\ m \in Buffer /\ w \in Indices /\ Pos(w) \in Nat /\ Pos(m.read_ind) \in Nat
      /\ Len(m.buffers) \in Nat \ {0} /\ MaxChain \in Nat
  BY Pointers, BufferConsts
<1>2. advance_index(m.read_ind, n) = w
  <2>1. m.read_ind \in Indices
    BY Pointers
  <2>2. advance_index(m.read_ind, n) \in Indices /\ Pos(advance_index(m.read_ind, n)) = Pos(w)
    <3>1. Pos(m.read_ind) + n = Pos(w)
      BY <1>1
    <3> QED
      BY <2>1, <3>1, Advance
  <2> QED
    BY <1>1, <2>2, PosInjective
<1>3. advance_read_ptr(m, n) = r
  BY <1>2 DEF advance_read_ptr
<1>4. /\ moved \in Buffer /\ moved.buffers = m.buffers /\ moved.sanity_check = m.sanity_check
      /\ moved.read_ind = w /\ moved.write_ind = w /\ moved.exited = m.exited
  BY <1>1 DEF Buffer
<1>5. Counted(moved)
  BY <1>4 DEF Counted, Chain
<1>6. Pos(Start) = 0 /\ Start.first = 0
  BY Spans DEF Start, Index, Pos
<1> HIDE DEF moved
<1>7. /\ Counted(r)
      /\ Len(m.buffers) > MaxChain =>
           r.buffers = m.buffers /\ r.exited = TRUE /\ r.read_ind = w /\ r.write_ind = w
      /\ ~(Len(m.buffers) > MaxChain) =>
           /\ Len(r.buffers) = 1 /\ r.exited = m.exited
           /\ r.read_ind = Start /\ r.write_ind = Start
  BY <1>1, <1>4, <1>5, Resets
<1> HIDE DEF r
<1>8. Chain(r) /\ Len(r.buffers) <= Len(m.buffers) /\ Pos(r.write_ind) <= Pos(w)
      /\ Pos(r.write_ind) = Pos(r.read_ind)
  <2>1. CASE Len(m.buffers) > MaxChain
    BY <1>1, <1>7, <2>1 DEF Chain
  <2>2. CASE ~(Len(m.buffers) > MaxChain)
    <3>1. /\ Counted(r) /\ Len(r.buffers) = 1 /\ ~r.exited
          /\ r.read_ind = Start /\ r.write_ind = Start
      BY <1>7, <2>2
    <3>2. Chain(r)
      BY <1>6, <3>1 DEF Chain
    <3> QED
      BY <1>1, <1>6, <3>1, <3>2
  <2> QED
    BY <2>1, <2>2
<1>9. Pos(r.write_ind) \in Nat
  <2>1. r \in Buffer
    BY <1>7 DEF Counted
  <2> QED
    BY <1>8, <2>1, Pointers
<1> QED
  BY <1>1, <1>3, <1>8, <1>9 DEF Advanced

\* The blocks that have been read are taken off the front of the chain.
LEMMA DropsBlocks ==
  ASSUME NEW m \in Buffer, Chain(m), ~m.exited, NEW n \in Nat,
         n < Pos(m.write_ind) - Pos(m.read_ind)
  PROVE  LET d == advance_index(m.read_ind, n).first
             r == advance_read_ptr(m, n)
         IN  /\ d \in Nat /\ Span(d) \in Nat /\ Chain(r) /\ ~r.exited
             /\ Len(r.buffers) = Len(m.buffers) - d
             /\ Pos(r.read_ind) + Span(d) = Pos(m.read_ind) + n
             /\ Pos(r.write_ind) + Span(d) = Pos(m.write_ind)
             /\ \A k \in 1..Len(r.buffers) : r.buffers[k] = m.buffers[k + d]
<1> DEFINE bs == m.buffers
           w == m.write_ind
           i == advance_index(m.read_ind, n)
           d == i.first
           left == SubSeq(bs, d + 1, Len(bs))
           r == advance_read_ptr(m, n)
<1>1. /\ m \in Buffer /\ w \in Indices /\ m.read_ind \in Indices
      /\ Pos(w) \in Nat /\ Pos(m.read_ind) \in Nat
      /\ bs \in Seq(Block) /\ Len(bs) \in Nat \ {0} /\ m.sanity_check = Len(bs)
      /\ Distinct(bs) /\ DOMAIN bs = 1..Len(bs) /\ buffer_len \in Nat
      /\ w.first < Len(bs)
  BY Pointers, LenProperties, BufferConsts DEF Chain, Counted
<1>2. i \in Indices /\ Pos(i) = Pos(m.read_ind) + n
  BY <1>1, Advance
<1> HIDE DEF i
<1>3. /\ d \in Nat /\ i.second \in 0..buffer_len - 1 /\ Pos(i) < Pos(w)
      /\ w.first \in Nat /\ w.second \in 0..buffer_len - 1
  BY <1>1, <1>2, PosType
<1>4. d <= w.first
  <2> SUFFICES ASSUME w.first < d PROVE FALSE
    BY <1>3
  <2>1. w.first < d => Span(w.first) + buffer_len <= Span(d)
    BY <1>3, Spans
  <2>2. Span(w.first) \in Nat /\ Span(d) \in Nat
    BY <1>3, Spans
  <2>3. Pos(i) = Span(d) + i.second /\ Pos(w) = Span(w.first) + w.second
    BY DEF Pos
  <2> QED
    BY <1>1, <1>3, <2>1, <2>2, <2>3
<1>5. i # w
  BY <1>1, <1>3
<1>6. /\ r.buffers = left /\ r.sanity_check = m.sanity_check - d /\ r.exited = m.exited
      /\ r.read_ind = [i EXCEPT !.first = 0] /\ r.write_ind = [w EXCEPT !.first = w.first - d]
      /\ /\ left \in Seq(Block) /\ m.sanity_check - d \in Nat
         /\ [i EXCEPT !.first = 0] \in Indices /\ [w EXCEPT !.first = w.first - d] \in Indices
         => r \in Buffer
  <2> DEFINE moved == [m EXCEPT !.read_ind = i]
  <2>1. /\ moved \in Buffer /\ moved.buffers = bs /\ moved.sanity_check = m.sanity_check
        /\ moved.read_ind = i /\ moved.write_ind = w /\ moved.exited = m.exited
    BY <1>1, <1>2 DEF Buffer
  <2> HIDE DEF moved
  <2>2. r = [moved EXCEPT !.buffers = left, !.sanity_check = m.sanity_check - d,
                          !.read_ind = [i EXCEPT !.first = 0],
                          !.write_ind = [w EXCEPT !.first = w.first - d]]
    <3>1. r = [moved EXCEPT !.buffers = SubSeq(@, d + 1, Len(@)), !.sanity_check = @ - d,
                            !.read_ind.first = 0, !.write_ind.first = @ - d]
      BY <1>5 DEF advance_read_ptr, i, moved
    <3> QED
      BY <2>1, <3>1 DEF Buffer
  <2> HIDE DEF left, r
  <2> QED
    BY <2>1, <2>2 DEF Buffer
<1>7. /\ [i EXCEPT !.first = 0] \in Indices /\ [w EXCEPT !.first = w.first - d] \in Indices
      /\ [i EXCEPT !.first = 0].first = 0 /\ [i EXCEPT !.first = 0].second = i.second
      /\ [w EXCEPT !.first = w.first - d].first = w.first - d
      /\ [w EXCEPT !.first = w.first - d].second = w.second
  <2>1. w.first - d \in Nat
    BY <1>3, <1>4
  <2> DEFINE f == w.first - d
  <2> HIDE DEF f
  <2>2. f \in Nat
    BY <2>1 DEF f
  <2>3. [w EXCEPT !.first = f] \in Indices
    BY <1>1, <2>2 DEF Indices
  <2>4. [w EXCEPT !.first = f].first = f /\ [w EXCEPT !.first = f].second = w.second
    BY <1>1 DEF Indices
  <2>5. /\ [i EXCEPT !.first = 0] \in Indices
        /\ [i EXCEPT !.first = 0].first = 0 /\ [i EXCEPT !.first = 0].second = i.second
    BY <1>2 DEF Indices
  <2> QED
    BY <2>3, <2>4, <2>5 DEF f
<1>8. /\ left \in Seq(Block) /\ Len(left) = Len(bs) - d
      /\ \A k \in 1..Len(left) : left[k] = bs[k + d]
  <2>1. \A k \in d + 1..Len(bs) : bs[k] \in Block
    BY <1>1, <1>3, ElementOfSeq
  <2>2. d + 1 \in Int /\ Len(bs) \in Int /\ d + 1 <= Len(bs)
    BY <1>1, <1>3, <1>4
  <2>3. /\ left \in Seq(Block)
        /\ Len(left) = IF d + 1 <= Len(bs) THEN Len(bs) - (d + 1) + 1 ELSE 0
        /\ \A k \in 1..Len(bs) - (d + 1) + 1 : left[k] = bs[(d + 1) + k - 1]
    BY <2>1, <2>2, SubSeqProperties
  <2>4. Len(left) = Len(bs) - d /\ Len(bs) - (d + 1) + 1 = Len(bs) - d
    BY <1>1, <1>3, <2>2, <2>3
  <2>5. \A k \in 1..Len(left) : left[k] = bs[k + d]
    <3> TAKE k \in 1..Len(left)
    <3>1. left[k] = bs[(d + 1) + k - 1]
      BY <2>3, <2>4
    <3>2. (d + 1) + k - 1 = k + d
      BY <1>3
    <3> QED
      BY <3>1, <3>2
  <2> QED
    BY <2>3, <2>4, <2>5
<1> HIDE DEF left, r
<1>9. Distinct(left)
  <2>1. DOMAIN left = 1..Len(left) /\ Len(left) \in Nat
    BY <1>8, LenProperties
  <2> SUFFICES ASSUME NEW j \in 1..Len(left), NEW k \in 1..Len(left), left[j].id = left[k].id
               PROVE  j = k
    BY <2>1 DEF Distinct
  <2>2. j + d \in 1..Len(bs) /\ k + d \in 1..Len(bs)
    <3>1. Len(left) = Len(bs) - d /\ Len(bs) \in Nat /\ d \in Nat
      BY <1>1, <1>3, <1>8
    <3> QED
      BY <2>1, <3>1
  <2>3. bs[j + d].id = bs[k + d].id
    BY <1>8
  <2>4. j + d = k + d
    BY <1>1, <2>2, <2>3 DEF Distinct
  <2> QED
    BY <1>3, <2>4
<1>10. m.sanity_check - d = Len(left) /\ Len(left) \in Nat
  BY <1>1, <1>3, <1>4, <1>8
<1>11. Counted(r)
  BY <1>6, <1>7, <1>8, <1>9, <1>10 DEF Counted
<1>12. Span(d) \in Nat /\ Span(w.first) \in Nat /\ Span(0) = 0
  BY <1>3, Spans
<1>13. Pos(r.read_ind) + Span(d) = Pos(i)
  <2>1. Pos(r.read_ind) = Span(0) + i.second
    BY <1>6, <1>7 DEF Pos
  <2>2. Pos(i) = Span(d) + i.second
    BY DEF Pos
  <2> QED
    BY <1>3, <1>12, <2>1, <2>2
<1>14. Pos(r.write_ind) + Span(d) = Pos(w)
  <2>1. Pos(r.write_ind) = Span(w.first - d) + w.second
    BY <1>6, <1>7 DEF Pos
  <2>2. Span(w.first) = Span(w.first - d) + Span(d) /\ Span(w.first - d) \in Nat
    <3>1. w.first - d \in Nat /\ (w.first - d) + d = w.first
      BY <1>3, <1>4
    <3>2. /\ Span((w.first - d) + d) = Span(w.first - d) + Span(d)
          /\ Span(w.first - d) \in Nat
      BY <1>3, <3>1, Spans
    <3> QED
      BY <3>1, <3>2
  <2>3. Pos(w) = Span(w.first) + w.second
    BY DEF Pos
  <2> QED
    BY <1>1, <1>3, <1>12, <2>1, <2>2, <2>3
<1>15. Pos(r.read_ind) \in Nat /\ Pos(r.write_ind) \in Nat
  BY <1>6, <1>7, PosType
<1>16. Chain(r)
  <2>1. r.write_ind.first < Len(r.buffers) /\ r.read_ind.first = 0
    BY <1>1, <1>3, <1>6, <1>7, <1>8
  <2>2. Pos(r.read_ind) <= Pos(r.write_ind)
    BY <1>1, <1>2, <1>12, <1>13, <1>14, <1>15
  <2> QED
    BY <1>6, <1>11, <2>1, <2>2 DEF Chain
<1> QED
  BY <1>2, <1>3, <1>6, <1>8, <1>12, <1>13, <1>14, <1>16 DEF i, r

\* What is in the blocks that are left is where it was, less what was taken off.
LEMMA Shifted ==
  ASSUME NEW m \in Buffer, NEW r \in Buffer, NEW d \in Nat, Len(r.buffers) \in Nat,
         \A k \in 1..Len(r.buffers) : r.buffers[k] = m.buffers[k + d]
  PROVE  \A a \in Nat : a < Span(Len(r.buffers)) =>
           /\ Cell(r, a) = Cell(m, a + Span(d))
           /\ Slot(r, a) = Slot(m, a + Span(d))
<1> TAKE a \in Nat
<1> HAVE a < Span(Len(r.buffers))
<1> DEFINE b == BlockOf(a)
           c == BlockOf(a + Span(d))
           s == Offset(a)
           t == Offset(a + Span(d))
<1>1. b \in Nat
  BY Address
<1>2. b < Len(r.buffers)
  BY BelowBlock
<1>3. c = b + d /\ t = s
  BY Shift
<1> HIDE DEF b, c, s, t
<1>4. b + 1 \in 1..Len(r.buffers) /\ b + 1 + d = c + 1
  BY <1>1, <1>2, <1>3
<1>5. r.buffers[b + 1] = m.buffers[c + 1]
  BY <1>4
<1>6. r.buffers[b + 1].bytes[s + 1] = m.buffers[c + 1].bytes[t + 1]
  BY <1>3, <1>5
<1>7. [id |-> r.buffers[b + 1].id, second |-> s] = [id |-> m.buffers[c + 1].id, second |-> t]
  BY <1>3, <1>5
<1> QED
  BY <1>6, <1>7 DEF Cell, Slot, b, c, s, t

\* Taking blocks off the front leaves the rest as it was.
LEMMA TakenOff ==
  ASSUME NEW m \in Buffer, Chain(m), NEW r \in Buffer, Chain(r), ~r.exited, NEW d \in Nat, NEW n \in Nat,
         n < Pos(m.write_ind) - Pos(m.read_ind),
         Len(r.buffers) = Len(m.buffers) - d,
         Pos(r.read_ind) + Span(d) = Pos(m.read_ind) + n,
         Pos(r.write_ind) + Span(d) = Pos(m.write_ind),
         \A k \in 1..Len(r.buffers) : r.buffers[k] = m.buffers[k + d]
  PROVE  Advanced(m, r, n)
<1>1. \A a \in Nat : a < Span(Len(r.buffers)) =>
        /\ Cell(r, a) = Cell(m, a + Span(d))
        /\ Slot(r, a) = Slot(m, a + Span(d))
  <2>1. Len(r.buffers) \in Nat
    BY Pointers
  <2> QED
    BY <2>1, Shifted
<1> DEFINE D == Span(d)
           pr == Pos(r.read_ind)
           pw == Pos(r.write_ind)
           mr == Pos(m.read_ind)
           mw == Pos(m.write_ind)
           end == Span(Len(r.buffers))
           mend == Span(Len(m.buffers))
<1>2. /\ pr \in Nat /\ pw \in Nat /\ mr \in Nat /\ mw \in Nat /\ D \in Nat
      /\ pw < end /\ end \in Nat /\ mend \in Nat
      /\ pr + D = mr + n /\ pw + D = mw
      /\ Len(r.buffers) \in Nat /\ Len(m.buffers) \in Nat
  <2>1. D \in Nat
    BY Spans
  <2>2. /\ pr \in Nat /\ pw \in Nat /\ pw < end /\ end \in Nat /\ Len(r.buffers) \in Nat
    BY Pointers
  <2>3. /\ mr \in Nat /\ mw \in Nat /\ mend \in Nat /\ Len(m.buffers) \in Nat
    BY Pointers
  <2> QED
    BY <2>1, <2>2, <2>3
<1>3. end + D = mend
  <2>1. Len(m.buffers) = Len(r.buffers) + d
    BY <1>2
  <2>2. Span(Len(r.buffers) + d) = Span(Len(r.buffers)) + Span(d)
    BY <1>2, Spans
  <2> QED
    BY <2>1, <2>2
<1>4. \A a \in Nat : a < end => Cell(r, a) = Cell(m, a + D) /\ Slot(r, a) = Slot(m, a + D)
  BY <1>1
<1> HIDE DEF D, pr, pw, mr, mw, end, mend
<1>5. ASSUME NEW k \in 1..(mw - mr - n)
      PROVE  Cell(r, pr + (k - 1)) = Cell(m, mr + (n + k - 1))
  <2>1. k - 1 \in Nat /\ k - 1 < pw - pr
    BY <1>2
  <2>2. pr + (k - 1) \in Nat /\ pr + (k - 1) < end
    BY <1>2, <2>1
  <2>3. pr + (k - 1) + D = mr + (n + k - 1)
    BY <1>2
  <2> QED
    BY <1>4, <2>2, <2>3
<1>6. ASSUME NEW k \in Nat, mw + k < mend
      PROVE  pw + k < end /\ Slot(r, pw + k) = Slot(m, mw + k)
  <2>1. pw + k \in Nat /\ pw + k < end /\ pw + k + D = mw + k
    BY <1>2, <1>3, <1>6
  <2> QED
    BY <1>4, <2>1
<1>7. pw <= mw /\ pw - pr = mw - mr - n /\ Len(r.buffers) <= Len(m.buffers)
  BY <1>2
<1>8. Keeps(m, r)
  BY <1>6, <1>7 DEF Keeps, pw, mw, end, mend
<1> QED
  BY <1>5, <1>7, <1>8 DEF Advanced, pr, pw, mr, mw

\* Some is left.
LEMMA AdvancesWithin ==
  ASSUME NEW m \in Buffer, Chain(m), ~m.exited, NEW n \in Nat,
         n < Pos(m.write_ind) - Pos(m.read_ind)
  PROVE  Advanced(m, advance_read_ptr(m, n), n)
<1> DEFINE d == advance_index(m.read_ind, n).first
           r == advance_read_ptr(m, n)
<1>1. /\ d \in Nat /\ Chain(r) /\ ~r.exited
      /\ Len(r.buffers) = Len(m.buffers) - d
      /\ Pos(r.read_ind) + Span(d) = Pos(m.read_ind) + n
      /\ Pos(r.write_ind) + Span(d) = Pos(m.write_ind)
      /\ \A k \in 1..Len(r.buffers) : r.buffers[k] = m.buffers[k + d]
  BY DropsBlocks
<1> HIDE DEF d, r
<1>2. Advanced(m, r, n)
  <2>1. r \in Buffer
    BY <1>1 DEF Chain, Counted
  <2> QED
    BY <1>1, <2>1, TakenOff
<1> QED
  BY <1>2 DEF r

\* advance_read_ptr passes over the bytes it is told to and no others.
LEMMA Advances ==
  ASSUME NEW m \in Buffer, Chain(m), ~m.exited, NEW n \in Nat, n <= bytes_to_read(m)
  PROVE  Advanced(m, advance_read_ptr(m, n), n)
<1>1. n < Pos(m.write_ind) - Pos(m.read_ind) \/ n = Pos(m.write_ind) - Pos(m.read_ind)
  BY Pointers
<1> QED
  BY <1>1, AdvancesToEnd, AdvancesWithin

\* Nothing has been passed over yet.
LEMMA AdvancedNone ==
  ASSUME NEW m \in Buffer, Chain(m), ~m.exited
  PROVE  Advanced(m, m, 0)
<1>1. /\ Pos(m.write_ind) \in Nat /\ Pos(m.read_ind) \in Nat /\ Len(m.buffers) \in Nat
  BY Pointers
<1>2. Keeps(m, m)
  BY <1>1 DEF Keeps
<1>3. \A k \in 1..(Pos(m.write_ind) - Pos(m.read_ind) - 0) :
        Cell(m, Pos(m.read_ind) + (k - 1)) = Cell(m, Pos(m.read_ind) + (0 + k - 1))
  <2> TAKE k \in 1..(Pos(m.write_ind) - Pos(m.read_ind) - 0)
  <2>1. k - 1 = 0 + k - 1
    BY <1>1
  <2> QED
    BY <2>1
<1> QED
  BY <1>1, <1>2, <1>3 DEF Advanced

\* Passing over t bytes and then n is passing over t + n.
LEMMA AdvancedTwice ==
  ASSUME NEW m \in Buffer, NEW l \in Buffer, NEW r \in Buffer,
         Chain(m), NEW t \in Nat, NEW n \in Nat, Advanced(m, l, t), Advanced(l, r, n),
         t + n <= Pos(m.write_ind) - Pos(m.read_ind)
  PROVE  Advanced(m, r, t + n)
<1> DEFINE dm == Pos(m.write_ind) - Pos(m.read_ind)
           dl == Pos(l.write_ind) - Pos(l.read_ind)
           dr == Pos(r.write_ind) - Pos(r.read_ind)
<1>1. /\ Pos(m.write_ind) \in Nat /\ Pos(m.read_ind) \in Nat /\ Len(m.buffers) \in Nat
  BY Pointers
<1>2. /\ Chain(l) /\ Pos(l.write_ind) \in Nat /\ Pos(l.read_ind) \in Nat /\ Len(l.buffers) \in Nat
  BY Pointers DEF Advanced
<1>3. /\ Chain(r) /\ Pos(r.write_ind) \in Nat /\ Pos(r.read_ind) \in Nat /\ Len(r.buffers) \in Nat
  BY Pointers DEF Advanced
<1>4. dm \in Int /\ dl = dm - t /\ dr = dl - n /\ dr = dm - (t + n) /\ t + n <= dm
  <2>1. dl = dm - t
    BY DEF Advanced
  <2>2. dr = dl - n
    BY DEF Advanced
  <2>3. dm \in Int /\ t + n <= dm
    BY <1>1
  <2> HIDE DEF dm, dl, dr
  <2> QED
    BY <2>1, <2>2, <2>3
<1>5. Len(r.buffers) <= Len(m.buffers) /\ Pos(r.write_ind) <= Pos(m.write_ind)
  <2>1. Len(r.buffers) <= Len(l.buffers) /\ Pos(r.write_ind) <= Pos(l.write_ind)
    BY DEF Advanced
  <2>2. Len(l.buffers) <= Len(m.buffers) /\ Pos(l.write_ind) <= Pos(m.write_ind)
    BY DEF Advanced
  <2>3. \A x, y, z \in Nat : x <= y /\ y <= z => x <= z
    OBVIOUS
  <2>4. Len(r.buffers) <= Len(m.buffers)
    BY <1>1, <1>2, <1>3, <2>1, <2>2, <2>3
  <2> QED
    BY <1>1, <1>2, <1>3, <2>1, <2>2, <2>3, <2>4
<1>6. /\ \A k \in 1..(dm - t) :
           Cell(l, Pos(l.read_ind) + (k - 1)) = Cell(m, Pos(m.read_ind) + (t + k - 1))
      /\ \A k \in 1..(dl - n) :
           Cell(r, Pos(r.read_ind) + (k - 1)) = Cell(l, Pos(l.read_ind) + (n + k - 1))
  BY DEF Advanced
<1>7. /\ t < dm => ~l.exited /\ Keeps(m, l)
      /\ n < dl => ~r.exited /\ Keeps(l, r)
  BY DEF Advanced
<1> HIDE DEF dm, dl, dr
<1>8. ASSUME NEW k \in 1..(dm - (t + n))
      PROVE  Cell(r, Pos(r.read_ind) + (k - 1)) = Cell(m, Pos(m.read_ind) + ((t + n) + k - 1))
  <2>1. k \in 1..(dl - n) /\ n + k \in 1..(dm - t)
    BY <1>4
  <2>2. (n + k) - 1 = n + k - 1 /\ t + (n + k) - 1 = (t + n) + k - 1
    BY <2>1
  <2>3. Cell(r, Pos(r.read_ind) + (k - 1)) = Cell(l, Pos(l.read_ind) + (n + k - 1))
    BY <1>6, <2>1
  <2>4. Cell(l, Pos(l.read_ind) + ((n + k) - 1)) = Cell(m, Pos(m.read_ind) + (t + (n + k) - 1))
    BY <1>6, <2>1
  <2> QED
    BY <2>2, <2>3, <2>4
<1>9. ASSUME t + n < dm PROVE ~r.exited /\ Keeps(m, r)
  <2>1. ~r.exited /\ Keeps(m, l) /\ Keeps(l, r)
    BY <1>4, <1>7, <1>9
  <2> QED
    BY <1>5, <2>1 DEF Keeps
<1> QED
  BY <1>3, <1>4, <1>5, <1>8, <1>9 DEF Advanced, dm, dl, dr

\* A set of naturals has a least one.
LEMMA LeastOf ==
  ASSUME NEW S \in SUBSET Nat, S # {}
  PROVE  \E m \in S : \A k \in S : m <= k
<1> DEFINE R == OpToRel(<, Nat)
<1>1. IsWellFoundedOn(R, Nat)
  BY NatLessThanWellFounded
<1>2. \A x, y \in Nat : x < y => <<x, y>> \in R
  BY DEF OpToRel
<1> HIDE DEF R
<1>3. PICK m \in S : \A k \in S : ~(<<k, m>> \in R)
  BY <1>1, WFMin
<1>4. ASSUME NEW k \in S PROVE m <= k
  <2>1. ~(k < m)
    BY <1>2, <1>3
  <2> QED
    BY <2>1
<1> QED
  BY <1>4

\* What holds of 0, and of k when it holds of k - 1, holds up to n.
LEMMA UpTo ==
  ASSUME NEW n \in Nat, NEW T, 0 \in T, \A k \in 1..n : k - 1 \in T => k \in T
  PROVE  \A k \in 0..n : k \in T
<1> DEFINE S == {k \in 0..n : k \notin T}
<1> SUFFICES ASSUME S # {} PROVE FALSE
  OBVIOUS
<1>1. PICK m \in S : \A k \in S : m <= k
  <2>1. S \in SUBSET Nat
    OBVIOUS
  <2> QED
    BY <2>1, LeastOf
<1>2. m \in 1..n /\ m \notin T
  BY <1>1
<1>3. m - 1 \in 0..n /\ ~(m <= m - 1)
  BY <1>2
<1> QED
  BY <1>1, <1>2, <1>3

\* A function can be applied n times over.
Iterated(f, X, a, F, n) ==
  f \in [0..n -> X] /\ f[0] = a /\ \A k \in 1..n : f[k] = F[f[k - 1]]

LEMMA Iterates ==
  ASSUME NEW X, NEW a \in X, NEW F \in [X -> X], NEW n \in Nat
  PROVE  \E f : Iterated(f, X, a, F, n)
<1> DEFINE T == {i \in 0..n : \E f \in [0..i -> X] : f[0] = a /\ \A k \in 1..i : f[k] = F[f[k - 1]]}
<1>1. 0 \in T
  <2> DEFINE f == [k \in 0..0 |-> a]
  <2>1. f \in [0..0 -> X] /\ f[0] = a /\ \A k \in 1..0 : f[k] = F[f[k - 1]]
    OBVIOUS
  <2>2. 0 \in 0..n
    OBVIOUS
  <2> HIDE DEF f
  <2> QED
    BY <2>1, <2>2
<1>2. ASSUME NEW i \in 1..n, i - 1 \in T PROVE i \in T
  <2>1. PICK f \in [0..i - 1 -> X] : f[0] = a /\ \A k \in 1..i - 1 : f[k] = F[f[k - 1]]
    BY <1>2
  <2> DEFINE g == [k \in 0..i |-> IF k = i THEN F[f[i - 1]] ELSE f[k]]
  <2>2. i \in Nat /\ i # 0 /\ i - 1 \in 0..i - 1 /\ \A k \in 0..i : k # i => k \in 0..i - 1
    OBVIOUS
  <2>3. g \in [0..i -> X]
    BY <2>1, <2>2
  <2>4. g[0] = a
    BY <2>1, <2>2
  <2>5. \A k \in 1..i : g[k] = F[g[k - 1]]
    <3> TAKE k \in 1..i
    <3>1. CASE k = i
      <4>1. g[i] = F[f[i - 1]] /\ g[i - 1] = f[i - 1]
        BY <2>2
      <4> QED
        BY <3>1, <4>1
    <3>2. CASE k # i
      <4>1. k \in 1..i - 1 /\ k - 1 \in 0..i /\ k - 1 # i
        BY <3>2
      <4>2. g[k] = f[k] /\ g[k - 1] = f[k - 1]
        BY <3>2, <4>1
      <4> QED
        BY <2>1, <4>1, <4>2
    <3> QED
      BY <3>1, <3>2
  <2>6. i \in 0..n
    OBVIOUS
  <2> HIDE DEF g
  <2> QED
    BY <2>3, <2>4, <2>5, <2>6
<1> HIDE DEF T
<1>3. n \in T
  BY <1>1, <1>2, UpTo
<1> QED
  BY <1>3 DEF T, Iterated

Data == Byte \union {Junk}

\* What the calls of read have taken of size bytes, and where they are.
ReadStates(m, size) ==
  {r \in [mb : Buffer, out : Seq(Data), left : 0..size] :
     /\ Advanced(m, r.mb, size - r.left)
     /\ Len(r.out) = size - r.left
     /\ \A k \in 1..(size - r.left) : r.out[k] = Cell(m, Pos(m.read_ind) + (k - 1))}

\* One call takes what the block has, or what is left if that is less.
LEMMA ReadBlockStep ==
  ASSUME NEW m \in Buffer, Chain(m), ~m.exited, NEW size \in Nat, size <= bytes_to_read(m),
         NEW r \in ReadStates(m, size)
  PROVE  /\ ReadBlock(r) \in ReadStates(m, size)
         /\ r.left > 0 => ReadBlock(r).left < r.left
         /\ r.left = 0 => ReadBlock(r) = r
<1> DEFINE l == r.mb
           left == r.left
           t == size - left
           s == l.read_ind.second
           here == buffer_len - s
           n == IF left <= here THEN left ELSE here
           total == Pos(m.write_ind) - Pos(m.read_ind)
<1>1. /\ r \in [mb : Buffer, out : Seq(Data), left : 0..size]
      /\ l \in Buffer /\ left \in 0..size /\ r.out \in Seq(Data) /\ Len(r.out) = t
      /\ t \in Nat /\ t + left = size
      /\ \A k \in 1..t : r.out[k] = Cell(m, Pos(m.read_ind) + (k - 1))
  BY DEF ReadStates
<1>2. Advanced(m, l, t)
  BY DEF ReadStates
<1>3. Chain(l) /\ Pos(l.write_ind) - Pos(l.read_ind) = total - t
  BY <1>2 DEF Advanced
<1>4. /\ total \in Nat /\ size <= total /\ bytes_to_read(l) = total - t
      /\ Pos(m.read_ind) \in Nat /\ Pos(l.read_ind) \in Nat /\ Pos(l.write_ind) \in Nat
      /\ l.read_ind \in Indices
  <2>1. bytes_to_read(m) = total /\ Pos(m.write_ind) \in Nat /\ Pos(m.read_ind) \in Nat
        /\ Pos(m.read_ind) <= Pos(m.write_ind)
    BY Pointers
  <2>2. /\ bytes_to_read(l) = Pos(l.write_ind) - Pos(l.read_ind) /\ l.read_ind \in Indices
        /\ Pos(l.read_ind) \in Nat /\ Pos(l.write_ind) \in Nat
    BY <1>1, <1>3, Pointers
  <2> QED
    BY <1>3, <2>1, <2>2
<1>5. CASE left = 0
  BY <1>5 DEF ReadBlock
<1>6. CASE left > 0
  <2>1. ~(bytes_to_read(l) < left) /\ t < total /\ left \in Nat
    <3> HIDE DEF l, left, t, total
    <3> QED
      BY <1>1, <1>4, <1>6
  <2>2. ~l.exited
    BY <1>2, <2>1 DEF Advanced
  <2>3. s \in Nat /\ here \in Nat \ {0}
    <3>1. s \in 0..buffer_len - 1 /\ buffer_len \in Nat
      BY <1>4, PosType, BufferConsts
    <3> HIDE DEF s
    <3> QED
      BY <3>1
  <2>4. n \in 1..left /\ s + n <= buffer_len
    <3>1. buffer_len \in Nat
      BY BufferConsts
    <3> HIDE DEF s, left
    <3> QED
      BY <1>6, <2>1, <2>3, <3>1
  <2> DEFINE a == advance_read_ptr(l, n)
             bytes == BytesAt(l, l.read_ind, n)
  <2>5. ReadBlock(r) = [mb |-> a, out |-> r.out \o bytes, left |-> left - n]
    <3>1. ~(left = 0 \/ bytes_to_read(r.mb) < left)
      BY <1>6, <2>1
    <3> QED
      BY <3>1, Zenon DEF ReadBlock
  <2> HIDE DEF s, n
  <2>6. Advanced(l, a, n)
    <3>1. n \in Nat /\ n <= bytes_to_read(l)
      <4> HIDE DEF l, left, t, total
      <4> QED
        BY <1>1, <1>4, <2>1, <2>4
    <3> QED
      BY <1>1, <1>3, <2>2, <3>1, Advances
  <2>7. a \in Buffer
    BY <2>6 DEF Advanced, Chain, Counted
  <2>8. Advanced(m, a, t + n)
    <3>1. n \in Nat /\ t + n <= total
      <4> HIDE DEF left, t, total
      <4> QED
        BY <1>1, <1>4, <2>4
    <3> QED
      BY <1>1, <1>2, <2>6, <2>7, <3>1, AdvancedTwice
  <2>9. /\ bytes \in Seq(Data) /\ Len(bytes) = n
        /\ \A k \in 1..n : bytes[k] = Cell(l, Pos(l.read_ind) + (k - 1))
    <3>1. n \in Nat /\ Pos(l.read_ind) + n <= Pos(l.write_ind) /\ l.read_ind.second + n <= buffer_len
      <4>1. l.read_ind.second + n <= buffer_len
        BY <2>4 DEF s
      <4> HIDE DEF left, t, total, l
      <4> QED
        BY <1>1, <1>3, <1>4, <2>1, <2>4, <4>1
    <3> QED
      BY <1>1, <1>3, <1>4, <3>1, BlockBytes DEF Data
  <2>10. \A k \in 1..n : bytes[k] = Cell(m, Pos(m.read_ind) + ((t + k) - 1))
    <3> TAKE k \in 1..n
    <3>1. k \in 1..(total - t) /\ t + k - 1 = (t + k) - 1
      <4> HIDE DEF left, t, total
      <4> QED
        BY <1>1, <1>4, <2>4
    <3>2. Cell(l, Pos(l.read_ind) + (k - 1)) = Cell(m, Pos(m.read_ind) + (t + k - 1))
      BY <1>2, <3>1 DEF Advanced
    <3> QED
      BY <2>9, <3>1, <3>2
  <2> HIDE DEF l, left, t, total, a, bytes
  <2>11. /\ r.out \o bytes \in Seq(Data) /\ Len(r.out \o bytes) = t + n
         /\ \A k \in 1..t + n : (r.out \o bytes)[k] = Cell(m, Pos(m.read_ind) + (k - 1))
    <3>1. /\ r.out \o bytes \in Seq(Data) /\ Len(r.out \o bytes) = Len(r.out) + Len(bytes)
          /\ \A k \in 1..Len(r.out) + Len(bytes) :
               (r.out \o bytes)[k] = IF k <= Len(r.out) THEN r.out[k] ELSE bytes[k - Len(r.out)]
      BY <1>1, <2>9, ConcatProperties
    <3>2. ASSUME NEW k \in 1..t + n
          PROVE  (r.out \o bytes)[k] = Cell(m, Pos(m.read_ind) + (k - 1))
      <4>1. CASE k <= t
        <5>1. k \in 1..t
          BY <4>1
        <5> QED
          BY <1>1, <2>9, <3>1, <4>1, <5>1
      <4>2. CASE k > t
        <5>1. k - t \in 1..n /\ t + (k - t) = k /\ ~(k <= t)
          BY <1>1, <2>4, <4>2
        <5>2. (r.out \o bytes)[k] = bytes[k - t]
          BY <1>1, <2>9, <3>1, <5>1
        <5> QED
          BY <2>10, <5>1, <5>2
      <4>3. k <= t \/ k > t
        BY <1>1, <2>4
      <4> QED
        BY <4>1, <4>2, <4>3
    <3> QED
      BY <1>1, <2>9, <3>1, <3>2
  <2> DEFINE q == ReadBlock(r)
  <2>12. q.mb = a /\ q.out = r.out \o bytes /\ q.left = left - n
    BY <2>5
  <2>13. left - n \in 0..size /\ size - (left - n) = t + n /\ left - n < left
    BY <1>1, <2>4
  <2>14. q \in [mb : Buffer, out : Seq(Data), left : 0..size]
    BY <2>5, <2>7, <2>11, <2>13
  <2> HIDE DEF q
  <2>15. q \in ReadStates(m, size)
    BY <2>8, <2>11, <2>12, <2>13, <2>14 DEF ReadStates
  <2> QED
    BY <1>6, <2>12, <2>13, <2>15 DEF q, left
<1>7. left = 0 \/ left > 0
  BY <1>1
<1> QED
  BY <1>5, <1>6, <1>7

\* The calls of read are a function: there is a sequence of them.
ReadRun(m, size, f) ==
  f = [k \in 0..size |-> IF k = 0 THEN [mb |-> m, out |-> << >>, left |-> size]
                         ELSE ReadBlock(f[k - 1])]

LEMMA ReadCalls ==
  ASSUME NEW m, NEW size, NEW g, ReadRun(m, size, g)
  PROVE  \E f : ReadRun(m, size, f) /\ read(m, size) = f[size]
BY Zenon DEF read, ReadRun

\* read passes over the bytes it is asked for and returns them.
LEMMA Reads ==
  ASSUME NEW m \in Buffer, Chain(m), ~m.exited, NEW size \in Nat, size <= bytes_to_read(m)
  PROVE  /\ Advanced(m, read(m, size).mb, size)
         /\ read(m, size).out \in Seq(Data) /\ Len(read(m, size).out) = size
         /\ \A k \in 1..size : read(m, size).out[k] = Cell(m, Pos(m.read_ind) + (k - 1))
<1> DEFINE X == ReadStates(m, size)
           a == [mb |-> m, out |-> << >>, left |-> size]
           F == [r \in X |-> ReadBlock(r)]
<1>1. a \in X
  <2>1. Advanced(m, m, 0) /\ size - size = 0
    BY AdvancedNone
  <2>2. << >> \in Seq(Data) /\ Len(<< >>) = 0
    BY EmptySeq
  <2>3. a \in [mb : Buffer, out : Seq(Data), left : 0..size]
    BY <2>2
  <2>4. a.mb = m /\ a.out = << >> /\ a.left = size
    OBVIOUS
  <2> HIDE DEF a
  <2>5. \A k \in 1..(size - a.left) : a.out[k] = Cell(m, Pos(m.read_ind) + (k - 1))
    BY <2>1, <2>4
  <2> QED
    BY <2>1, <2>2, <2>3, <2>4, <2>5 DEF ReadStates
<1>2. \A r \in X : ReadBlock(r) \in X
  BY ReadBlockStep
<1>3. F \in [X -> X] /\ \A r \in X : F[r] = ReadBlock(r)
  BY <1>2
<1> HIDE DEF X, F, a
<1>4. PICK g : Iterated(g, X, a, F, size)
  <2>1. F \in [X -> X]
    BY <1>3
  <2> QED
    BY <1>1, <2>1, Iterates
<1>5. g = [k \in 0..size |-> IF k = 0 THEN a ELSE ReadBlock(g[k - 1])]
  <2>0. g \in [0..size -> X] /\ g[0] = a /\ \A k \in 1..size : g[k] = F[g[k - 1]]
    BY <1>4 DEF Iterated
  <2>1. \A k \in 1..size : k - 1 \in 0..size /\ g[k - 1] \in X
    BY <2>0
  <2>2. \A k \in 1..size : g[k] = ReadBlock(g[k - 1])
    BY <1>3, <2>0, <2>1
  <2>3. \A k \in 0..size : g[k] = IF k = 0 THEN a ELSE ReadBlock(g[k - 1])
    BY <2>0, <2>2
  <2> QED
    BY <2>0, <2>3
<1>6. PICK f : ReadRun(m, size, f) /\ read(m, size) = f[size]
  <2>1. ReadRun(m, size, g)
    BY <1>5, Zenon DEF ReadRun, a
  <2> QED
    BY <2>1, ReadCalls
<1>7. f[0] = a /\ \A k \in 1..size : f[k] = ReadBlock(f[k - 1])
  <2>1. 0 \in 0..size /\ \A k \in 1..size : k \in 0..size /\ k # 0
    OBVIOUS
  <2>2. f = [k \in 0..size |-> IF k = 0 THEN a ELSE ReadBlock(f[k - 1])]
    BY <1>6, Zenon DEF ReadRun, a
  <2> QED
    BY <2>1, <2>2
<1> DEFINE T == {k \in 0..size : f[k] \in X /\ f[k].left <= size - k}
<1>8. size \in T
  <2>1. 0 \in T
    BY <1>1, <1>7 DEF a
  <2>2. ASSUME NEW k \in 1..size, k - 1 \in T PROVE k \in T
    <3>1. f[k - 1] \in X /\ f[k - 1].left <= size - (k - 1) /\ f[k] = ReadBlock(f[k - 1])
      BY <1>7, <2>2
    <3>2. /\ f[k] \in X
          /\ f[k - 1].left > 0 => f[k].left < f[k - 1].left
          /\ f[k - 1].left = 0 => f[k] = f[k - 1]
      BY <3>1, ReadBlockStep DEF X
    <3>3. f[k - 1].left \in 0..size /\ f[k].left \in 0..size
      BY <3>1, <3>2 DEF X, ReadStates
    <3>4. f[k].left <= size - k
      BY <3>1, <3>2, <3>3
    <3> QED
      BY <3>2, <3>4
  <2> HIDE DEF T
  <2> QED
    BY <2>1, <2>2, UpTo
<1> DEFINE r == read(m, size)
<1>9. r \in X /\ r.left <= 0
  BY <1>6, <1>8
<1> HIDE DEF r
<1>10. r.left = 0
  BY <1>9 DEF X, ReadStates
<1>11. size - r.left = size
  BY <1>10
<1> QED
  BY <1>9, <1>11 DEF r, X, ReadStates

\* What the calls of peek have copied of size bytes from ind, and where they are.
PeekStates(m, ind, size) ==
  {r \in [index : Indices, out : Seq(Data), left : 0..size] :
     /\ Pos(r.index) = Pos(ind) + (size - r.left)
     /\ Len(r.out) = size - r.left
     /\ \A k \in 1..(size - r.left) : r.out[k] = Cell(m, Pos(ind) + (k - 1))}

\* One call copies what the block has, or what is left if that is less.
LEMMA PeekBlockStep ==
  ASSUME NEW m \in Buffer, Chain(m), NEW ind \in Indices, NEW size \in Nat,
         Pos(ind) + size <= Pos(m.write_ind),
         NEW r \in PeekStates(m, ind, size)
  PROVE  /\ PeekBlock(m, r) \in PeekStates(m, ind, size)
         /\ r.left > 0 => PeekBlock(m, r).left < r.left
         /\ r.left = 0 => PeekBlock(m, r) = r
<1> DEFINE i == r.index
           left == r.left
           t == size - left
           s == i.second
           here == buffer_len - s
           n == IF left <= here THEN left ELSE here
           p == Pos(ind)
           w == Pos(m.write_ind)
<1>1. /\ r \in [index : Indices, out : Seq(Data), left : 0..size]
      /\ i \in Indices /\ left \in 0..size /\ r.out \in Seq(Data) /\ Len(r.out) = t
      /\ t \in Nat /\ t + left = size
      /\ \A k \in 1..t : r.out[k] = Cell(m, Pos(ind) + (k - 1))
  BY DEF PeekStates
<1>2. Pos(i) = p + t
  BY DEF PeekStates
<1>3. /\ p \in Nat /\ w \in Nat /\ p + size <= w
      /\ m.write_ind \in Indices
      /\ s \in 0..buffer_len - 1 /\ buffer_len \in Nat
  BY <1>1, PosType, Pointers, BufferConsts
<1>4. bytes_to_read_from_index(m, i) = w - Pos(i)
  BY <1>1, <1>3, Distance
<1>5. CASE left = 0
  BY <1>5 DEF PeekBlock
<1>6. CASE left > 0
  <2>1. ~(bytes_to_read_from_index(m, i) < left) /\ left \in Nat /\ Pos(i) + left <= w
    <3> HIDE DEF i, left, t, p, w
    <3> QED
      BY <1>1, <1>2, <1>3, <1>4, <1>6
  <2>2. n \in 1..left /\ s + n <= buffer_len
    <3> HIDE DEF s, left
    <3> QED
      BY <1>3, <1>6, <2>1
  <2> DEFINE a == advance_index(i, n)
             bytes == BytesAt(m, i, n)
  <2>3. PeekBlock(m, r) = [index |-> a, out |-> r.out \o bytes, left |-> left - n]
    <3>1. ~(left = 0 \/ bytes_to_read_from_index(m, r.index) < left)
      BY <1>6, <2>1
    <3> QED
      BY <3>1, Zenon DEF PeekBlock
  <2> HIDE DEF s, n
  <2>4. n \in Nat /\ Pos(i) + n <= w
    <3> HIDE DEF i, left, t, p, w
    <3> QED
      BY <1>1, <1>2, <1>3, <2>1, <2>2
  <2>5. a \in Indices /\ Pos(a) = Pos(i) + n
    BY <1>1, <2>4, Advance
  <2>6. /\ bytes \in Seq(Data) /\ Len(bytes) = n
        /\ \A k \in 1..n : bytes[k] = Cell(m, Pos(i) + (k - 1))
    <3>1. i.second + n <= buffer_len
      BY <2>2 DEF s
    <3> QED
      BY <1>1, <2>4, <3>1, BlockBytes DEF Data
  <2> HIDE DEF i, left, t, p, w, a, bytes
  <2>7. \A k \in 1..n : bytes[k] = Cell(m, p + ((t + k) - 1))
    <3> TAKE k \in 1..n
    <3>1. Pos(i) + (k - 1) = p + ((t + k) - 1)
      BY <1>1, <1>2, <1>3, <2>2
    <3> QED
      BY <2>6, <3>1
  <2>8. /\ r.out \o bytes \in Seq(Data) /\ Len(r.out \o bytes) = t + n
        /\ \A k \in 1..t + n : (r.out \o bytes)[k] = Cell(m, p + (k - 1))
    <3>1. /\ r.out \o bytes \in Seq(Data) /\ Len(r.out \o bytes) = Len(r.out) + Len(bytes)
          /\ \A k \in 1..Len(r.out) + Len(bytes) :
               (r.out \o bytes)[k] = IF k <= Len(r.out) THEN r.out[k] ELSE bytes[k - Len(r.out)]
      BY <1>1, <2>6, ConcatProperties
    <3>2. ASSUME NEW k \in 1..t + n
          PROVE  (r.out \o bytes)[k] = Cell(m, p + (k - 1))
      <4>1. CASE k <= t
        <5>1. k \in 1..t
          BY <4>1
        <5> QED
          BY <1>1, <2>6, <3>1, <4>1, <5>1 DEF p
      <4>2. CASE k > t
        <5>1. k - t \in 1..n /\ t + (k - t) = k /\ ~(k <= t)
          BY <1>1, <2>4, <4>2
        <5>2. (r.out \o bytes)[k] = bytes[k - t]
          BY <1>1, <2>6, <3>1, <5>1
        <5> QED
          BY <2>7, <5>1, <5>2
      <4>3. k <= t \/ k > t
        BY <1>1, <2>4
      <4> QED
        BY <4>1, <4>2, <4>3
    <3> QED
      BY <1>1, <2>6, <3>1, <3>2
  <2> DEFINE q == PeekBlock(m, r)
  <2>9. q.index = a /\ q.out = r.out \o bytes /\ q.left = left - n
    BY <2>3
  <2>10. left - n \in 0..size /\ size - (left - n) = t + n /\ left - n < left
    BY <1>1, <2>2
  <2>11. q \in [index : Indices, out : Seq(Data), left : 0..size]
    BY <2>3, <2>5, <2>8, <2>10
  <2>12. Pos(q.index) = p + (size - q.left)
    BY <1>1, <1>2, <1>3, <2>4, <2>5, <2>9, <2>10
  <2> HIDE DEF q
  <2>13. q \in PeekStates(m, ind, size)
    BY <2>8, <2>9, <2>10, <2>11, <2>12 DEF PeekStates, p
  <2> QED
    BY <1>6, <2>9, <2>10, <2>13 DEF q, left
<1>7. left = 0 \/ left > 0
  BY <1>1
<1> QED
  BY <1>5, <1>6, <1>7

\* The calls of peek are a function: there is a sequence of them.
PeekRun(m, ind, size, f) ==
  f = [k \in 0..size |-> IF k = 0 THEN [index |-> ind, out |-> << >>, left |-> size]
                         ELSE PeekBlock(m, f[k - 1])]

LEMMA PeekCalls ==
  ASSUME NEW m, NEW ind, NEW size, NEW g, PeekRun(m, ind, size, g)
  PROVE  \E f : PeekRun(m, ind, size, f) /\ peek(m, size, ind) = f[size]
BY Zenon DEF peek, PeekRun

\* peek copies the bytes it is asked for and moves the index behind them.
LEMMA Peeks ==
  ASSUME NEW m \in Buffer, Chain(m), NEW ind \in Indices, NEW size \in Nat,
         Pos(ind) + size <= Pos(m.write_ind)
  PROVE  /\ peek(m, size, ind).index \in Indices
         /\ Pos(peek(m, size, ind).index) = Pos(ind) + size
         /\ peek(m, size, ind).out \in Seq(Data) /\ Len(peek(m, size, ind).out) = size
         /\ \A k \in 1..size : peek(m, size, ind).out[k] = Cell(m, Pos(ind) + (k - 1))
<1> DEFINE X == PeekStates(m, ind, size)
           a == [index |-> ind, out |-> << >>, left |-> size]
           F == [r \in X |-> PeekBlock(m, r)]
<1>1. a \in X
  <2>1. size - size = 0 /\ Pos(ind) \in Nat /\ Pos(ind) + 0 = Pos(ind)
    BY PosType
  <2>2. << >> \in Seq(Data) /\ Len(<< >>) = 0
    BY EmptySeq
  <2>3. a \in [index : Indices, out : Seq(Data), left : 0..size]
    BY <2>2
  <2>4. a.index = ind /\ a.out = << >> /\ a.left = size
    OBVIOUS
  <2> HIDE DEF a
  <2>5. \A k \in 1..(size - a.left) : a.out[k] = Cell(m, Pos(ind) + (k - 1))
    BY <2>1, <2>4
  <2> QED
    BY <2>1, <2>2, <2>3, <2>4, <2>5 DEF PeekStates
<1>2. \A r \in X : PeekBlock(m, r) \in X
  BY PeekBlockStep
<1>3. F \in [X -> X] /\ \A r \in X : F[r] = PeekBlock(m, r)
  BY <1>2
<1> HIDE DEF X, F, a
<1>4. PICK g : Iterated(g, X, a, F, size)
  <2>1. F \in [X -> X]
    BY <1>3
  <2> QED
    BY <1>1, <2>1, Iterates
<1>5. g = [k \in 0..size |-> IF k = 0 THEN a ELSE PeekBlock(m, g[k - 1])]
  <2>1. g \in [0..size -> X] /\ g[0] = a /\ \A k \in 1..size : g[k] = F[g[k - 1]]
    BY <1>4 DEF Iterated
  <2>2. \A k \in 1..size : k - 1 \in 0..size /\ g[k - 1] \in X
    BY <2>1
  <2>3. \A k \in 1..size : g[k] = PeekBlock(m, g[k - 1])
    BY <1>3, <2>1, <2>2
  <2>4. \A k \in 0..size : g[k] = IF k = 0 THEN a ELSE PeekBlock(m, g[k - 1])
    BY <2>1, <2>3
  <2> QED
    BY <2>1, <2>4
<1>6. PICK f : PeekRun(m, ind, size, f) /\ peek(m, size, ind) = f[size]
  <2>1. PeekRun(m, ind, size, g)
    BY <1>5, Zenon DEF PeekRun, a
  <2> QED
    BY <2>1, PeekCalls
<1>7. f[0] = a /\ \A k \in 1..size : f[k] = PeekBlock(m, f[k - 1])
  <2>1. 0 \in 0..size /\ \A k \in 1..size : k \in 0..size /\ k # 0
    OBVIOUS
  <2>2. f = [k \in 0..size |-> IF k = 0 THEN a ELSE PeekBlock(m, f[k - 1])]
    BY <1>6, Zenon DEF PeekRun, a
  <2> QED
    BY <2>1, <2>2
<1> DEFINE T == {k \in 0..size : f[k] \in X /\ f[k].left <= size - k}
<1>8. size \in T
  <2>1. 0 \in T
    BY <1>1, <1>7 DEF a
  <2>2. ASSUME NEW k \in 1..size, k - 1 \in T PROVE k \in T
    <3>1. f[k - 1] \in X /\ f[k - 1].left <= size - (k - 1) /\ f[k] = PeekBlock(m, f[k - 1])
      BY <1>7, <2>2
    <3>2. /\ f[k] \in X
          /\ f[k - 1].left > 0 => f[k].left < f[k - 1].left
          /\ f[k - 1].left = 0 => f[k] = f[k - 1]
      BY <3>1, PeekBlockStep DEF X
    <3>3. f[k - 1].left \in 0..size /\ f[k].left \in 0..size
      BY <3>1, <3>2 DEF X, PeekStates
    <3>4. f[k].left <= size - k
      BY <3>1, <3>2, <3>3
    <3> QED
      BY <3>2, <3>4
  <2> HIDE DEF T
  <2> QED
    BY <2>1, <2>2, UpTo
<1> DEFINE r == peek(m, size, ind)
<1>9. r \in X /\ r.left <= 0
  BY <1>6, <1>8
<1> HIDE DEF r
<1>10. r.left = 0
  BY <1>9 DEF X, PeekStates
<1>11. size - r.left = size
  BY <1>10
<1> QED
  BY <1>9, <1>11 DEF r, X, PeekStates
-----------------------------------------------------------------------------
(* Growing and writing.                                                    *)

\* The blocks that were there are the same: so are their cells and slots.
LEMMA SameBlocks ==
  ASSUME NEW m \in Buffer, NEW g \in Buffer,
         \A k \in 1..Len(m.buffers) : g.buffers[k] = m.buffers[k]
  PROVE  \A a \in Nat : a < Span(Len(m.buffers)) =>
           Cell(g, a) = Cell(m, a) /\ Slot(g, a) = Slot(m, a)
<1> TAKE a \in Nat
<1> HAVE a < Span(Len(m.buffers))
<1> DEFINE b == BlockOf(a)
<1>1. b \in Nat /\ b < Len(m.buffers)
  <2>1. Len(m.buffers) \in Nat
    BY Members
  <2> QED
    BY <2>1, Address, BelowBlock
<1> HIDE DEF b
<1>2. b + 1 \in 1..Len(m.buffers)
  <2>1. Len(m.buffers) \in Nat
    BY Members
  <2> QED
    BY <1>1, <2>1
<1>3. g.buffers[b + 1] = m.buffers[b + 1]
  BY <1>2
<1> QED
  BY <1>3 DEF Cell, Slot, b

\* A chain that has grown holds what it held, and the memory behind it.
LEMMA GrowsBehind ==
  ASSUME NEW m \in Buffer, Chain(m), ~m.exited, NEW n \in Nat,
         Len(m.buffers) + n <= MaxBlocks + 2
  PROVE  LET g == GrownBy(m, n)
         IN  /\ g \in Buffer /\ Chain(g) /\ ~g.exited /\ Keeps(m, g)
             /\ Len(g.buffers) = Len(m.buffers) + n
             /\ g.read_ind = m.read_ind /\ g.write_ind = m.write_ind
             /\ \A a \in Nat : a < Pos(m.write_ind) => Cell(g, a) = Cell(m, a)
<1> DEFINE g == GrownBy(m, n)
<1>1. /\ Counted(g) /\ Len(g.buffers) = Len(m.buffers) + n
      /\ \A k \in 1..Len(m.buffers) : g.buffers[k] = m.buffers[k]
      /\ g.read_ind = m.read_ind /\ g.write_ind = m.write_ind /\ g.exited = m.exited
  BY Grows DEF Chain
<1> HIDE DEF g
<1>2. g \in Buffer
  BY <1>1 DEF Counted
<1>3. /\ Len(m.buffers) \in Nat /\ m.write_ind \in Indices /\ Pos(m.write_ind) \in Nat
      /\ m.write_ind.first \in Nat
      /\ Pos(m.write_ind) < Span(Len(m.buffers)) /\ Span(Len(m.buffers)) \in Nat
  BY Pointers, PosType
<1>4. Chain(g)
  <2>1. g.write_ind.first < Len(g.buffers)
    <3>1. m.write_ind.first < Len(m.buffers)
      BY DEF Chain
    <3> QED
      BY <1>1, <1>3, <3>1
  <2> QED
    BY <1>1, <2>1 DEF Chain
<1>5. \A a \in Nat : a < Span(Len(m.buffers)) => Cell(g, a) = Cell(m, a) /\ Slot(g, a) = Slot(m, a)
  BY <1>1, <1>2, SameBlocks
<1>6. \A a \in Nat : a < Pos(m.write_ind) => Cell(g, a) = Cell(m, a)
  BY <1>3, <1>5
<1>7. Keeps(m, g)
  <2>1. Span(Len(g.buffers)) = Span(Len(m.buffers)) + Span(n) /\ Span(n) \in Nat
    BY <1>1, <1>3, Spans
  <2>2. ASSUME NEW k \in Nat, Pos(m.write_ind) + k < Span(Len(m.buffers))
        PROVE  /\ Pos(g.write_ind) + k < Span(Len(g.buffers))
               /\ Slot(g, Pos(g.write_ind) + k) = Slot(m, Pos(m.write_ind) + k)
    <3>1. Pos(m.write_ind) + k \in Nat /\ Pos(m.write_ind) + k < Span(Len(g.buffers))
      BY <1>3, <2>1, <2>2
    <3> QED
      BY <1>1, <1>5, <2>2, <3>1
  <2> QED
    BY <1>1, <1>3, <2>2 DEF Keeps
<1> QED
  BY <1>1, <1>2, <1>4, <1>6, <1>7 DEF g

\* Different addresses are different pieces of memory.
LEMMA SlotInjective ==
  ASSUME NEW m \in Buffer, Distinct(m.buffers), NEW a \in Nat, NEW b \in Nat,
         a < Span(Len(m.buffers)), b < Span(Len(m.buffers)), Slot(m, a) = Slot(m, b)
  PROVE  a = b
<1>1. /\ DOMAIN m.buffers = 1..Len(m.buffers)
      /\ BlockOf(a) \in Nat /\ BlockOf(b) \in Nat
      /\ BlockOf(a) + 1 \in 1..Len(m.buffers) /\ BlockOf(b) + 1 \in 1..Len(m.buffers)
  BY Members, InChain, Address
<1>2. m.buffers[BlockOf(a) + 1].id = m.buffers[BlockOf(b) + 1].id /\ Offset(a) = Offset(b)
  BY DEF Slot
<1>3. BlockOf(a) + 1 = BlockOf(b) + 1
  BY <1>1, <1>2 DEF Distinct
<1>4. BlockOf(a) = BlockOf(b)
  BY <1>1, <1>3
<1> QED
  BY <1>2, <1>4, Address

\* The memory of an asynchronous read is the chain behind the write pointer.
Handed(m, slots) ==
  /\ slots \in Seq([id : Ids, second : 0..buffer_len - 1])
  /\ Pos(m.write_ind) + Len(slots) <= Span(Len(m.buffers))
  /\ Pos(m.write_ind) + Len(slots) <= Span(MaxBlocks)
  /\ \A k \in 1..Len(slots) : slots[k] = Slot(m, Pos(m.write_ind) + (k - 1))

\* What is received is behind the write pointer, the rest is as it was.
LEMMA Fills ==
  ASSUME NEW m \in Buffer, Chain(m), NEW slots, Handed(m, slots),
         NEW s \in Seq(Byte), Len(s) <= Len(slots)
  PROVE  LET f == Filled(m, slots, s)
         IN  /\ f \in Buffer /\ Counted(f) /\ Len(f.buffers) = Len(m.buffers)
             /\ f.read_ind = m.read_ind /\ f.write_ind = m.write_ind /\ f.exited = m.exited
             /\ \A a \in Nat : a < Pos(m.write_ind) => Cell(f, a) = Cell(m, a)
             /\ \A k \in 1..Len(s) : Cell(f, Pos(m.write_ind) + (k - 1)) = s[k]
<1> DEFINE bs == m.buffers
           fs == [k \in DOMAIN bs |-> FilledBlock(bs[k], slots, s)]
           f == Filled(m, slots, s)
           w == Pos(m.write_ind)
           Here(b, k) == {j \in 1..Len(s) : slots[j] = [id |-> b.id, second |-> k - 1]}
<1>1. /\ bs \in Seq(Block) /\ Len(bs) \in Nat /\ DOMAIN bs = 1..Len(bs)
      /\ Distinct(bs) /\ m.sanity_check = Len(bs) /\ w \in Nat /\ w < Span(Len(bs))
      /\ Span(Len(bs)) \in Nat
  BY Members, Pointers DEF Chain, Counted
<1>2. /\ Len(s) \in Nat /\ s \in [1..Len(s) -> Byte]
      /\ Len(slots) \in Nat /\ w + Len(slots) <= Span(Len(bs))
      /\ \A k \in 1..Len(slots) : slots[k] = Slot(m, w + (k - 1))
  BY LenProperties DEF Handed
<1>3. ASSUME NEW b \in Block
      PROVE  /\ FilledBlock(b, slots, s) \in Block /\ FilledBlock(b, slots, s).id = b.id
             /\ \A k \in 1..buffer_len : FilledBlock(b, slots, s).bytes[k]
                  = IF Here(b, k) = {} THEN b.bytes[k] ELSE s[CHOOSE j \in Here(b, k) : TRUE]
  <2> DEFINE d == [k \in 1..buffer_len |->
                     IF Here(b, k) = {} THEN b.bytes[k] ELSE s[CHOOSE j \in Here(b, k) : TRUE]]
  <2>1. FilledBlock(b, slots, s) = [b EXCEPT !.bytes = d]
    BY Zenon DEF FilledBlock
  <2>2. ASSUME NEW k \in 1..buffer_len PROVE d[k] \in Byte \union {Junk}
    <3>1. b.bytes[k] \in Byte \union {Junk}
      BY DEF Block, Bytes
    <3>2. CASE Here(b, k) = {}
      BY <3>1, <3>2
    <3>3. CASE Here(b, k) # {}
      <4> DEFINE j == CHOOSE j \in Here(b, k) : TRUE
      <4>1. j \in Here(b, k)
        BY <3>3
      <4> HIDE DEF j
      <4>2. s[j] \in Byte
        BY <1>2, <4>1
      <4>3. d[k] = s[j]
        BY <3>3 DEF j
      <4> QED
        BY <4>2, <4>3
    <3> QED
      BY <3>2, <3>3
  <2>3. d \in Bytes
    <3>1. d = [k \in 1..buffer_len |-> d[k]]
      OBVIOUS
    <3> HIDE DEF d
    <3> QED
      BY <2>2, <3>1 DEF Bytes
  <2>4. \A k \in 1..buffer_len :
          d[k] = IF Here(b, k) = {} THEN b.bytes[k] ELSE s[CHOOSE j \in Here(b, k) : TRUE]
    OBVIOUS
  <2> HIDE DEF d
  <2>5. /\ [b EXCEPT !.bytes = d] \in Block /\ [b EXCEPT !.bytes = d].id = b.id
        /\ [b EXCEPT !.bytes = d].bytes = d
    BY <2>3 DEF Block
  <2> QED
    BY <2>1, <2>4, <2>5
<1> HIDE DEF Here
<1>4. \A k \in 1..Len(bs) : bs[k] \in Block
  BY <1>1, ElementOfSeq
<1>5. /\ fs \in Seq(Block) /\ Len(fs) = Len(bs) /\ DOMAIN fs = 1..Len(bs)
      /\ \A k \in 1..Len(bs) : fs[k] = FilledBlock(bs[k], slots, s) /\ fs[k].id = bs[k].id
  <2>1. fs \in [1..Len(bs) -> Block]
    BY <1>1, <1>3, <1>4
  <2>2. fs \in Seq(Block) /\ Len(fs) = Len(bs) /\ DOMAIN fs = 1..Len(bs)
    <3> HIDE DEF fs
    <3> QED
      BY <1>1, <2>1
  <2>3. \A k \in 1..Len(bs) : fs[k] = FilledBlock(bs[k], slots, s)
    BY <1>1
  <2> HIDE DEF fs
  <2> QED
    BY <1>3, <1>4, <2>2, <2>3
<1>6. f = [m EXCEPT !.buffers = fs]
  BY DEF Filled
<1> HIDE DEF fs
<1>7. /\ f \in Buffer /\ f.buffers = fs /\ f.sanity_check = m.sanity_check
      /\ f.read_ind = m.read_ind /\ f.write_ind = m.write_ind /\ f.exited = m.exited
  BY <1>5, <1>6 DEF Buffer
<1> HIDE DEF f
<1>8. Counted(f)
  <2>1. Distinct(fs)
    BY <1>1, <1>5 DEF Distinct
  <2> QED
    BY <1>1, <1>5, <1>7, <2>1 DEF Counted
<1>9. ASSUME NEW a \in Nat, a < Span(Len(bs))
      PROVE  /\ \A j \in 1..Len(s) : j \in Here(bs[BlockOf(a) + 1], Offset(a) + 1) <=> w + (j - 1) = a
             /\ Cell(f, a) = IF Here(bs[BlockOf(a) + 1], Offset(a) + 1) = {} THEN Cell(m, a)
                             ELSE s[CHOOSE j \in Here(bs[BlockOf(a) + 1], Offset(a) + 1) : TRUE]
  <2> DEFINE b == BlockOf(a) + 1
             o == Offset(a) + 1
  <2>1. b \in 1..Len(bs) /\ o \in 1..buffer_len /\ o - 1 = Offset(a)
    BY <1>9, InChain, Address
  <2>2. ASSUME NEW j \in 1..Len(s) PROVE j \in Here(bs[b], o) <=> w + (j - 1) = a
    <3>1. j \in 1..Len(slots) /\ w + (j - 1) \in Nat /\ w + (j - 1) < Span(Len(bs))
      BY <1>1, <1>2
    <3>2. slots[j] = Slot(m, w + (j - 1))
      BY <1>2, <3>1
    <3>3. Slot(m, a) = [id |-> bs[b].id, second |-> o - 1]
      BY <2>1 DEF Slot
    <3>4. j \in Here(bs[b], o) <=> Slot(m, w + (j - 1)) = Slot(m, a)
      BY <3>2, <3>3, Zenon DEF Here
    <3>5. Slot(m, w + (j - 1)) = Slot(m, a) => w + (j - 1) = a
      BY <1>1, <1>9, <3>1, SlotInjective
    <3> QED
      BY <3>4, <3>5
  <2>3. Cell(f, a) = FilledBlock(bs[b], slots, s).bytes[o]
    BY <1>5, <1>7, <2>1 DEF Cell
  <2>4. Cell(m, a) = bs[b].bytes[o]
    BY DEF Cell
  <2>5. bs[b] \in Block
    BY <1>4, <2>1
  <2> HIDE DEF b, o
  <2>6. Cell(f, a) = IF Here(bs[b], o) = {} THEN bs[b].bytes[o] ELSE s[CHOOSE j \in Here(bs[b], o) : TRUE]
    BY <1>3, <2>1, <2>3, <2>5
  <2> QED
    BY <2>2, <2>4, <2>6 DEF b, o
<1>10. ASSUME NEW a \in Nat, a < w PROVE Cell(f, a) = Cell(m, a)
  <2>1. a < Span(Len(bs))
    BY <1>1, <1>10
  <2>2. \A j \in 1..Len(s) : ~(w + (j - 1) = a)
    BY <1>1, <1>2, <1>10
  <2>3. Here(bs[BlockOf(a) + 1], Offset(a) + 1) = {}
    BY <1>9, <2>1, <2>2 DEF Here
  <2> QED
    BY <1>9, <2>1, <2>3
<1>11. ASSUME NEW k \in 1..Len(s) PROVE Cell(f, w + (k - 1)) = s[k]
  <2> DEFINE a == w + (k - 1)
             h == Here(bs[BlockOf(a) + 1], Offset(a) + 1)
  <2>1. a \in Nat /\ a < Span(Len(bs))
    BY <1>1, <1>2
  <2>2. \A j \in 1..Len(s) : w + (j - 1) = a <=> j = k
    BY <1>1, <1>2
  <2> HIDE DEF a
  <2>3. \A j \in 1..Len(s) : j \in h <=> j = k
    BY <1>9, <2>1, <2>2
  <2>4. h \subseteq 1..Len(s)
    BY DEF Here
  <2>5. h = {k}
    BY <2>3, <2>4
  <2>6. (CHOOSE j \in h : TRUE) = k
    BY <2>5
  <2>7. Cell(f, a) = IF h = {} THEN Cell(m, a) ELSE s[CHOOSE j \in h : TRUE]
    BY <1>9, <2>1
  <2> HIDE DEF h
  <2> QED
    BY <2>5, <2>6, <2>7 DEF a
<1> QED
  BY <1>5, <1>7, <1>8, <1>10, <1>11 DEF f
\* The bytes received are behind those there were, and the chain is long enough.
LEMMA Written ==
  ASSUME NEW m \in Buffer, Chain(m), ~m.exited, Len(m.buffers) <= MaxBlocks + 1,
         NEW slots, Handed(m, slots), NEW s \in Seq(Byte), Len(s) <= Len(slots)
  PROVE  LET r == advance_write_ptr(Filled(m, slots, s), Len(s))
         IN  /\ r \in Buffer /\ Chain(r) /\ ~r.exited /\ Len(r.buffers) <= MaxBlocks + 1
             /\ r.read_ind = m.read_ind /\ Pos(r.write_ind) = Pos(m.write_ind) + Len(s)
             /\ Pos(r.write_ind) <= Span(MaxBlocks)
             /\ \A a \in Nat : a < Pos(m.write_ind) => Cell(r, a) = Cell(m, a)
             /\ \A k \in 1..Len(s) : Cell(r, Pos(m.write_ind) + (k - 1)) = s[k]
<1> DEFINE f == Filled(m, slots, s)
           n == Len(s)
           w == advance_index(f.write_ind, n)
           g == [f EXCEPT !.write_ind = w]
           missing == w.first + 1 - Len(f.buffers)
           c == IF missing > 0 THEN missing ELSE 0
           r == GrownBy(g, c)
           L == Len(m.buffers)
           p == Pos(m.write_ind)
<1>1. advance_write_ptr(f, n) = r
  BY Zenon DEF advance_write_ptr
<1>2. /\ f \in Buffer /\ Counted(f) /\ Len(f.buffers) = L
      /\ f.read_ind = m.read_ind /\ f.write_ind = m.write_ind /\ f.exited = m.exited
      /\ \A a \in Nat : a < p => Cell(f, a) = Cell(m, a)
      /\ \A k \in 1..n : Cell(f, p + (k - 1)) = s[k]
  BY Fills
<1> HIDE DEF f
<1>3. /\ m.write_ind \in Indices /\ m.read_ind \in Indices /\ p \in Nat /\ n \in Nat /\ L \in Nat
      /\ Pos(m.read_ind) \in Nat /\ Pos(m.read_ind) <= p
      /\ p < Span(L) /\ Span(L) \in Nat /\ MaxBlocks \in Nat /\ Span(MaxBlocks) \in Nat
      /\ Len(slots) \in Nat /\ p + Len(slots) <= Span(L) /\ p + Len(slots) <= Span(MaxBlocks)
  BY Pointers, BufferConsts, Spans, LenProperties DEF Handed
<1>4. w \in Indices /\ Pos(w) = p + n
  BY <1>2, <1>3, Advance
<1> HIDE DEF w
<1>5. w.first \in Nat /\ Pos(w) \in Nat /\ BlockOf(Pos(w)) = w.first
  BY <1>4, PosType
<1>6. Pos(w) <= Span(MaxBlocks) /\ p + n <= Span(L)
  BY <1>3, <1>4
<1>7. w.first < MaxBlocks + 1
  <2>1. Span(MaxBlocks) + buffer_len <= Span(MaxBlocks + 1) /\ Span(MaxBlocks + 1) \in Nat
    <3>1. MaxBlocks + 1 \in Nat /\ MaxBlocks < MaxBlocks + 1
      BY <1>3
    <3> QED
      BY <1>3, <3>1, Spans
  <2>2. buffer_len \in Nat /\ buffer_len > 0
    BY BufferConsts
  <2>3. Pos(w) < Span(MaxBlocks + 1)
    BY <1>3, <1>5, <1>6, <2>1, <2>2
  <2>4. MaxBlocks + 1 \in Nat
    BY <1>3
  <2> QED
    BY <1>5, <2>3, <2>4, BelowBlock
<1>8. /\ g \in Buffer /\ g.buffers = f.buffers /\ g.sanity_check = f.sanity_check
      /\ g.read_ind = m.read_ind /\ g.write_ind = w /\ g.exited = m.exited
  BY <1>2, <1>4 DEF Buffer
<1>9. Counted(g)
  BY <1>2, <1>8 DEF Counted
<1> HIDE DEF g
<1>10. c \in Nat /\ L + c <= MaxBlocks + 1 /\ w.first < L + c /\ L + c <= MaxBlocks + 2
  <2>1. missing = w.first + 1 - L
    BY <1>2
  <2> HIDE DEF missing, L
  <2>2. missing \in Int
    BY <1>3, <1>5, <2>1
  <2>3. L <= MaxBlocks + 1
    BY DEF L
  <2>4. c = IF missing > 0 THEN missing ELSE 0
    OBVIOUS
  <2> HIDE DEF c
  <2>5. /\ w.first \in Nat /\ L \in Nat /\ MaxBlocks \in Nat
        /\ w.first + 1 <= MaxBlocks + 1
    BY <1>3, <1>5, <1>7
  <2>6. CASE missing > 0
    <3>1. c = w.first + 1 - L
      BY <2>1, <2>4, <2>6
    <3>2. c \in Nat /\ L + c = w.first + 1
      BY <2>1, <2>2, <2>5, <2>6, <3>1
    <3> QED
      BY <2>5, <3>2
  <2>7. CASE ~(missing > 0)
    BY <2>1, <2>2, <2>3, <2>4, <2>5, <2>7
  <2> QED
    BY <2>6, <2>7
<1> HIDE DEF c
<1>11. /\ Counted(r) /\ Len(r.buffers) = L + c
       /\ \A k \in 1..Len(g.buffers) : r.buffers[k] = g.buffers[k]
       /\ r.read_ind = m.read_ind /\ r.write_ind = w /\ r.exited = m.exited
  <2>1. Len(g.buffers) = L
    BY <1>2, <1>8
  <2> QED
    BY <1>8, <1>9, <1>10, <2>1, Grows
<1> HIDE DEF r
<1>12. r \in Buffer
  BY <1>11 DEF Counted
<1>13. Chain(r)
  <2>1. Pos(r.read_ind) <= Pos(r.write_ind)
    BY <1>3, <1>4, <1>11
  <2>2. r.write_ind.first < Len(r.buffers)
    BY <1>10, <1>11
  <2>3. ~r.exited /\ r.read_ind.first = 0
    BY <1>11 DEF Chain
  <2> QED
    BY <1>11, <2>1, <2>2, <2>3 DEF Chain
<1>14. \A a \in Nat : a < Span(L) => Cell(r, a) = Cell(f, a)
  <2>1. \A a \in Nat : a < Span(Len(g.buffers)) => Cell(r, a) = Cell(g, a)
    BY <1>8, <1>11, <1>12, SameBlocks
  <2>2. \A a \in Nat : Cell(g, a) = Cell(f, a)
    BY <1>8 DEF Cell
  <2> QED
    BY <1>2, <1>8, <2>1, <2>2
<1>15. ASSUME NEW a \in Nat, a < p PROVE Cell(r, a) = Cell(m, a)
  <2>1. a < Span(L)
    BY <1>3, <1>15
  <2> QED
    BY <1>2, <1>14, <1>15, <2>1
<1>16. ASSUME NEW k \in 1..n PROVE Cell(r, p + (k - 1)) = s[k]
  <2>1. p + (k - 1) \in Nat /\ p + (k - 1) < Span(L)
    BY <1>3, <1>6
  <2> QED
    BY <1>2, <1>14, <2>1
<1> QED
  BY <1>1, <1>4, <1>6, <1>10, <1>11, <1>12, <1>13, <1>15, <1>16 DEF f
-----------------------------------------------------------------------------
(* The bytes between the pointers, as a queue.                             *)

\* The queue is a sequence, and as long as the pointers are apart.
LEMMA QueueOf ==
  ASSUME NEW m \in Buffer, Chain(m)
  PROVE  /\ Between(m) \in Seq(Data)
         /\ Len(Between(m)) = Pos(m.write_ind) - Pos(m.read_ind)
         /\ Pos(m.write_ind) - Pos(m.read_ind) \in Nat
         /\ \A k \in 1..(Pos(m.write_ind) - Pos(m.read_ind)) :
              Between(m)[k] = Cell(m, Pos(m.read_ind) + (k - 1))
<1> DEFINE d == Pos(m.write_ind) - Pos(m.read_ind)
<1>1. /\ Pos(m.write_ind) \in Nat /\ Pos(m.read_ind) \in Nat /\ d \in Nat
      /\ Pos(m.write_ind) < Span(Len(m.buffers)) /\ Span(Len(m.buffers)) \in Nat
  BY Pointers
<1>2. ASSUME NEW k \in 1..d PROVE Cell(m, Pos(m.read_ind) + (k - 1)) \in Data
  <2>1. /\ Pos(m.read_ind) + (k - 1) \in Nat
        /\ Pos(m.read_ind) + (k - 1) < Span(Len(m.buffers))
    BY <1>1
  <2> QED
    BY <2>1, InChain DEF Data
<1>3. Between(m) = [k \in 1..d |-> Cell(m, Pos(m.read_ind) + (k - 1))]
  BY Zenon DEF Between
<1> HIDE DEF d
<1>4. Between(m) \in [1..d -> Data]
  BY <1>2, <1>3
<1>5. Between(m) \in Seq(Data) /\ Len(Between(m)) = d
  BY <1>1, <1>4
<1>6. \A k \in 1..d : Between(m)[k] = Cell(m, Pos(m.read_ind) + (k - 1))
  BY <1>3
<1> QED
  BY <1>1, <1>5, <1>6 DEF d

\* Part of the queue, from its cells.
LEMMA PartOf ==
  ASSUME NEW m \in Buffer, Chain(m), NEW a \in Nat, NEW n \in Nat,
         a + n <= Pos(m.write_ind) - Pos(m.read_ind),
         NEW s \in Seq(Data), Len(s) = n,
         \A k \in 1..n : s[k] = Cell(m, Pos(m.read_ind) + a + (k - 1))
  PROVE  s = SubSeq(Between(m), a + 1, a + n)
<1> DEFINE q == Between(m)
           d == Pos(m.write_ind) - Pos(m.read_ind)
           p == Pos(m.read_ind)
           t == SubSeq(q, a + 1, a + n)
<1>1. /\ q \in Seq(Data) /\ Len(q) = d /\ d \in Nat /\ p \in Nat
      /\ \A k \in 1..d : q[k] = Cell(m, p + (k - 1))
  BY QueueOf, Pointers
<1> HIDE DEF q, d, p
<1>2. a + n <= d
  BY DEF d
<1>3. /\ t \in Seq(Data) /\ Len(t) = n
      /\ \A k \in 1..n : t[k] = q[a + k]
  <2>1. \A i \in a + 1..a + n : q[i] \in Data
    <3> TAKE i \in a + 1..a + n
    <3>1. i \in 1..Len(q)
      BY <1>1, <1>2
    <3> QED
      BY <1>1, <3>1, ElementOfSeq
  <2>2. a + 1 \in Int /\ a + n \in Int
    OBVIOUS
  <2>3. /\ t \in Seq(Data)
        /\ Len(t) = IF a + 1 <= a + n THEN (a + n) - (a + 1) + 1 ELSE 0
        /\ \A k \in 1..(a + n) - (a + 1) + 1 : t[k] = q[(a + 1) + k - 1]
    BY <2>1, <2>2, SubSeqProperties
  <2> HIDE DEF t
  <2>4. Len(t) = n /\ (a + n) - (a + 1) + 1 = n
    BY <2>3
  <2>5. \A k \in 1..n : (a + 1) + k - 1 = a + k
    OBVIOUS
  <2> QED
    BY <2>3, <2>4, <2>5
<1> HIDE DEF t
<1>4. ASSUME NEW k \in 1..n PROVE s[k] = t[k]
  <2>1. a + k \in 1..d /\ p + a + (k - 1) = p + ((a + k) - 1)
    BY <1>1, <1>2
  <2>2. s[k] = Cell(m, p + a + (k - 1))
    BY DEF p
  <2> QED
    BY <1>1, <1>3, <2>1, <2>2
<1>5. s = t
  BY <1>3, <1>4, SeqEqual
<1> QED
  BY <1>5 DEF t, q

\* Passing over n bytes takes them off the front.
LEMMA Passed ==
  ASSUME NEW m \in Buffer, Chain(m), NEW r \in Buffer, NEW n \in Nat, Advanced(m, r, n),
         n <= Pos(m.write_ind) - Pos(m.read_ind)
  PROVE  Between(r) = SubSeq(Between(m), n + 1, Len(Between(m)))
<1> DEFINE d == Pos(m.write_ind) - Pos(m.read_ind)
           e == Pos(r.write_ind) - Pos(r.read_ind)
           p == Pos(m.read_ind)
<1>1. /\ Len(Between(m)) = d /\ d \in Nat /\ p \in Nat
  BY QueueOf, Pointers
<1>2. /\ Chain(r) /\ e = d - n
      /\ \A k \in 1..(d - n) : Cell(r, Pos(r.read_ind) + (k - 1)) = Cell(m, p + (n + k - 1))
  BY DEF Advanced
<1>3. /\ Between(r) \in Seq(Data) /\ Len(Between(r)) = e /\ e \in Nat
      /\ \A k \in 1..e : Between(r)[k] = Cell(r, Pos(r.read_ind) + (k - 1))
  BY <1>2, QueueOf
<1> HIDE DEF d, e, p
<1>4. ASSUME NEW k \in 1..e PROVE Between(r)[k] = Cell(m, p + n + (k - 1))
  <2>1. p + (n + k - 1) = p + n + (k - 1)
    BY <1>1
  <2> QED
    BY <1>2, <1>3, <2>1
<1>5. n + e = d
  BY <1>1, <1>2, <1>3
<1>6. Between(r) = SubSeq(Between(m), n + 1, n + e)
  <2>1. n + e <= Pos(m.write_ind) - Pos(m.read_ind)
    BY <1>1, <1>5 DEF d
  <2>2. \A k \in 1..e : Between(r)[k] = Cell(m, Pos(m.read_ind) + n + (k - 1))
    BY <1>4 DEF p
  <2> QED
    BY <1>3, <2>1, <2>2, PartOf
<1> QED
  BY <1>1, <1>5, <1>6

\* Bytes written behind the write pointer are put behind the queue.
LEMMA PutBehind ==
  ASSUME NEW m \in Buffer, Chain(m), NEW r \in Buffer, Chain(r), NEW s \in Seq(Byte),
         r.read_ind = m.read_ind, Pos(r.write_ind) = Pos(m.write_ind) + Len(s),
         \A a \in Nat : a < Pos(m.write_ind) => Cell(r, a) = Cell(m, a),
         \A k \in 1..Len(s) : Cell(r, Pos(m.write_ind) + (k - 1)) = s[k]
  PROVE  Between(r) = Between(m) \o s
<1> DEFINE w == Pos(m.write_ind)
           p == Pos(m.read_ind)
           n == Len(s)
<1>1. w \in Nat /\ p \in Nat /\ p <= w /\ n \in Nat /\ Pos(r.write_ind) - Pos(r.read_ind) = (w - p) + n
  BY Pointers, LenProperties
<1>2. /\ Between(m) \in Seq(Data) /\ Len(Between(m)) = w - p
      /\ \A k \in 1..(w - p) : Between(m)[k] = Cell(m, p + (k - 1))
  BY QueueOf
<1>3. /\ Between(r) \in Seq(Data) /\ Len(Between(r)) = (w - p) + n
      /\ \A k \in 1..(w - p) + n : Between(r)[k] = Cell(r, p + (k - 1))
  BY <1>1, QueueOf
<1>4. s \in Seq(Data)
  BY SeqMonotonic DEF Data
<1>5. /\ Between(m) \o s \in Seq(Data) /\ Len(Between(m) \o s) = (w - p) + n
      /\ \A k \in 1..(w - p) + n :
           (Between(m) \o s)[k] = IF k <= w - p THEN Between(m)[k] ELSE s[k - (w - p)]
  BY <1>2, <1>4, ConcatProperties
<1>6. /\ \A a \in Nat : a < w => Cell(r, a) = Cell(m, a)
      /\ \A k \in 1..n : Cell(r, w + (k - 1)) = s[k]
  OBVIOUS
<1> HIDE DEF w, p, n
<1>7. ASSUME NEW k \in 1..(w - p) + n PROVE Between(r)[k] = (Between(m) \o s)[k]
  <2>1. CASE k <= w - p
    <3>1. k \in 1..(w - p) /\ p + (k - 1) \in Nat /\ p + (k - 1) < w
      BY <1>1, <2>1
    <3> QED
      BY <1>2, <1>3, <1>5, <1>6, <2>1, <3>1
  <2>2. CASE ~(k <= w - p)
    <3>1. k - (w - p) \in 1..n /\ p + (k - 1) = w + ((k - (w - p)) - 1)
      BY <1>1, <2>2
    <3>2. Cell(r, w + ((k - (w - p)) - 1)) = s[k - (w - p)]
      BY <1>6, <3>1
    <3> QED
      BY <1>3, <1>5, <2>2, <3>1, <3>2
  <2> QED
    BY <2>1, <2>2
<1> QED
  BY <1>3, <1>5, <1>7, SeqEqual

\* A chain grown, or filled behind the write pointer, is the same queue.
LEMMA SameQueue ==
  ASSUME NEW m \in Buffer, Chain(m), NEW r \in Buffer, Chain(r),
         r.read_ind = m.read_ind, r.write_ind = m.write_ind,
         \A a \in Nat : a < Pos(m.write_ind) => Cell(r, a) = Cell(m, a)
  PROVE  Between(r) = Between(m)
<1>1. << >> \in Seq(Byte) /\ Len(<< >>) = 0 /\ Pos(m.write_ind) \in Nat
  BY EmptySeq, Pointers
<1>2. Pos(r.write_ind) = Pos(m.write_ind) + Len(<< >>)
  BY <1>1
<1>3. Between(r) = Between(m) \o << >>
  <2>1. \A k \in 1..Len(<< >>) : Cell(r, Pos(m.write_ind) + (k - 1)) = << >>[k]
    <3>1. 1..Len(<< >>) = {}
      BY <1>1
    <3> QED
      BY <3>1
  <2> QED
    BY <1>1, <1>2, <2>1, PutBehind
<1> QED
  BY <1>3, QueueOf, ConcatEmptySeq

\* What the caller sees of a message_buffer, read through its operations.
UnreadOf(m) ==
  [k \in 1..bytes_to_read(m) |->
     m.buffers[advance_index(m.read_ind, k - 1).first + 1].bytes[advance_index(m.read_ind, k - 1).second + 1]]

\* It is the bytes between the pointers.
LEMMA UnreadIs ==
  ASSUME NEW m \in Buffer, Chain(m)
  PROVE  UnreadOf(m) = Between(m)
<1> DEFINE d == Pos(m.write_ind) - Pos(m.read_ind)
           At(k) == m.buffers[advance_index(m.read_ind, k - 1).first + 1].bytes[advance_index(m.read_ind, k - 1).second + 1]
<1>1. bytes_to_read(m) = d /\ m.read_ind \in Indices
  BY Pointers
<1>2. ASSUME NEW k \in 1..d PROVE At(k) = Cell(m, Pos(m.read_ind) + (k - 1))
  <2>1. k - 1 \in Nat
    OBVIOUS
  <2>2. advance_index(m.read_ind, k - 1)
          = Index(BlockOf(Pos(m.read_ind) + (k - 1)), Offset(Pos(m.read_ind) + (k - 1)))
    BY <1>1, <2>1, Advance
  <2> QED
    BY <2>2 DEF Cell, Index
<1>3. UnreadOf(m) = [k \in 1..d |-> At(k)]
  BY <1>1, Zenon DEF UnreadOf
<1>4. Between(m) = [k \in 1..d |-> Cell(m, Pos(m.read_ind) + (k - 1))]
  BY Zenon DEF Between
<1> HIDE DEF d, At
<1> QED
  BY <1>2, <1>3, <1>4
-----------------------------------------------------------------------------
(* The memory of an asynchronous read.                                     *)

\* The memory handed out is still there when blocks have been added behind it,
\* or taken off the front.
LEMMA StillHanded ==
  ASSUME NEW m \in Buffer, Chain(m), NEW r \in Buffer, Chain(r), Keeps(m, r),
         NEW slots, Handed(m, slots)
  PROVE  Handed(r, slots)
<1> DEFINE w == Pos(m.write_ind)
           v == Pos(r.write_ind)
           n == Len(slots)
<1>1. /\ w \in Nat /\ v \in Nat /\ n \in Nat /\ v <= w
      /\ v < Span(Len(r.buffers)) /\ Span(Len(r.buffers)) \in Nat
      /\ Span(Len(m.buffers)) \in Nat /\ Span(MaxBlocks) \in Nat
  <2>1. n \in Nat
    BY LenProperties DEF Handed
  <2>2. Span(MaxBlocks) \in Nat
    BY BufferConsts, Spans
  <2> QED
    BY <2>1, <2>2, Pointers DEF Keeps
<1>2. /\ w + n <= Span(Len(m.buffers)) /\ w + n <= Span(MaxBlocks)
      /\ \A k \in 1..n : slots[k] = Slot(m, w + (k - 1))
      /\ slots \in Seq([id : Ids, second : 0..buffer_len - 1])
  BY DEF Handed
<1>3. \A k \in Nat : w + k < Span(Len(m.buffers)) =>
        v + k < Span(Len(r.buffers)) /\ Slot(r, v + k) = Slot(m, w + k)
  BY DEF Keeps
<1> HIDE DEF w, v, n
<1>4. v + n <= Span(Len(r.buffers)) /\ v + n <= Span(MaxBlocks)
  <2>1. CASE n = 0
    BY <1>1, <1>2, <2>1
  <2>2. CASE n # 0
    <3>1. n - 1 \in Nat /\ w + (n - 1) < Span(Len(m.buffers))
      BY <1>1, <1>2, <2>2
    <3>2. v + (n - 1) < Span(Len(r.buffers))
      BY <1>3, <3>1
    <3> QED
      BY <1>1, <1>2, <3>1, <3>2
  <2> QED
    BY <2>1, <2>2
<1>5. ASSUME NEW k \in 1..n PROVE slots[k] = Slot(r, v + (k - 1))
  <2>1. k - 1 \in Nat /\ w + (k - 1) < Span(Len(m.buffers))
    BY <1>1, <1>2
  <2> QED
    BY <1>2, <1>3, <2>1
<1> QED
  BY <1>2, <1>4, <1>5 DEF Handed, v, n

\* No memory is handed out.
LEMMA NoneHanded ==
  ASSUME NEW r \in Buffer, Chain(r), Pos(r.write_ind) <= Span(MaxBlocks)
  PROVE  Handed(r, << >>)
<1>1. << >> \in Seq([id : Ids, second : 0..buffer_len - 1]) /\ Len(<< >>) = 0
  BY EmptySeq
<1>2. /\ Pos(r.write_ind) \in Nat /\ Pos(r.write_ind) + Len(<< >>) = Pos(r.write_ind)
      /\ Pos(r.write_ind) <= Span(Len(r.buffers))
  BY <1>1, Pointers
<1>3. 1..Len(<< >>) = {}
  BY <1>1
<1> QED
  BY <1>1, <1>2, <1>3 DEF Handed

\* What is handed out is the chain from the write pointer to its end.
LEMMA HandsOut ==
  ASSUME NEW m \in Buffer, Chain(m), Len(m.buffers) <= MaxBlocks
  PROVE  Handed(m, SlotsFrom(m, m.write_ind))
<1> DEFINE w == Pos(m.write_ind)
           n == (Len(m.buffers) - m.write_ind.first) * buffer_len - m.write_ind.second
           At(k) == advance_index(m.write_ind, k - 1)
           slots == SlotsFrom(m, m.write_ind)
           S == [id : Ids, second : 0..buffer_len - 1]
<1>1. /\ w \in Nat /\ w < Span(Len(m.buffers)) /\ Span(Len(m.buffers)) \in Nat
      /\ Len(m.buffers) \in Nat /\ m.write_ind \in Indices /\ MaxBlocks \in Nat /\ buffer_len \in Nat
  BY Pointers, BufferConsts
<1>2. /\ m.write_ind.first \in Nat /\ m.write_ind.second \in Nat
      /\ w = Span(m.write_ind.first) + m.write_ind.second /\ Span(m.write_ind.first) \in Nat
  <2>1. m.write_ind.first \in Nat /\ m.write_ind.second \in Nat
    BY <1>1, PosType
  <2>2. w = Span(m.write_ind.first) + m.write_ind.second
    BY DEF Pos
  <2>3. Span(m.write_ind.first) \in Nat
    BY <2>1, Spans
  <2> QED
    BY <2>1, <2>2, <2>3
<1>3. n = Span(Len(m.buffers)) - w
  <2>1. (Len(m.buffers) - m.write_ind.first) * buffer_len
          = Span(Len(m.buffers)) - Span(m.write_ind.first)
    <3>1. \A x, y \in Nat : (x - y) * buffer_len = Span(x) - Span(y)
      BY <1>1 DEF Span
    <3> QED
      BY <1>1, <1>2, <3>1
  <2> QED
    BY <1>1, <1>2, <2>1
<1>4. slots = [k \in 1..n |-> [id |-> m.buffers[At(k).first + 1].id, second |-> At(k).second]]
  BY Zenon DEF SlotsFrom
<1> HIDE DEF n, slots
<1>5. n \in Nat /\ w + n = Span(Len(m.buffers))
  BY <1>1, <1>3
<1>6. ASSUME NEW k \in 1..n
      PROVE  /\ [id |-> m.buffers[At(k).first + 1].id, second |-> At(k).second] = Slot(m, w + (k - 1))
             /\ Slot(m, w + (k - 1)) \in S
  <2>1. k - 1 \in Nat /\ w + (k - 1) \in Nat /\ w + (k - 1) < Span(Len(m.buffers))
    BY <1>1, <1>5
  <2>2. At(k) = Index(BlockOf(w + (k - 1)), Offset(w + (k - 1)))
    BY <1>1, <2>1, Advance
  <2>3. Slot(m, w + (k - 1)) \in S
    BY <2>1, InChain
  <2> QED
    BY <2>2, <2>3 DEF Slot, Index
<1> HIDE DEF At, S
<1>7. slots \in [1..n -> S] /\ \A k \in 1..n : slots[k] = Slot(m, w + (k - 1))
  BY <1>4, <1>6
<1>8. slots \in Seq(S) /\ Len(slots) = n
  BY <1>5, <1>7
<1>9. Span(Len(m.buffers)) <= Span(MaxBlocks)
  <2>1. Len(m.buffers) = MaxBlocks \/ Len(m.buffers) < MaxBlocks
    BY <1>1
  <2>2. Span(MaxBlocks) \in Nat
    BY <1>1, Spans
  <2>3. Len(m.buffers) < MaxBlocks => Span(Len(m.buffers)) + buffer_len <= Span(MaxBlocks)
    BY <1>1, Spans
  <2> QED
    BY <1>1, <2>1, <2>2, <2>3
<1>10. w + Len(slots) = Span(Len(m.buffers))
  BY <1>5, <1>8
<1> QED
  BY <1>1, <1>7, <1>8, <1>9, <1>10 DEF Handed, slots, S
-----------------------------------------------------------------------------
(* The steps.                                                              *)

(***************************************************************************)
(* The chain is sound, at most one block longer than the caller asks for   *)
(* (the block that the last byte of a read makes it grow by), the memory   *)
(* handed out is behind the write pointer, and an index of the caller's is *)
(* between the pointers.                                                   *)
(***************************************************************************)
Inside(m, i) ==
  i = NoIndex \/ /\ i \in Indices
                 /\ Pos(m.read_ind) <= Pos(i) /\ Pos(i) <= Pos(m.write_ind)

IInv ==
  /\ Chain(mb) /\ Len(mb.buffers) <= MaxBlocks + 1
  /\ Handed(mb, pending) /\ Inside(mb, index)
  /\ in \in Seq(Byte)

\* How far an index is ahead of the read pointer.
AheadOf(m, i) == IF i = NoIndex THEN -1 ELSE Pos(i) - Pos(m.read_ind)

\* The queue of a state, by the addresses of its pointers.
View == INSTANCE ByteQueue WITH queue <- Between(mb), ahead <- AheadOf(mb, index)

\* The invariant, and what it says of the types.
LEMMA Holds ==
  ASSUME IInv
  PROVE  /\ mb \in Buffer /\ Chain(mb) /\ Len(mb.buffers) \in Nat /\ Len(mb.buffers) <= MaxBlocks + 1
         /\ Pos(mb.write_ind) \in Nat /\ Pos(mb.read_ind) \in Nat
         /\ Pos(mb.write_ind) <= Span(MaxBlocks) /\ Span(MaxBlocks) \in Nat /\ MaxBlocks \in Nat
         /\ bytes_to_read(mb) = Pos(mb.write_ind) - Pos(mb.read_ind)
<1>1. mb \in Buffer /\ Chain(mb) /\ Len(mb.buffers) <= MaxBlocks + 1 /\ Handed(mb, pending)
  BY DEF IInv, Chain, Counted
<1>2. /\ Len(mb.buffers) \in Nat /\ Pos(mb.write_ind) \in Nat /\ Pos(mb.read_ind) \in Nat
      /\ bytes_to_read(mb) = Pos(mb.write_ind) - Pos(mb.read_ind)
  BY <1>1, Pointers
<1>3. MaxBlocks \in Nat /\ Span(MaxBlocks) \in Nat
  BY BufferConsts, Spans
<1>4. Len(pending) \in Nat /\ Pos(mb.write_ind) + Len(pending) <= Span(MaxBlocks)
  BY <1>1, LenProperties DEF Handed
<1>5. Pos(mb.write_ind) <= Span(MaxBlocks)
  BY <1>2, <1>3, <1>4
<1> QED
  BY <1>1, <1>2, <1>3, <1>5

\* A message_buffer has one block and no bytes.
LEMMA Begins == Init => IInv /\ View!QInit
<1> SUFFICES ASSUME Init PROVE IInv /\ View!QInit
  OBVIOUS
<1> DEFINE new == Fresh(<< >>, 1)
<1>1. /\ mb.buffers = new /\ mb.read_ind = Start /\ mb.write_ind = Start
      /\ mb.sanity_check = 1 /\ mb.exited = FALSE
      /\ new \in Seq(Block) => mb \in Buffer
      /\ pending = << >> /\ index = NoIndex /\ in = << >> /\ out = << >>
  <2>1. Start \in Indices
    BY BufferConsts DEF Start, Index, Indices
  <2> HIDE DEF new
  <2>2. mb = [buffers |-> new, read_ind |-> Start, write_ind |-> Start,
              sanity_check |-> 1, exited |-> FALSE]
    BY DEF Init, new
  <2> QED
    BY <2>1, <2>2 DEF Init, Buffer
<1>2. new \in Seq(Block) /\ Len(new) = 1 /\ Distinct(new)
  <2>1. << >> \in Seq(Block) /\ Len(<< >>) = 0 /\ MaxBlocks \in Nat
    BY EmptySeq, BufferConsts
  <2>2. Len(<< >>) + 1 <= MaxBlocks + 2
    BY <2>1
  <2> QED
    BY <2>1, <2>2, FreshBlocks
<1> HIDE DEF new
<1>3. Start.first = 0 /\ Pos(Start) = 0
  BY Spans DEF Start, Index, Pos
<1>4. Chain(mb) /\ mb \in Buffer
  BY <1>1, <1>2, <1>3 DEF Chain, Counted
<1>5. MaxBlocks \in Nat /\ Span(MaxBlocks) \in Nat
  BY BufferConsts, Spans
<1>6. Handed(mb, pending)
  <2>1. Pos(mb.write_ind) <= Span(MaxBlocks)
    BY <1>1, <1>3, <1>5
  <2> QED
    BY <1>1, <1>4, <2>1, NoneHanded
<1>7. IInv
  <2>1. Len(mb.buffers) <= MaxBlocks + 1 /\ in \in Seq(Byte)
    BY <1>1, <1>2, <1>5, EmptySeq
  <2> QED
    BY <1>1, <1>4, <1>6, <2>1 DEF IInv, Inside
<1>8. Between(mb) = << >>
  <2>1. Between(mb) \in Seq(Data) /\ Len(Between(mb)) = 0
    BY <1>1, <1>3, <1>4, QueueOf
  <2> QED
    BY <2>1, EmptySeq
<1>9. View!QInit
  BY <1>1, <1>8 DEF View!QInit, AheadOf
<1> QED
  BY <1>7, <1>9

\* The chain grows: nothing arrives.
LEMMA GrowsStep ==
  ASSUME IInv, NEW n \in Nat, ~mb.exited, Len(mb.buffers) + n <= MaxBlocks + 1,
         mb' = GrownBy(mb, n), Silent, UNCHANGED <<pending, index>>
  PROVE  IInv' /\ View!Put
<1>1. /\ mb \in Buffer /\ Chain(mb) /\ Len(mb.buffers) \in Nat /\ MaxBlocks \in Nat
      /\ Handed(mb, pending) /\ Inside(mb, index)
  BY Holds DEF IInv
<1>2. Len(mb.buffers) + n <= MaxBlocks + 2
  BY <1>1
<1>3. /\ mb' \in Buffer /\ Chain(mb') /\ Keeps(mb, mb')
      /\ Len(mb'.buffers) = Len(mb.buffers) + n
      /\ mb'.read_ind = mb.read_ind /\ mb'.write_ind = mb.write_ind
      /\ \A a \in Nat : a < Pos(mb.write_ind) => Cell(mb', a) = Cell(mb, a)
  BY <1>1, <1>2, GrowsBehind
<1>4. Handed(mb', pending)
  BY <1>1, <1>3, StillHanded
<1>5. Between(mb') = Between(mb)
  BY <1>1, <1>3, SameQueue
<1>6. in' = << >> /\ out' = << >> /\ pending' = pending /\ index' = index
  BY DEF Silent
<1>7. IInv'
  <2>1. Inside(mb', index')
    BY <1>1, <1>3, <1>6 DEF Inside
  <2>2. in' \in Seq(Byte)
    BY <1>6, EmptySeq
  <2> QED
    BY <1>3, <1>4, <1>6, <2>1, <2>2 DEF IInv
<1>8. View!Put
  <2>1. Between(mb') = Between(mb) \o in'
    BY <1>1, <1>5, <1>6, QueueOf, ConcatEmptySeq
  <2>2. AheadOf(mb', index') = AheadOf(mb, index)
    BY <1>3, <1>6 DEF AheadOf
  <2> QED
    BY <1>6, <2>1, <2>2 DEF View!Put
<1> QED
  BY <1>7, <1>8

\* The memory behind the write pointer is handed out.
LEMMA BeginStep ==
  ASSUME IInv, BeginAsyncRead
  PROVE  IInv' /\ View!Put
<1>1. mb \in Buffer /\ Chain(mb)
  BY Holds
<1>2. /\ mb' = mb /\ index' = index /\ in' = << >> /\ out' = << >>
      /\ pending' = SlotsFrom(mb, mb.write_ind) /\ Len(mb.buffers) <= MaxBlocks
  BY DEF BeginAsyncRead, Silent
<1>3. Handed(mb', pending')
  BY <1>1, <1>2, HandsOut
<1>4. IInv'
  <2>1. in' \in Seq(Byte)
    BY <1>2, EmptySeq
  <2> QED
    BY <1>2, <1>3, <2>1 DEF IInv
<1>5. View!Put
  <2>1. Between(mb') = Between(mb) \o in'
    BY <1>1, <1>2, QueueOf, ConcatEmptySeq
  <2> QED
    BY <1>2, <2>1 DEF View!Put
<1> QED
  BY <1>4, <1>5

\* What arrived is put behind the queue.
LEMMA EndStep ==
  ASSUME IInv, NEW s \in Arrivals, EndAsyncRead(s)
  PROVE  IInv' /\ View!Put
<1>1. /\ mb \in Buffer /\ Chain(mb) /\ Len(mb.buffers) <= MaxBlocks + 1
      /\ Handed(mb, pending) /\ Inside(mb, index)
      /\ Pos(mb.write_ind) \in Nat /\ Pos(mb.read_ind) \in Nat
  BY Holds DEF IInv
<1>2. s \in Seq(Byte) /\ Len(s) \in Nat
  BY BufferConsts, LenProperties
<1>3. /\ ~mb.exited /\ Len(s) <= Len(pending) /\ mb' = advance_write_ptr(Filled(mb, pending, s), Len(s))
      /\ pending' = << >> /\ in' = s /\ out' = << >> /\ index' = index
  BY DEF EndAsyncRead
<1>4. /\ mb' \in Buffer /\ Chain(mb') /\ Len(mb'.buffers) <= MaxBlocks + 1
      /\ mb'.read_ind = mb.read_ind /\ Pos(mb'.write_ind) = Pos(mb.write_ind) + Len(s)
      /\ Pos(mb'.write_ind) <= Span(MaxBlocks)
      /\ \A a \in Nat : a < Pos(mb.write_ind) => Cell(mb', a) = Cell(mb, a)
      /\ \A k \in 1..Len(s) : Cell(mb', Pos(mb.write_ind) + (k - 1)) = s[k]
  BY <1>1, <1>2, <1>3, Written
<1>5. Handed(mb', pending')
  BY <1>3, <1>4, NoneHanded
<1>6. Inside(mb', index')
  <2>1. CASE index = NoIndex
    BY <1>3, <2>1 DEF Inside
  <2>2. CASE index # NoIndex
    <3>1. /\ index \in Indices /\ Pos(mb.read_ind) <= Pos(index)
          /\ Pos(index) <= Pos(mb.write_ind) /\ Pos(index) \in Nat
      BY <1>1, <2>2, PosType DEF Inside
    <3>2. Pos(mb'.read_ind) <= Pos(index) /\ Pos(index) <= Pos(mb'.write_ind)
      BY <1>1, <1>2, <1>4, <3>1
    <3> QED
      BY <1>3, <3>1, <3>2 DEF Inside
  <2> QED
    BY <2>1, <2>2
<1>7. IInv'
  BY <1>2, <1>3, <1>4, <1>5, <1>6 DEF IInv
<1>8. View!Put
  <2>1. Between(mb') = Between(mb) \o in'
    BY <1>1, <1>2, <1>3, <1>4, PutBehind
  <2>2. AheadOf(mb', index') = AheadOf(mb, index)
    BY <1>3, <1>4 DEF AheadOf
  <2> QED
    BY <1>3, <2>1, <2>2 DEF View!Put
<1> QED
  BY <1>7, <1>8

\* Bytes are passed over.
LEMMA PassesStep ==
  ASSUME IInv, NEW n \in Nat, n <= bytes_to_read(mb), MayTake(n),
         Advanced(mb, mb', n), mb' \in Buffer,
         index' = NoIndex, in' = << >>, UNCHANGED pending
  PROVE  /\ IInv' /\ n \in 0..Len(Between(mb))
         /\ Between(mb') = SubSeq(Between(mb), n + 1, Len(Between(mb)))
<1>1. /\ mb \in Buffer /\ Chain(mb) /\ Len(mb.buffers) <= MaxBlocks + 1 /\ Len(mb.buffers) \in Nat
      /\ Handed(mb, pending) /\ MaxBlocks \in Nat
      /\ Pos(mb.write_ind) \in Nat /\ Pos(mb.write_ind) <= Span(MaxBlocks) /\ Span(MaxBlocks) \in Nat
      /\ bytes_to_read(mb) = Pos(mb.write_ind) - Pos(mb.read_ind)
  BY Holds DEF IInv
<1>2. n <= Pos(mb.write_ind) - Pos(mb.read_ind)
  BY <1>1
<1>3. Between(mb') = SubSeq(Between(mb), n + 1, Len(Between(mb)))
  BY <1>1, <1>2, Passed
<1>4. /\ Chain(mb') /\ Len(mb'.buffers) <= Len(mb.buffers) /\ Pos(mb'.write_ind) <= Pos(mb.write_ind)
      /\ n < Pos(mb.write_ind) - Pos(mb.read_ind) => Keeps(mb, mb')
  BY DEF Advanced
<1>5. Len(mb'.buffers) \in Nat /\ Pos(mb'.write_ind) \in Nat
  BY <1>4, Pointers
<1>6. Handed(mb', pending')
  <2>1. CASE pending = << >>
    <3>1. Pos(mb'.write_ind) <= Span(MaxBlocks)
      BY <1>1, <1>4, <1>5
    <3> QED
      BY <1>4, <2>1, <3>1, NoneHanded
  <2>2. CASE pending # << >>
    <3>1. n < Pos(mb.write_ind) - Pos(mb.read_ind)
      BY <1>1, <2>2 DEF MayTake
    <3> QED
      BY <1>1, <1>4, <3>1, StillHanded
  <2> QED
    BY <2>1, <2>2
<1>7. IInv'
  <2>1. Len(mb'.buffers) <= MaxBlocks + 1 /\ in' \in Seq(Byte)
    BY <1>1, <1>4, <1>5, EmptySeq
  <2>2. Inside(mb', index')
    BY DEF Inside
  <2> QED
    BY <1>4, <1>6, <2>1, <2>2 DEF IInv
<1>8. n \in 0..Len(Between(mb))
  <2>1. Len(Between(mb)) = Pos(mb.write_ind) - Pos(mb.read_ind) /\ Len(Between(mb)) \in Nat
    BY <1>1, QueueOf
  <2> QED
    BY <1>2, <2>1
<1> QED
  BY <1>3, <1>7, <1>8

\* Bytes are skipped.
LEMMA SkipStep ==
  ASSUME IInv, NEW n \in Nat, Skip(n)
  PROVE  IInv' /\ \E k \in 0..Len(Between(mb)) : View!Drop(k)
<1>1. mb \in Buffer /\ Chain(mb)
  BY Holds
<1>2. /\ ~mb.exited /\ n <= bytes_to_read(mb) /\ MayTake(n) /\ mb' = advance_read_ptr(mb, n)
      /\ index' = NoIndex /\ in' = << >> /\ out' = << >> /\ pending' = pending
  BY DEF Skip, Silent
<1>3. Advanced(mb, mb', n)
  BY <1>1, <1>2, Advances
<1>4. mb' \in Buffer
  BY <1>3 DEF Advanced, Chain, Counted
<1>5. /\ IInv' /\ n \in 0..Len(Between(mb))
      /\ Between(mb') = SubSeq(Between(mb), n + 1, Len(Between(mb)))
  BY <1>2, <1>3, <1>4, PassesStep
<1>6. View!Drop(n)
  <2>1. SubSeq(Between(mb), 0 + 1, 0 + 0) = << >>
    BY SubSeqEmpty
  <2>2. AheadOf(mb', index') = -1
    BY <1>2 DEF AheadOf
  <2> QED
    BY <1>2, <1>5, <2>1, <2>2 DEF View!Drop, View!Gives
<1> QED
  BY <1>5, <1>6

\* Bytes are read.
LEMMA ReadStep ==
  ASSUME IInv, NEW n \in Nat, Read(n)
  PROVE  IInv' /\ \E k \in 0..Len(Between(mb)) : View!Take(k)
<1>1. mb \in Buffer /\ Chain(mb) /\ bytes_to_read(mb) = Pos(mb.write_ind) - Pos(mb.read_ind)
      /\ Pos(mb.read_ind) \in Nat
  BY Holds
<1>2. /\ ~mb.exited /\ n <= bytes_to_read(mb) /\ MayTake(n)
      /\ mb' = read(mb, n).mb /\ out' = read(mb, n).out
      /\ index' = NoIndex /\ in' = << >> /\ pending' = pending
  BY DEF Read
<1>3. /\ Advanced(mb, mb', n) /\ out' \in Seq(Data) /\ Len(out') = n
      /\ \A k \in 1..n : out'[k] = Cell(mb, Pos(mb.read_ind) + (k - 1))
  BY <1>1, <1>2, Reads
<1>4. mb' \in Buffer
  BY <1>3 DEF Advanced, Chain, Counted
<1>5. /\ IInv' /\ n \in 0..Len(Between(mb))
      /\ Between(mb') = SubSeq(Between(mb), n + 1, Len(Between(mb)))
  BY <1>2, <1>3, <1>4, PassesStep
<1>6. out' = SubSeq(Between(mb), 0 + 1, 0 + n)
  <2>1. 0 + n <= Pos(mb.write_ind) - Pos(mb.read_ind)
    BY <1>1, <1>2
  <2>2. \A k \in 1..n : out'[k] = Cell(mb, Pos(mb.read_ind) + 0 + (k - 1))
    BY <1>1, <1>3
  <2> QED
    BY <1>1, <1>3, <2>1, <2>2, PartOf
<1>7. View!Take(n)
  <2>1. AheadOf(mb', index') = -1
    BY <1>2 DEF AheadOf
  <2> QED
    BY <1>2, <1>5, <1>6, <2>1 DEF View!Take, View!Gives
<1> QED
  BY <1>5, <1>7

\* All is dropped, or the process ends.
LEMMA ResetStep ==
  ASSUME IInv, Reset
  PROVE  IInv' /\ \E k \in 0..Len(Between(mb)) : View!Drop(k)
<1>1. /\ mb \in Buffer /\ Chain(mb) /\ Counted(mb) /\ Len(mb.buffers) \in Nat \ {0}
      /\ Len(mb.buffers) <= MaxBlocks + 1 /\ MaxBlocks \in Nat /\ MaxChain \in Nat
      /\ Pos(mb.write_ind) \in Nat /\ Pos(mb.write_ind) <= Span(MaxBlocks) /\ Span(MaxBlocks) \in Nat
  BY Holds, Pointers, BufferConsts DEF Chain
<1>2. /\ ~mb.exited /\ pending = << >> /\ mb' = reset(mb)
      /\ index' = NoIndex /\ in' = << >> /\ out' = << >> /\ pending' = << >>
  BY DEF Reset, Silent
<1>3. /\ Counted(mb')
      /\ Len(mb.buffers) > MaxChain =>
           /\ mb'.buffers = mb.buffers /\ mb'.exited = TRUE
           /\ mb'.read_ind = mb.read_ind /\ mb'.write_ind = mb.write_ind
      /\ ~(Len(mb.buffers) > MaxChain) =>
           /\ Len(mb'.buffers) = 1 /\ mb'.exited = mb.exited
           /\ mb'.read_ind = Start /\ mb'.write_ind = Start
  BY <1>1, <1>2, Resets
<1>4. mb' \in Buffer
  BY <1>3 DEF Counted
<1>5. Start.first = 0 /\ Pos(Start) = 0
  BY Spans DEF Start, Index, Pos
<1>6. Chain(mb') /\ Len(mb'.buffers) <= MaxBlocks + 1 /\ Pos(mb'.write_ind) <= Span(MaxBlocks)
  <2>1. CASE Len(mb.buffers) > MaxChain
    BY <1>1, <1>3, <2>1 DEF Chain
  <2>2. CASE ~(Len(mb.buffers) > MaxChain)
    <3>1. /\ Len(mb'.buffers) = 1 /\ ~mb'.exited
          /\ mb'.read_ind = Start /\ mb'.write_ind = Start
      BY <1>2, <1>3, <2>2
    <3> QED
      BY <1>1, <1>3, <1>5, <3>1 DEF Chain
  <2> QED
    BY <2>1, <2>2
<1>7. IInv'
  <2>1. Handed(mb', pending')
    BY <1>2, <1>4, <1>6, NoneHanded
  <2>2. Inside(mb', index') /\ in' \in Seq(Byte)
    BY <1>2, EmptySeq DEF Inside
  <2> QED
    BY <1>6, <2>1, <2>2 DEF IInv
<1> DEFINE q == Between(mb)
<1>8. q \in Seq(Data) /\ Len(q) \in Nat
  BY <1>1, QueueOf
<1>9. \E k \in 0..Len(q) : Between(mb') = SubSeq(q, k + 1, Len(q))
  <2>1. CASE Len(mb.buffers) > MaxChain
    <3>1. Between(mb') = q
      <4>1. \A a \in Nat : Cell(mb', a) = Cell(mb, a)
        BY <1>3, <2>1 DEF Cell
      <4> QED
        BY <1>1, <1>3, <1>4, <1>6, <2>1, <4>1, SameQueue
    <3> HIDE DEF q
    <3>2. SubSeq(q, 0 + 1, Len(q)) = q
      BY <1>8, SubSeqFull
    <3>3. 0 \in 0..Len(q)
      BY <1>8
    <3> QED
      BY <3>1, <3>2, <3>3
  <2>2. CASE ~(Len(mb.buffers) > MaxChain)
    <3>1. Between(mb') = << >>
      <4>1. Between(mb') \in Seq(Data) /\ Len(Between(mb')) = 0
        BY <1>3, <1>4, <1>5, <1>6, <2>2, QueueOf
      <4> QED
        BY <4>1, EmptySeq
    <3> HIDE DEF q
    <3>2. SubSeq(q, Len(q) + 1, Len(q)) = << >>
      BY <1>8, SubSeqEmpty
    <3>3. Len(q) \in 0..Len(q)
      BY <1>8
    <3> QED
      BY <3>1, <3>2, <3>3
  <2> QED
    BY <2>1, <2>2
<1>10. PICK k \in 0..Len(q) : Between(mb') = SubSeq(q, k + 1, Len(q))
  BY <1>9
<1>11. View!Drop(k)
  <2>1. SubSeq(Between(mb), 0 + 1, 0 + 0) = << >>
    BY SubSeqEmpty
  <2>2. AheadOf(mb', index') = -1
    BY <1>2 DEF AheadOf
  <2> QED
    BY <1>2, <1>10, <2>1, <2>2 DEF View!Drop, View!Gives
<1> QED
  BY <1>7, <1>11

\* The caller takes an index.
LEMMA ReadIndexStep ==
  ASSUME IInv, ReadIndex
  PROVE  IInv' /\ View!Mark
<1>1. /\ mb \in Buffer /\ Chain(mb) /\ mb.read_ind \in Indices
      /\ Pos(mb.read_ind) \in Nat /\ Pos(mb.read_ind) <= Pos(mb.write_ind)
  BY Holds, Pointers
<1>2. index' = mb.read_ind /\ mb' = mb /\ pending' = pending /\ in' = << >> /\ out' = << >>
  BY DEF ReadIndex, Silent
<1>3. IInv'
  <2>1. Inside(mb', index')
    BY <1>1, <1>2 DEF Inside
  <2>2. in' \in Seq(Byte)
    BY <1>2, EmptySeq
  <2> QED
    BY <1>2, <2>1, <2>2 DEF IInv
<1>4. View!Mark
  <2>1. mb.read_ind # NoIndex
    BY <1>1, BufferConsts DEF Indices
  <2>2. AheadOf(mb', index') = 0
    BY <1>1, <1>2, <2>1 DEF AheadOf
  <2>3. SubSeq(Between(mb), 0 + 1, 0 + 0) = << >>
    BY SubSeqEmpty
  <2> QED
    BY <1>2, <2>2, <2>3 DEF View!Mark, View!Gives
<1> QED
  BY <1>3, <1>4

\* The caller looks ahead.
LEMMA PeekStep ==
  ASSUME IInv, NEW n \in Nat, Peek(n)
  PROVE  IInv' /\ \E k \in 0..Len(Between(mb)) : View!Look(k)
<1>1. /\ mb \in Buffer /\ Chain(mb) /\ mb.write_ind \in Indices
      /\ Pos(mb.read_ind) \in Nat /\ Pos(mb.write_ind) \in Nat
      /\ Len(Between(mb)) = Pos(mb.write_ind) - Pos(mb.read_ind)
  BY Holds, Pointers, QueueOf
<1>2. /\ index # NoIndex /\ n <= bytes_to_read_from_index(mb, index)
      /\ index' = peek(mb, n, index).index /\ out' = peek(mb, n, index).out
      /\ in' = << >> /\ mb' = mb /\ pending' = pending
  BY DEF Peek
<1>3. /\ index \in Indices /\ Pos(index) \in Nat
      /\ Pos(mb.read_ind) <= Pos(index) /\ Pos(index) <= Pos(mb.write_ind)
  BY <1>2, PosType DEF IInv, Inside
<1>4. Pos(index) + n <= Pos(mb.write_ind)
  <2>1. bytes_to_read_from_index(mb, index) = Pos(mb.write_ind) - Pos(index)
    BY <1>1, <1>3, Distance
  <2> QED
    BY <1>1, <1>2, <1>3, <2>1
<1>5. /\ index' \in Indices /\ Pos(index') = Pos(index) + n
      /\ out' \in Seq(Data) /\ Len(out') = n
      /\ \A k \in 1..n : out'[k] = Cell(mb, Pos(index) + (k - 1))
  BY <1>1, <1>2, <1>3, <1>4, Peeks
<1>6. IInv'
  <2>1. Inside(mb', index')
    <3>1. Pos(mb.read_ind) <= Pos(index') /\ Pos(index') <= Pos(mb.write_ind)
      BY <1>1, <1>3, <1>4, <1>5
    <3> QED
      BY <1>2, <1>5, <3>1 DEF Inside
  <2>2. in' \in Seq(Byte)
    BY <1>2, EmptySeq
  <2> QED
    BY <1>2, <2>1, <2>2 DEF IInv
<1> DEFINE a == AheadOf(mb, index)
<1>7. a = Pos(index) - Pos(mb.read_ind)
  BY <1>2 DEF AheadOf
<1> HIDE DEF a
<1>8. a \in Nat /\ a + n <= Len(Between(mb)) /\ n \in 0..Len(Between(mb))
  BY <1>1, <1>3, <1>4, <1>7
<1>9. AheadOf(mb', index') = a + n
  <2>1. index' # NoIndex
    BY <1>5, BufferConsts DEF Indices
  <2>2. AheadOf(mb', index') = Pos(index') - Pos(mb.read_ind)
    BY <1>2, <2>1 DEF AheadOf
  <2> QED
    BY <1>1, <1>3, <1>5, <1>7, <2>2
<1>10. out' = SubSeq(Between(mb), a + 1, a + n)
  <2>1. a + n <= Pos(mb.write_ind) - Pos(mb.read_ind)
    BY <1>1, <1>8
  <2>2. \A k \in 1..n : out'[k] = Cell(mb, Pos(mb.read_ind) + a + (k - 1))
    <3>1. Pos(mb.read_ind) + a = Pos(index)
      BY <1>1, <1>3, <1>7
    <3> QED
      BY <1>5, <3>1
  <2> QED
    BY <1>1, <1>5, <1>8, <2>1, <2>2, PartOf
<1>11. View!Look(n)
  <2>1. a >= 0 /\ a + n <= Len(Between(mb))
    BY <1>8
  <2> QED
    BY <1>2, <1>9, <1>10, <2>1 DEF View!Look, View!Gives, a
<1> QED
  BY <1>6, <1>8, <1>11

\* Every step keeps the invariant and is one of a queue.
LEMMA Steps == IInv /\ [Next]_vars => IInv' /\ [View!QNext]_(View!qvars)
<1> SUFFICES ASSUME IInv, [Next]_vars PROVE IInv' /\ [View!QNext]_(View!qvars)
  OBVIOUS
<1>1. /\ Len(mb.buffers) \in Nat /\ MaxBlocks \in Nat /\ buffer_len \in Nat \ {0}
  BY Holds, BufferConsts
<1>2. CASE AddBuffer
  <2>1. /\ ~mb.exited /\ Len(mb.buffers) + 1 <= MaxBlocks + 1 /\ mb' = GrownBy(mb, 1)
        /\ Silent /\ UNCHANGED <<pending, index>>
    BY <1>1, <1>2 DEF AddBuffer
  <2> QED
    BY <2>1, GrowsStep DEF View!QNext
<1>3. ASSUME NEW n \in Sizes, AddSpace(n) PROVE IInv' /\ [View!QNext]_(View!qvars)
  <2>1. n \in Nat
    BY <1>1 DEF Sizes
  <2>2. BlockOf(n) \in Nat /\ BlockOf(n) + 1 \in Nat
    BY <2>1, Address
  <2>3. /\ ~mb.exited /\ Len(mb.buffers) + BlockOf(n) + 1 <= MaxBlocks
        /\ mb' = GrownBy(mb, BlockOf(n) + 1)
        /\ Silent /\ UNCHANGED <<pending, index>>
    BY <1>3 DEF AddSpace, BlockOf
  <2>4. Len(mb.buffers) + (BlockOf(n) + 1) <= MaxBlocks + 1
    BY <1>1, <2>2, <2>3
  <2> QED
    BY <2>2, <2>3, <2>4, GrowsStep DEF View!QNext
<1>4. CASE BeginAsyncRead
  BY <1>4, BeginStep DEF View!QNext
<1>5. ASSUME NEW s \in Arrivals, EndAsyncRead(s) PROVE IInv' /\ [View!QNext]_(View!qvars)
  BY <1>5, EndStep DEF View!QNext
<1>6. ASSUME NEW n \in Sizes, Read(n) \/ Skip(n) \/ Peek(n)
      PROVE  IInv' /\ [View!QNext]_(View!qvars)
  <2>1. n \in Nat
    BY <1>1 DEF Sizes
  <2>2. CASE Read(n)
    BY <2>1, <2>2, ReadStep DEF View!QNext
  <2>3. CASE Skip(n)
    BY <2>1, <2>3, SkipStep DEF View!QNext
  <2>4. CASE Peek(n)
    BY <2>1, <2>4, PeekStep DEF View!QNext
  <2> QED
    BY <1>6, <2>2, <2>3, <2>4
<1>7. CASE Reset
  BY <1>7, ResetStep DEF View!QNext
<1>8. CASE ReadIndex
  BY <1>8, ReadIndexStep DEF View!QNext
<1>9. CASE UNCHANGED vars
  BY <1>9 DEF vars, IInv, View!qvars
<1> QED
  BY <1>2, <1>3, <1>4, <1>5, <1>6, <1>7, <1>8, <1>9, Zenon DEF Next

\* The invariant holds.
LEMMA AlwaysIInv == Spec => []IInv
<1>1. Init => IInv
  BY Begins
<1>2. IInv /\ [Next]_vars => IInv'
  BY Steps
<1> QED
  BY <1>1, <1>2, PTL DEF Spec
-----------------------------------------------------------------------------
(* What the runs check.                                                    *)

\* The blocks are different ones of the pool, whole, and the pointers and the
\* caller's index are offsets into them, however often the chain has been cut
\* at its front and grown behind.
THEOREM TypeCorrect == Spec => []TypeOK
<1>1. IInv => TypeOK
  <2> SUFFICES ASSUME IInv PROVE TypeOK
    OBVIOUS
  <2>1. /\ mb \in Buffer /\ Distinct(mb.buffers) /\ mb.buffers \in Seq(Block)
        /\ DOMAIN mb.buffers = 1..Len(mb.buffers) /\ Len(mb.buffers) \in Nat
        /\ mb.read_ind \in Indices /\ mb.write_ind \in Indices /\ mb.exited \in BOOLEAN
    BY Holds, Members DEF Chain, Counted
  <2>2. ASSUME NEW k \in DOMAIN mb.buffers
        PROVE  /\ mb.buffers[k].id \in Ids /\ mb.buffers[k].bytes \in Bytes
               /\ \A j \in 1..k - 1 : mb.buffers[j].id # mb.buffers[k].id
    <3>1. mb.buffers[k] \in Block
      BY <2>1, ElementOfSeq
    <3>2. ASSUME NEW j \in 1..k - 1, mb.buffers[j].id = mb.buffers[k].id PROVE FALSE
      <4>1. j \in DOMAIN mb.buffers /\ j # k
        BY <2>1
      <4> QED
        BY <2>1, <3>2, <4>1 DEF Distinct
    <3> QED
      BY <3>1, <3>2 DEF Block
  <2>3. mb.read_ind.second \in 0..buffer_len - 1 /\ mb.write_ind.second \in 0..buffer_len - 1
    BY <2>1, PosType
  <2>4. \A k \in DOMAIN pending : pending[k] \in [id : Ids, second : 0..buffer_len - 1]
    <3>1. pending \in Seq([id : Ids, second : 0..buffer_len - 1])
      BY DEF IInv, Handed
    <3> QED
      BY <3>1, LenProperties, ElementOfSeq
  <2>5. index = NoIndex \/ (index.first \in Nat /\ index.second \in 0..buffer_len - 1)
    BY PosType DEF IInv, Inside
  <2>6. \A k \in DOMAIN in : in[k] \in Byte
    <3>1. in \in Seq(Byte)
      BY DEF IInv
    <3> QED
      BY <3>1, LenProperties, ElementOfSeq
  <2> QED
    BY <2>1, <2>2, <2>3, <2>4, <2>5, <2>6 DEF TypeOK
<1> QED
  BY <1>1, AlwaysIInv, PTL

\* reset never takes a sound chain for an overwritten one, the write pointer is
\* always memory of the chain and the read pointer is not past it, for chains
\* of any length.
THEOREM ChainStaysSound == Spec => []ChainIsSound
<1>1. IInv => ChainIsSound
  <2> SUFFICES ASSUME IInv PROVE ChainIsSound
    OBVIOUS
  <2>1. /\ Pos(mb.write_ind) \in Nat /\ Pos(mb.read_ind) \in Nat /\ mb \in Buffer /\ Chain(mb)
        /\ bytes_to_read(mb) = Pos(mb.write_ind) - Pos(mb.read_ind)
        /\ Pos(mb.read_ind) <= Pos(mb.write_ind)
    BY Holds DEF Chain
  <2>2. bytes_to_read(mb) >= 0
    BY <2>1
  <2> QED
    BY <2>1, <2>2 DEF ChainIsSound, Chain, Counted
<1> QED
  BY <1>1, AlwaysIInv, PTL

\* The index of the caller, in the operations' words and by address.
LEMMA AheadIs ==
  ASSUME NEW m \in Buffer, Chain(m), NEW i, Inside(m, i)
  PROVE  (IF i = NoIndex THEN -1 ELSE bytes_to_read(m) - bytes_to_read_from_index(m, i)) = AheadOf(m, i)
<1>1. CASE i = NoIndex
  BY <1>1 DEF AheadOf
<1>2. CASE i # NoIndex
  <2>1. i \in Indices /\ Pos(i) \in Nat
    BY <1>2, PosType DEF Inside
  <2>2. /\ m.write_ind \in Indices /\ Pos(m.write_ind) \in Nat /\ Pos(m.read_ind) \in Nat
        /\ bytes_to_read(m) = Pos(m.write_ind) - Pos(m.read_ind)
    BY Pointers
  <2>3. bytes_to_read_from_index(m, i) = Pos(m.write_ind) - Pos(i)
    BY <2>1, <2>2, Distance
  <2>4. bytes_to_read(m) - bytes_to_read_from_index(m, i) = Pos(i) - Pos(m.read_ind)
    BY <2>1, <2>2, <2>3
  <2> QED
    BY <1>2, <2>4 DEF AheadOf
<1> QED
  BY <1>1, <1>2

\* The queue that the run checks is the one the steps were followed on.
LEMMA SameView ==
  ASSUME IInv
  PROVE  Unread = Between(mb) /\ Ahead = AheadOf(mb, index)
<1>1. mb \in Buffer /\ Chain(mb) /\ Inside(mb, index)
  BY Holds DEF IInv
<1>2. Unread = UnreadOf(mb)
  BY DEF Unread, UnreadOf, ByteAt
<1>3. Ahead = IF index = NoIndex THEN -1 ELSE bytes_to_read(mb) - bytes_to_read_from_index(mb, index)
  BY DEF Ahead
<1> QED
  BY <1>1, <1>2, <1>3, UnreadIs, AheadIs

\* The same, after a step.
LEMMA SameViewNext ==
  ASSUME IInv'
  PROVE  Unread' = Between(mb') /\ Ahead' = AheadOf(mb', index')
<1>1. mb' \in Buffer /\ Chain(mb') /\ Inside(mb', index')
  BY DEF IInv, Chain, Counted
<1>2. Unread' = UnreadOf(mb')
  BY DEF Unread, UnreadOf, ByteAt
<1>3. Ahead' = IF index' = NoIndex THEN -1 ELSE bytes_to_read(mb') - bytes_to_read_from_index(mb', index')
  BY DEF Ahead
<1> QED
  BY <1>1, <1>2, <1>3, UnreadIs, AheadIs

\* message_buffer is a queue of bytes: what is read, skipped or peeked is what
\* arrived, in order and once, for blocks of any length, a chain of any length
\* and whatever is sent, also while memory is handed out.
THEOREM Queues == Spec => IsByteQueue
<1>1. Init => Queue!QInit
  <2> SUFFICES ASSUME Init PROVE Queue!QInit
    OBVIOUS
  <2>1. IInv /\ View!QInit
    BY Begins
  <2> QED
    BY <2>1, SameView DEF View!QInit, Queue!QInit
<1>2. IInv /\ IInv' /\ [Next]_vars => [Queue!QNext]_(Queue!qvars)
  <2> SUFFICES ASSUME IInv, IInv', [Next]_vars PROVE [Queue!QNext]_(Queue!qvars)
    OBVIOUS
  <2>1. [View!QNext]_(View!qvars)
    BY Steps
  <2>2. /\ Unread = Between(mb) /\ Ahead = AheadOf(mb, index)
        /\ Unread' = Between(mb') /\ Ahead' = AheadOf(mb', index')
    BY SameView, SameViewNext
  <2> QED
    BY <2>1, <2>2
    DEF View!QNext, View!qvars, View!Put, View!Take, View!Drop, View!Mark, View!Look, View!Gives,
        Queue!QNext, Queue!qvars, Queue!Put, Queue!Take, Queue!Drop, Queue!Mark, Queue!Look,
        Queue!Gives
<1> QED
  BY <1>1, <1>2, AlwaysIInv, PTL DEF Spec, IsByteQueue, Queue!QSpec
=============================================================================

--------------------------- MODULE MessageBuffer ----------------------------
(***************************************************************************)
(* fc's message_buffer: bytes received into a chain of fixed-length blocks *)
(* and read from its front.  Blocks that have been read are taken off the  *)
(* front, the chain shrinks to one block when it has been read empty, and  *)
(* grows behind as it fills.  An asynchronous read writes into the memory  *)
(* it was given (get_buffer_sequence_for_boost_async_read) and the write   *)
(* pointer is moved when it returns; the caller may read meanwhile.        *)
(*                                                                         *)
(* Blocks have identities, so that memory written late is the memory that  *)
(* was handed out, whatever has become of the chain.                       *)
(***************************************************************************)
EXTENDS Integers, Sequences

CONSTANTS buffer_len, \* bytes of a block
          Byte,       \* what a byte holds
          Junk,       \* what a new block holds
          MaxChain,   \* 10^6 in the code
          MaxBlocks,  \* bound on the chain the caller asks for, and reads into
          Arrivals,   \* what a peer may send at once: sequences of bytes
          NoIndex     \* the caller has no index of its own

ASSUME BufferConsts == /\ buffer_len \in Nat \ {0} /\ MaxChain \in Nat \ {0}
                       /\ MaxBlocks \in Nat \ {0} /\ Junk \notin Byte
                       /\ NoIndex \notin [first : Nat, second : Nat]
                       /\ \A s \in Arrivals : s \in Seq(Byte) /\ s # << >>

VARIABLES mb,      \* the message_buffer: its members, and whether it exited
          pending, \* the memory of the asynchronous read under way
          index,   \* an index_t the caller keeps for peek
          in,      \* the bytes that arrived in the last step, and
          out      \* those read or peeked in it (for the properties)

vars == <<mb, pending, index, in, out>>

Index(first, second) == [first |-> first, second |-> second]
Start == Index(0, 0)

\* Mutant: the pool does not know which blocks the chain holds.
FreshAny(buffers, n) == [k \in 1..n |-> [id |-> 1, bytes |-> [b \in 1..buffer_len |-> Junk]]]

\* n times pool().malloc(): any blocks that are not in the chain will do.
Ids == 1..MaxBlocks + 2
Fresh(buffers, n) ==
  LET free == {id \in Ids : \A k \in DOMAIN buffers : buffers[k].id # id}
      ids == CHOOSE f \in [1..n -> free] : \A j, k \in 1..n : f[j] = f[k] => j = k
  IN  [k \in 1..n |-> [id |-> ids[k], bytes |-> [b \in 1..buffer_len |-> Junk]]]

GrownBy(m, n) == [m EXCEPT !.sanity_check = @ + n, !.buffers = @ \o Fresh(@, n)]

Init ==
  /\ mb = [buffers |-> Fresh(<< >>, 1), read_ind |-> Start, write_ind |-> Start,
           sanity_check |-> 1, exited |-> FALSE]
  /\ pending = << >> /\ index = NoIndex /\ in = << >> /\ out = << >>

-----------------------------------------------------------------------------
(* The member functions, on a message_buffer m.                            *)

advance_index(ind, bytes) ==
  Index(ind.first + (bytes + ind.second) \div buffer_len, (bytes + ind.second) % buffer_len)

bytes_to_read_from_index(m, ind) ==
  (m.write_ind.first - ind.first) * buffer_len + m.write_ind.second - ind.second
bytes_to_read(m) == bytes_to_read_from_index(m, m.read_ind)

\* The process ends when the chain looks overwritten, or is too long.
reset(m) ==
  IF Len(m.buffers) # m.sanity_check \/ Len(m.buffers) > MaxChain
  THEN [m EXCEPT !.exited = TRUE]
  ELSE [m EXCEPT !.sanity_check = @ - (Len(m.buffers) - 1), !.buffers = <<Head(@)>>,
                 !.read_ind = Start, !.write_ind = Start]

\* Mutant: the pointers are taken to be equal when they are in the same block.
advance_read_ptr_block(m, bytes) ==
  LET r == advance_index(m.read_ind, bytes)
      moved == [m EXCEPT !.read_ind = r]
  IN  IF r.first = m.write_ind.first THEN reset(moved)
      ELSE [moved EXCEPT !.buffers = SubSeq(@, r.first + 1, Len(@)),
                         !.sanity_check = @ - r.first,
                         !.read_ind.first = 0, !.write_ind.first = @ - r.first]

advance_read_ptr(m, bytes) ==
  LET r == advance_index(m.read_ind, bytes)
      moved == [m EXCEPT !.read_ind = r]
  IN  IF r = m.write_ind THEN reset(moved)
      ELSE [moved EXCEPT !.buffers = SubSeq(@, r.first + 1, Len(@)),
                         !.sanity_check = @ - r.first,
                         !.read_ind.first = 0, !.write_ind.first = @ - r.first]

\* Mutant: a byte that fills the last block does not make it grow.
advance_write_ptr_late(m, bytes) ==
  LET w == advance_index(m.write_ind, bytes)
      missing == w.first - Len(m.buffers)
  IN  GrownBy([m EXCEPT !.write_ind = w], IF missing > 0 THEN missing ELSE 0)

advance_write_ptr(m, bytes) ==
  LET w == advance_index(m.write_ind, bytes)
      missing == w.first + 1 - Len(m.buffers)
  IN  GrownBy([m EXCEPT !.write_ind = w], IF missing > 0 THEN missing ELSE 0)

\* size bytes of the block at ind, and the slots from ind to the chain's end.
BytesAt(m, ind, size) ==
  SubSeq(m.buffers[ind.first + 1].bytes, ind.second + 1, ind.second + size)
SlotsFrom(m, ind) ==
  [k \in 1..(Len(m.buffers) - ind.first) * buffer_len - ind.second |->
     LET at == advance_index(ind, k - 1)
     IN  [id |-> m.buffers[at.first + 1].id, second |-> at.second]]

\* One call of read, of what is left to read: it throws when there is not so
\* much, copies what the block has of it, and calls itself for the rest.
ReadBlock(r) ==
  LET here == buffer_len - r.mb.read_ind.second
      size == IF r.left <= here THEN r.left ELSE here
  IN  IF r.left = 0 \/ bytes_to_read(r.mb) < r.left THEN r
      ELSE [mb   |-> advance_read_ptr(r.mb, size),
            out  |-> r.out \o BytesAt(r.mb, r.mb.read_ind, size),
            left |-> r.left - size]

\* Each call takes a byte at least, so there are no more of them than bytes.
read(m, size) ==
  LET calls[k \in 0..size] == IF k = 0 THEN [mb |-> m, out |-> << >>, left |-> size]
                              ELSE ReadBlock(calls[k - 1])
  IN  calls[size]

PeekBlock(m, r) ==
  LET here == buffer_len - r.index.second
      size == IF r.left <= here THEN r.left ELSE here
  IN  IF r.left = 0 \/ bytes_to_read_from_index(m, r.index) < r.left THEN r
      ELSE [index |-> advance_index(r.index, size),
            out   |-> r.out \o BytesAt(m, r.index, size),
            left  |-> r.left - size]

peek(m, size, ind) ==
  LET calls[k \in 0..size] == IF k = 0 THEN [index |-> ind, out |-> << >>, left |-> size]
                              ELSE PeekBlock(m, calls[k - 1])
  IN  calls[size]

-----------------------------------------------------------------------------
(* The caller.                                                             *)

Silent == in' = << >> /\ out' = << >>

AddBuffer ==
  /\ ~mb.exited /\ Len(mb.buffers) < MaxBlocks
  /\ mb' = GrownBy(mb, 1)
  /\ Silent /\ UNCHANGED <<pending, index>>

AddSpace(bytes) ==
  /\ ~mb.exited /\ Len(mb.buffers) + bytes \div buffer_len + 1 <= MaxBlocks
  /\ mb' = GrownBy(mb, bytes \div buffer_len + 1)
  /\ Silent /\ UNCHANGED <<pending, index>>

BeginAsyncRead ==
  /\ ~mb.exited /\ pending = << >> /\ Len(mb.buffers) <= MaxBlocks
  /\ pending' = SlotsFrom(mb, mb.write_ind)
  /\ Silent /\ UNCHANGED <<mb, index>>

\* The memory handed out is filled from its start, then the pointer is moved.
FilledBlock(b, slots, s) ==
  [b EXCEPT !.bytes = [k \in 1..buffer_len |->
     LET here == {j \in 1..Len(s) : slots[j] = [id |-> b.id, second |-> k - 1]}
     IN  IF here = {} THEN b.bytes[k] ELSE s[CHOOSE j \in here : TRUE]]]
Filled(m, slots, s) ==
  [m EXCEPT !.buffers = [k \in DOMAIN m.buffers |-> FilledBlock(m.buffers[k], slots, s)]]

EndAsyncRead(s) ==
  /\ ~mb.exited /\ Len(s) <= Len(pending)
  /\ mb' = advance_write_ptr(Filled(mb, pending, s), Len(s))
  /\ pending' = << >> /\ in' = s /\ out' = << >>
  /\ UNCHANGED index

\* While memory is handed out the caller must not read the buffer empty: the
\* reset would move the write pointer from under it.
MayTake(bytes) == pending # << >> => bytes < bytes_to_read(mb)

Read(size) ==
  /\ ~mb.exited /\ size <= bytes_to_read(mb) /\ MayTake(size)
  /\ mb' = read(mb, size).mb /\ out' = read(mb, size).out
  /\ index' = NoIndex /\ in' = << >>
  /\ UNCHANGED pending

\* mb_datastream::skip, of bytes there are.
Skip(bytes) ==
  /\ ~mb.exited /\ bytes <= bytes_to_read(mb) /\ MayTake(bytes)
  /\ mb' = advance_read_ptr(mb, bytes)
  /\ index' = NoIndex /\ Silent
  /\ UNCHANGED pending

Reset ==
  /\ ~mb.exited /\ pending = << >>
  /\ mb' = reset(mb)
  /\ index' = NoIndex /\ Silent
  /\ UNCHANGED pending

ReadIndex ==
  /\ ~mb.exited
  /\ index' = mb.read_ind
  /\ Silent /\ UNCHANGED <<mb, pending>>

Peek(size) ==
  /\ ~mb.exited /\ index # NoIndex /\ size <= bytes_to_read_from_index(mb, index)
  /\ index' = peek(mb, size, index).index /\ out' = peek(mb, size, index).out
  /\ in' = << >> /\ UNCHANGED <<mb, pending>>

Sizes == 1..buffer_len * (MaxBlocks + 1) \* bound
Next ==
  \/ AddBuffer \/ BeginAsyncRead \/ Reset \/ ReadIndex
  \/ \E n \in Sizes : AddSpace(n) \/ Read(n) \/ Skip(n) \/ Peek(n)
  \/ \E s \in Arrivals : EndAsyncRead(s)

Spec == Init /\ [][Next]_vars
-----------------------------------------------------------------------------
Bytes == [1..buffer_len -> Byte \union {Junk}]
TypeOK ==
  /\ \A k \in DOMAIN mb.buffers : /\ mb.buffers[k].id \in Ids /\ mb.buffers[k].bytes \in Bytes
                                /\ \A j \in 1..k - 1 : mb.buffers[j].id # mb.buffers[k].id
  /\ mb.read_ind.second \in 0..buffer_len - 1 /\ mb.write_ind.second \in 0..buffer_len - 1
  /\ mb.exited \in BOOLEAN
  /\ \A k \in DOMAIN pending : pending[k] \in [id : Ids, second : 0..buffer_len - 1]
  /\ index = NoIndex \/ (index.first \in Nat /\ index.second \in 0..buffer_len - 1)
  /\ \A k \in DOMAIN in : in[k] \in Byte

(***************************************************************************)
(* Whatever the order of growing, filling, reading and shrinking: the      *)
(* blocks counted are the blocks there are, so that reset never takes a    *)
(* sound chain for an overwritten one and ends the process only for its    *)
(* length; the write pointer is inside the chain, so that the assertion of *)
(* get_buffer_sequence_for_boost_async_read holds and write_ptr is memory; *)
(* the read pointer is in the first block and not past the write pointer.  *)
(***************************************************************************)
ChainIsSound ==
  /\ mb.sanity_check = Len(mb.buffers)
  /\ mb.exited => Len(mb.buffers) > MaxChain
  /\ ~mb.exited => /\ mb.write_ind.first < Len(mb.buffers)
                   /\ mb.read_ind.first = 0 /\ bytes_to_read(mb) >= 0

(***************************************************************************)
(* The bytes from the read pointer to the write pointer are a queue:       *)
(* reading, skipping and peeking give what arrived, in order and once,     *)
(* across blocks, resets and blocks reused, also while memory is handed    *)
(* out to an asynchronous read, as long as the caller then leaves a byte   *)
(* unread.                                                                 *)
(***************************************************************************)
ByteAt(ind) == mb.buffers[ind.first + 1].bytes[ind.second + 1]
Unread == [k \in 1..bytes_to_read(mb) |-> ByteAt(advance_index(mb.read_ind, k - 1))]
Ahead == IF index = NoIndex THEN -1
         ELSE bytes_to_read(mb) - bytes_to_read_from_index(mb, index)
Queue == INSTANCE ByteQueue WITH queue <- Unread, ahead <- Ahead
IsByteQueue == Queue!QSpec
=============================================================================

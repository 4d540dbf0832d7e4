# A TLA+ development for HBrightShow/bright

The repository holds two EOSIO smart contracts and a few command-line tools
around a chain renamed from EOS to UOS. This directory models the parts that
have behaviour of their own, checks them with TLC on small instances and proves
their main invariants with TLAPS for every value of the constants.

## Inventory

| component | state | operations | modelled in |
|---|---|---|---|
| keephand contract, `contracts/keephand` | tables `userinfo` (name, pubkey) and `userasset` (name, funds as a double) | `createacnt`, `deleteacnt`, `modasset` (save or take), `transfer` | `Keephand`, `KeephandSupply`, `KeephandTx` |
| award contract, `contracts/award` | tables `nodeinfo` (name, pubkey) and `deposit` (nodepubkey, score, cpu, disk, net) | `createacnt`, `deleteacnt`, `moddeposit`, `hello`, `issue` | `Award` |
| name tools, `tools/name` | none | `string_to_name`, `name_to_string` | `Names`, `NameCodec` |
| snapshot loader, `tools/snapshoot` | map of users by ulord address, set of refused lines; the chain it pays into, `error.csv` | parse, create and pay every account, append `error.csv` | `Snapshot` |
| rename tool, `tools/modifyname_go` | a directory tree on disk | replace eos/EOS/Eos in contents, then in names | `Rename` |
| key generator, `tools/uoskey/main.cpp` with fc's key texts and base 58 | none | seed, hash, key pair, two texts | `KeyText` |
| fc's `http_client`, under `tools/uoskey/fc` | connection cache, unix URL cache, event loop, timer | `post_sync` | `HttpClient` |
| fc's `message_buffer`, same place | chain of blocks, read and write pointer, count | grow, write, read, skip, peek, reset | `MessageBuffer`, `ByteQueue` |
| symbol tool, `tools/string_to_symbol` | none | one constant evaluated, result unused | no |
| rest of fc | | third-party library | no: vendored |

**How they interact.** The contracts are called by the chain, one action at a
time, inside a transaction that is undone as a whole when an assertion, an
authority check or a table call fails. They read and write tables through
`eosio::multi_index`; the library is not in the repository and is modelled from
its use (`MultiIndex`). A handler may open several `multi_index` objects on the
same table, and `transfer` depends on that: it holds iterators from one while
`funds_option` writes through others. The award contract joins its two tables
by `string_to_name(pubkey)`, the function the tool `stringToName` repeats:
`Names` models it, `Award` takes the code as an arbitrary function, and the
instance checked takes the one of `Names`. The snapshot loader talks to a chain
through `cleos` commands whose results it drops, and to its own later runs
through `error.csv` and the chain. The rename tool has only the disk, and what
an interrupted run left there. In fc, `post_sync` runs each blocking operation as
an asynchronous one in an event loop next to a timer; a message buffer is shared
by the code that reads it and an asynchronous read that fills it.

**What is hard in this code.** The hazards are listed with their lines in
`PROJECT.json`:

- contracts: amounts that are C++ doubles chosen by the caller (NaN, infinities,
  rounding, a check computed one way and a debit another); rows that coincide
  together with iterators read before a write; several writes per action with
  assertions between them; long sequences of registrations that must keep two
  tables joined, one of them by a code that is not injective;
- loader and rename tool: reruns after a stop, calls whose results are ignored,
  a counter that wraps, colliding names, a file truncated and never written,
  a map that is ranged over in any order;
- http client: a deadline that races a result, a cancellation that ends one
  system call of many, handlers that outlive their frame, an answer that comes
  after its caller has given up, on a connection that is cached;
- message buffer: pointers that move while an index or memory is handed out.

## Modules

    MultiIndex ----+--> Keephand --> KeephandSupply --> MCKeephand
    Doubles -------+      ^            \
    (Binary: TLC only)    |             +--> KeephandProofs
                          |
                KeephandTx (extends and refines Keephand) --> MCKeephandTx
                          +--> KeephandTxProofs  (with KeephandProofs)
    MultiIndex -----> Award --> MCAward <-- Names
                        +-----> AwardProofs
    Numerals --> Names --> NameCodec --+--> Tools --> MCTools, ToolsProofs
        +------> KeyText --------------+
    Snapshot --> MCSnapshot, SnapshotProofs
    HttpClient --> MCHttpClient, HttpClientProofs
    Rename --> MCRename, RenameProofs
    MessageBuffer (refines ByteQueue) --> MCMessageBuffer, MessageBufferProofs

- **`MultiIndex`**: a table is a function from primary keys to rows; emplace,
  modify and erase are operators on it. Where the library would fail (emplace of
  a key in use, modify of a missing row) the caller's guard says so.
- **`Doubles`**: IEEE 754 arithmetic over integers that count quanta (the least
  positive double). `Round` is a constant: any monotone function from exact
  results to doubles that maps zero to zero. Results are counted in `FeeDen`-ths
  of a quantum so that the same function rounds `funds * fee_rate`. Infinities
  and NaN behave as in C++: every comparison with NaN is false. `fee_rate` is
  the exact 1/`FeeDen`; the code's is the double nearest to 0.01, so a fee can
  differ from the model's in its last bit, which no property depends on. Zero
  has one sign, since no comparison tells the two apart.
- **`Binary`**: round to nearest, ties to even, for a given number of
  significant bits. Only TLC's instances use it.
- **`Keephand`**: the contract with one action per operation, each a committed
  transaction. `modasset` is `Save` and `Take` by its flag. `Take` rewrites the
  contract's row and then the account's, in the code's order; `Transfer` chains
  `Debit`, `Credit`, `Credit`, each on the table the one before has written, as
  `funds_option` does with its fresh `multi_index`. `receipt` is the chain's
  record of the last action and who signed it; the contract does not read it.
- **`KeephandSupply`**: properties about the sum of balances and about fees.
- **`KeephandTx`**: the same handlers one table write at a time inside an undo
  session, with `Keephand`'s constants, tables, guards and fees: `Start` opens it, every step writes the live tables, the last one
  keeps the session, `Abort` undoes it. An abort may strike at any step, because
  the chain may also stop a transaction for its resource limits. The refinement
  mapping shows `Keephand` the tables as last committed.
- **`Award`**: `deposit` is keyed by the code; the secondary indexes on name and
  pubkey are expressed by `DOMAIN node` and `Registered`. A report (score, cpu,
  disk, net) is one value. `moddeposit` may find any of the nodes under a code;
  that there is at most one is a property.
- **`Numerals`**: the digits of a number in a base, the value of a sequence of
  digits, and shift and `|` on unsigned integers. These loops are recursive
  functions rather than recursive operators, because those cannot be proved about.
- **`Names`, `NameCodec`**: both conversions with their shifts and masks, and the
  two tools that run them. `Long` is the number of five-bit symbols, 12 in the
  code. Characters are ASCII codes.
- **`KeyText`**: base 58 with its leading zeros, blanks and sign byte, the wallet
  import format, the prefixed public key, and the two readers. `Base` and `Digits`
  are 256 and 58 in the code; the hashes and the curve are constant operators, of
  which `KeyTextConsts` says only that they give as many bytes as asked for.
- **`Tools`**: one process runs one of the text tools; it exists so that one run
  of TLC covers them.
- **`Snapshot`**: `ReadLine` is `parse` and `checkinfo` for one line and
  `Terminate` its way out by an exception, with the `int8_t` counter wrapping at
  `CounterMax`; `Create` and `Transfer` are the two `system()` calls per user, each of which the chain may
  execute, refuse, or never see; `Stop` kills the loader, and a new run starts
  from the file. `owner` and `ledger` are the chain, `errfile` is `error.csv`.
- **`Rename`**: a tree maps paths to nodes. `ReadFile`, `Truncate` and `WriteFile`
  are the steps between which a stop shows; a write that fails or is stopped leaves
  any beginning of the text (`CutShort`), from nothing to all of it; `ModifyName` is one turn of the name
  loop with `os.Rename`'s outcomes (replace, refuse, not there); `Walk` gives the
  paths in the order of `filepath.Walk`. `lost` records files cut short, for the
  properties. `Stop` is the end of the process, not of the machine.
- **`HttpClient`**: the body of `sync_do_with_deadline` is `LoopBody`, shared by one
  action per kind of handler; `ready` is the io_context's queue. Each stage of a
  call (`resolve`, `connect`, `handshake`, `write`, `read`) starts with `Begin` and
  ends when the loop runs dry. The handler of a composed operation makes the next
  system call (`RunPartial`), which waits or is over at once; then cancelling it
  comes too late. A connection is where it leads and the requests on
  it whose answers were not read.
- **`MessageBuffer`**: the chain as a sequence of blocks with identities, the two
  indices, the count; member functions are operators on that record, the actions
  are the calls. `ByteQueue` is what they promise.

Definitions whose comment starts with "Mutant" are slips a bug could make
(a dropped guard, a stale read, an off-by-one). No specification uses them;
`PROJECT.json` pairs each property with one that breaks it.

## Runs

| run | module, cfg | question | bounds |
|---|---|---|---|
| float | `MCKeephand`, `Keephand_float.cfg` | do balances stay valid, the tables agree, debits need a signature, whatever the doubles; and is money conserved while no sum rounds | contract and two users; three significant bits, largest double 16, so sums round and overflow; amounts from -1 to 12, Inf, NaN; sums up to `Dense` = 7 do not round |
| fees | `Keephand_fees.cfg` | do collected fees stay (they do not) | amounts that need no rounding |
| minimum | `Keephand_minimum.cfg` | does a withdrawal reach fee_min (it need not) | amounts below and above `FeeMin` |
| steps | `MCKeephandTx`, `KeephandTx_steps.cfg` | are the handlers atomic | three accounts, one key, amounts 1 and 2, largest double 4; about 160 000 states |
| award | `MCAward`, `Award_tables.cfg` | does the join by code hold | contract and three nodes, four keys of which two differ in capital letters and high digits only and so share a code, and one has the code of the empty string, two reports; about 10 000 states |
| award_keys | `Award_keys.cfg` | is an unregistered key refused (it is not) | as award |
| tools | `MCTools`, `Tools_all.cfg` | are the conversions inverse where they can be; are printed keys read back | two symbols and the short last one (14 bits): all 16 384 names, and all strings of up to four characters over nine at the edges of the symbol classes; all keys of two bytes of three bits, one byte of checksum, base 5 |
| snapshot | `MCSnapshot`, `Snapshot_runs.cfg` | what is paid, what is refused, over stops and reruns | seven snapshots with duplicates, short, refused and over-long lines, a CR and a bad escape; three runs; about 14 000 states |
| rename | `MCRename`, `Rename_runs.cfg` | what do finished, stopped and repeated runs leave | four trees (nested, colliding, with links, with a root that changes), every order of the three replacements, three runs, writes cut short anywhere; about 98 000 states |
| http | `MCHttpClient`, `HttpClient_calls.cfg` | does each call get its own answer, from the right place, and return | four calls over five URLs, a peer that is slow, silent or closes at any point; about 70 000 states |
| https | `HttpClient_https.cfg` | do https URLs that share a key share an endpoint (they do not) | two URLs |
| buffer | `MCMessageBuffer`, `MessageBuffer_chain.cfg` | is the buffer a queue, and the chain sound | blocks of two bytes, up to three blocks asked for and four reached, arrivals of 1, 2 and 5 bytes, limit of reset three; about 63 000 states |

Three accounts are enough for every coincidence of sender, receiver and contract
and for a bystander; a fourth party plays no part in any handler. All contract
state spaces are finite without a constraint, because a sum past the largest
double is infinity. The two users are symmetric (`SYMMETRY`; no liveness is
checked there). The number formats are small so that rounding, ties, overflow and
NaN are reached within a few actions. `SenderNeverGains` is about rounding to
nearest: a merely monotone `Round` may violate it. The sum of balances drifts where
operations round, so `TransferConserves` and `OnlySavingMints` look at the steps
where it is `Small`, at most `Dense` quanta, and no sum or difference is rounded;
fees may be.

Signatures are single, or in `KeephandTx` the contract's or all users': no
handler needs two, so a larger set enables nothing more.

Three runs of the loader and of the rename tool are one that is stopped, one that
starts from what it left and is stopped as well, and one that finishes. Four calls
of `post_sync` are enough for a kept connection to be used, given up and made
anew. In `MessageBuffer` the caller keeps the two rules the header states or
implies: it asks for no more than there is, and while memory is handed out it does
not read the last byte, since that would reset the write pointer.

**Fairness.** The contracts and the buffer have none: nothing obliges anybody to
send an action, and each handler runs to its end or is undone. `Snapshot` has
`WF(Step)`: a started loader runs on, but it may be stopped at any time, and
`error.csv` may not open, so `RefusedIsSaved` allows for both. `HttpClient` has weak fairness of the calling
thread, of time and the timer, and of the end of a lookup and of a connect,
which the resolver and TCP give up on their own; it has none of a peer that is
connected, which is the point of a deadline. Strong fairness of `RunLast` says that
a handshake, a write or a read does not consist of system calls that all succeed
without end: a request is a finite string, and Beast's parser, which is outside the
repository, ends a response by its limits. Without it a peer that never stops
sending would keep each next read from being cancelled. `Rename` is checked for safety only:
its one liveness property (a run that is not stopped finishes) would follow from
the program being a loop over a finite list, and TLC's evaluation of its fairness
is too slow on these trees.

### What the runs show

- No balance becomes negative or NaN, whatever is passed. Infinity can be
  reached by saving; a debit that would give Inf - Inf is refused, since every
  comparison with NaN fails.
- A balance other than the contract's falls only with its owner's signature;
  a transfer conserves the sum and never enriches its sender, also when rows
  coincide.
- The handlers are atomic; the assertions that follow the first write in
  `createacnt` (the funds row is free) and `transfer` (the receiver's row is
  there) never fire. The one that does fire late is the contract's own row in
  `transfer`, and the undo of the session is what then returns the sender's debit.
- Award's two tables stay joined although codes collide, and an accepted report
  is always written.
- Every line of a snapshot is loaded or refused, as long as its fields fit the
  counter (`Fits`); one escape the tokenizer does not know stops the program
  before anybody is paid. An account is paid at most once per run and address, but
  every rerun pays again. That reruns happen is on record: `snapshoot/error.csv`
  holds the same line five times and `info.log` the same accounts twice.
- An account that only one line names belongs to that line's key when it is paid,
  although the result of `newaccount` is ignored; it needs the account to be free
  beforehand, and one line per account.
- The rename tool's reverse order keeps every recorded path valid, its result does
  not depend on Go's map order, and reruns converge to it. What can be lost is the
  end of the text of a file being rewritten when the program stops or the disk is
  full, and one of two nodes whose names become equal. What is left of such a text
  is what it should become as far as it goes, whatever runs follow. A link whose target was renamed ends a later run.
- In the http client no call works on another call's answer, a result that came
  before the timer's handler stands, the event loop leaves nothing behind, and a
  call whose deadline has come returns even when its peer falls silent inside a
  composed operation, because each further handler cancels again.
- The message buffer is a byte queue, and its consistency check never fires on a
  chain used as above; its limit on the length can, since a chain that is full
  grows by one block each time and shrinks only when read empty.
- Printed keys are read back as they were; neither kind of text is taken for the
  other, because the `O` of `UOS` is not in the base-58 alphabet.
- **Fees are lost** (`FeesAccrue`): `modasset` assigns the fee of a withdrawal to
  the contract's row where `transfer` adds it; `handkeep.md:39` says the fees are
  all kept there.
- **No minimum for withdrawals** (`TakeReachesMinimum`): `fee_min` is commented as
  the smallest funds of a withdrawal, and only `transfer` uses it. The property
  accepts either reading of the comment.
- **Unknown keys are accepted** (`OnlyKnownKeys`): `moddeposit` compares codes, not
  keys. What the report then changes is still the row of the node that signed.
- **An https URL without a port shares its connection with port 80**
  (`ReachesTheUrl` in the run https): `url_to_host_key` takes 80 for any missing
  port, while the connection is made to 443.

`handkeep.md` section 8 calls an action `queryasset` that does not exist, and
section 5 passes a `pubkey` to `deleteacnt`, which takes none; neither is a
property of a behaviour, so no run is about them.

## Proofs

Every theorem holds for arbitrary sets of accounts, names, keys, codes and
reports, every double a caller may pass and every rounding that `Doubles`
assumes (a monotone function that maps zero to zero). The assumptions are the
named ASSUMEs of the modules; TLC evaluates them on the instances.

- `KeephandProofs` begins with what both contracts' proofs need of `Doubles` and
  `MultiIndex`: results of `Add`, `Sub` and `TimesFeeRate` are doubles, a sum
  of amounts is an amount and not below either, NaN fails every comparison;
  domain, type and rows of a table after emplace, modify and erase. `IInv == TypeOK /\ TablesAgree /\ FundsValid` is inductive.
  `FundsValid` alone is not, because the arithmetic says nothing of a row that is
  no double, and neither is it without `TablesAgree`: the handlers check one table
  and write the other. Each handler is a chain of `Debit` and `Credit`, and
  `DebitTable` and `CreditTable` say when such a step keeps a table of amounts
  one. From it `TypeCorrect`, `TablesAlwaysAgree`, `FundsAlwaysValid`, and with
  `AddGrows` (adding an amount never lowers a balance, infinity included) the
  action properties `DebitAuthorised` and `FrozenWithoutOwner`. `TransfersConserve`
  and `OnlySavingsMint` are about the sum of all balances. `MapThenSumSet` is a
  recursive function on the subsets of the accounts; `SumExists` says that there is
  one, `SumSplits` that any summand may be taken out first, by induction on the size
  of a set (written out: a least counterexample). With finitely many rows (`Held`)
  it follows what rewriting, adding or dropping a row does to the total, and
  `AddSmall`, `SubSmall` and `SubTwice` say that the arithmetic of a handler is exact
  while the total is small, because a handler that was allowed to go on had enough
  to subtract. `SendersNeverGain` needs no small sums, but two facts about doubles
  that a monotone rounding need not have and rounding to nearest has: doubles are
  no closer together above a double than below it (`RoundFine`), and a fee of a
  hundredth is not swallowed when it is added to the amount (`FeeShows`).
- `KeephandTxProofs`: the handlers written step by step implement `Keephand`
  (`Atomic`). The relation is `History`: in the middle of a handler the checks it
  has made hold of the tables the session would be undone to, and the live tables
  are those plus the writes made so far; so the last write of a handler is the
  whole atomic action, every other write and every abort a stutter. `Sound` adds
  that the committed tables are tables of amounts over the same accounts, and
  gives `LateChecksAlwaysHold`: that is what makes the assertions after a write
  redundant, and without it they are not. `TxTypeCorrect` follows, too. None of
  the assumptions that the sums of `KeephandSupply` need is used here.
- `AwardProofs`: `IInv == TypeOK /\ OneDepositPerNode` for every function `Code`,
  however many keys share a code; from it `ReportsStayTheNodes` and
  `ReportAlwaysWritten`. The module has its own copies of the lemmas on tables.
- `HttpClientProofs`: `EventLoop` says how the queue of handlers, the operation,
  the timer and the locals of `sync_do_with_deadline` go together (a handler is
  queued exactly for what has ended; with a result only the timer's handler is
  waited for; an operation ends without a result only after the expiry). It is
  inductive by itself, and gives `LoopAlwaysEmpties` and `ResultAlwaysStands`.
  `Unread` says that an answer is outstanding on the connection of the call under
  way only, and gives `AlwaysAnswersItsRequest`. `ReachesTheUrl` is proved from
  `KeysTellApart`, the assumption that URLs with one host key have one endpoint;
  the run https shows that it is needed.
- `SnapshotProofs`: `Loaded` (each user of the map is what the last listed line of
  its address says, by column, as long as lines fit the counter), a ledger of such
  payments only, and `Owned`; from them `AlwaysPaysTheLine` and
  `PaidKeyAlwaysListed` for any snapshot and any number of runs. `Counted` adds the
  lines read so far: how many, which of them are in the map, which in the set of
  refused lines and under which numbers; it gives `LoadAlwaysAccountsForAll` and the
  bounds of `TypeCorrect`. Of the payments, those numbered with the current run are
  to users already handed to the chain, one each, which gives `AlwaysPaidOncePerRun`.
- `RenameProofs`: for any tree, any number of runs, and any nameMap that
  `RenamingConsts` admits: patterns and replacements of one length that differ in
  the first character only, where that character of a pattern is found in patterns
  at the start only, and that of a replacement in no pattern. `eos`, `EOS` and
  `Eos` are such, and it is why the order of the map does not matter: `Cleaning`
  says that the loop over nameMap, in any order, replaces exactly the first
  characters of all occurrences (`Cleansed`), and so changes nothing the second
  time. `Walks` says that `filepath.Walk` lists every path once and a directory
  before what is under it; it rests on the order of paths being a strict total one
  (`PathOrder`). `RenamedIs`, `ShiftedTree` and `ShiftedComes`: whatever
  `os.Rename` does, what it leaves is a tree again, each of its nodes is where it
  was first or under a name that has been cleaned, and each path there was first
  still has a node at what it becomes. The inductive `IInv` adds to this (`Comes`)
  what became of the texts (`Texts`, `Reading`; a text cut short is the beginning of
  what it should become, and `BeginningClean` says that the next run finds nothing
  to replace in it), what the content loop has passed
  (`Walking`) and which names the name loop has still to visit (`Naming`). From it
  `TypeCorrect`, `PendingPathsAlwaysExist`, `NothingElseIsEverLost`,
  `AlwaysFinishedAsDescribed`, and, for trees without links whose own name stays,
  `PlainTreesAlwaysFinish`. `RenameConsts` says what a directory on a disk is: each
  entry is in a directory, and no two are one node.
- `MessageBufferProofs`: a byte's place in the chain is one number, `Pos`, the block
  times its size plus the offset, so that the two indices can be compared, advanced
  and subtracted. `Chain` says that identities differ, blocks are full-sized, and
  the read and write pointers lie `count` apart in it; `Handed` that memory handed
  out is exactly the chain behind the write pointer, which is why the caller may
  fill it and `bytes_written` then find the bytes where it says; `Inside` that an
  index a caller keeps stays between the pointers. `read`, `peek` and `write`
  go block by block, and are followed by induction over their iterations. From
  these `TypeCorrect` and `ChainStaysSound`; and each call maps to the call of the
  same name on a queue of bytes, or to a stutter, which is `Queues`
  (`Spec => IsByteQueue`), for any size of block and any limits.

- `ToolsProofs`: a loop is a sequence of states, one per turn. `LoopExists` says
  that there is one for any turn, by induction on the number of turns written out
  (`Descent`: a set of numbers that is not empty has a least one, so no
  counterexample is left), and the recursive functions of the model are known by
  their equations from then on. On numerals: `Value` is undone by `InBase` and
  `InBase` by `Value` but for zeros in front. For the names, `OrIsSum`: where the
  bits of two numbers do not meet (`BitsApart`), `|` is `+`; so the number
  `string_to_name` returns is the positional one, which is `SymbolsApart`, and by
  `SymbolsOf` and `SymbolsBack` the symbols `name_to_string` cuts out of a number
  are those it was put together from. `CharactersApart` says that the charmap
  prints no two symbols alike, `Trimmed` what cutting the dots at the end leaves:
  together `NamesRead` and `TextsRead`, for names of any number of symbols and for
  any strings. For the keys, `DecodeEncode` says that base 58 gives back any
  bytes, zeros in front and high ones included, also with blanks around the text,
  and `DecodeRefuses` that it refuses a text whose second character is an `O`. With them each reader finds the bytes and the checksum it was printed
  from, and the reader of the other kind stops at the prefix: `KeysRead`, for any
  bases, lengths, hashes and curve that `KeyTextConsts` admits.

Only model-checked: `PostReturns` and `RefusedIsSaved`. Both say that something
comes about under weak fairness, and neither liveness nor the ENABLED it needs is
within the prover's reach.

## Not modelled

- **The rest of fc**, vendored under `tools/uoskey/fc` as source, holds 544 of the
  568 files: libsecp256k1, miniz, websocketpp, hash functions, big integers,
  variants, JSON, logging. It is third-party code, pure algorithms or wrappers of
  system calls, most of it not reached from `uoskey`. Only the parts with
  behaviour of their own (`http_client`, `message_buffer`) or that the key
  generator depends on (base 58, key texts) are modelled. Since it makes up nearly
  all of the repository's lines, the modules cover a small share of those; of the
  program's own code in `contracts` and `tools` they cover nearly everything that
  changes state.
- **Hashes and the curve** are constants of `KeyText`; so are R1 keys and the
  `PVT_` and `PUB_` forms, which `uoskey` never prints.
- **`string_to_symbol`** evaluates one constant and does not use it.
- **`modifyname_c.zip`** is an archive; its content cannot be read with the source.
- **Contracts**: prints, the remark of a transfer, secondary indexes nothing reads,
  and award's code under `DEBUG_INFO`.
- **Name tools**: `nameToString` also returns the address of a local buffer, which
  nobody reads.
- **Loader**: the total it prints and its `lexical_cast`, progress output.
- **Rename tool**: liveness (see Fairness); a machine that goes down, which may lose
  more than the file being written, since nothing is synced; a link that leads to
  another link; permissions changed between runs.
- **http client**: certificates and `set_verify_peers`, the parsing of answers, a
  URL without a host.
- **Message buffer**: `bytes_to_write`, which is never out of step with the
  pointers it is computed from, and `total_bytes`.
- **Hazards, or cases of them, without a property**, each with its reason in
  `PROJECT.json`. For these
  nothing in the repository says what should happen: `deleteacnt` drops an account
  with its funds; an account that somebody else took before the first run, or that
  two lines name, is paid; from a line's 257th field on the fields overwrite the
  first four; a link whose target was renamed, or a directory on the command line
  that was, ends the next run of the rename tool; the first call on a connection the
  server has closed fails. The models of the loader and the rename tool contain
  these cases, and `PaidKeyIsListed`, `Fits` and `Plain` leave them out. Two more are
  left to the caller of the message buffer, in the model as in the code: skipping
  more bytes than there are, and reading the buffer empty during an asynchronous
  read.

## Plan

Done: the contracts, their refinement and their proofs; the text tools and keys;
the loader and the rename tool; `http_client` and `message_buffer`; proofs of the
safety properties of all of them.

What could follow: more of fc where it keeps state between calls.

# TLA+ models of noms-cpp

noms-cpp (namespace `nomp`) is a C++ port of parts of the noms database: content-addressed chunks,
stores of chunks with one mutable root, and the table files of the noms block store. The whole
program lives in memory; nothing is written to disk, so there is no crash to recover from. What is
hard in it is concurrency (the stores and the channel are meant to be shared by threads), failure
half way through an operation, and the arithmetic and layout of the table format.

Paths below are relative to `src/src/` of the repository.

## 1. Inventory

| Component | State it keeps | Operations | What is hard | What makes it correct |
|---|---|---|---|---|
| `MemoryStore` (`chunks/memory_store.h`) | map of chunks, root, mutex | `get`, `has`, `root`, `update` | shared by all views; `update` compares, inserts one by one, moves the root | the root moves only from the expected one, after its chunks are in; all or nothing |
| `MemoryStoreView` (same file; interface `ChunkStore` in `chunks/chunk_store.h`) | its own idea of the root, pending chunks, mutex, reference to the store | `has`, `absent`, `get`, `getMany`, `put`, `rebase`, `root`, `commit` | view mutex held while the store's is taken; `absent` calls `has`; `getMany` locks per hash | reads its own writes; no lost update; a rejected commit has met a conflict; every call returns |
| `MemoryStoreFactory` (same file) | path → store, mutex | `createStore`, `shutdown` | two threads, one path; views outlive stores | one store per path |
| `Channel<T>` (`channel.h`) | queue, closed flag, mutex, condition variable | `send`, `receive`, `close` | wakeups stolen, spurious or lost; close with waiters; a copy that throws | FIFO, once each; no value left beside a waiting receiver; close releases all |
| `MemTable` (`nbs/mem_table.*`) | address → slice, insertion order, byte count and limit | `addChunk`, `has(Many)`, `get(Many)`, `extract` | limit arithmetic; two records of one set; shared buffers | table, order and count agree; within the limit; first writer wins |
| `TableWriter` (`nbs/table_writer.*`) | buffer and position, totals, index records, hasher | `addChunk`, `finish` | sorted prefixes beside unsorted columns; size of the buffer; 32-bit offsets; use after `finish` | a reader finds every chunk by its address; the buffer always suffices |
| `RawChunkReader`, table constants (`nbs/table.h`) | none | interface | – | – |
| `Chunk` (`chunks/chunk.h`) | slice and hash | construction, with a computed or a claimed hash; copy, move, `==` | copies share the bytes; the hash may be claimed | a chunk goes by the hash of its bytes; equal exactly when the hashes are |
| `Chunk` serialization, `ChunkWriter` (`chunks/chunk.*`) | a growing buffer | `serialize`, `deserialize`, `write`, `getChunk` | readers and writers passed by value; short reads and writes | what is written is read back; a cut stream is an error |
| `ByteSlice` (`slice/slice.h`) | shared buffer, offset, size | copy, move, sub-slice, edit, compare, concatenate | aliasing; moved-from slices; offsets in comparison | comparison by content; edits seen by exactly the sharing slices |
| `Hash`, `Hasher` (`hash/*`) | owned 20-byte array; SHA-512 context | copy, move, order, base32, `prefix` | moved-from hashes; signed and unsigned order; invalid characters | each array owned once; codec is a bijection; the two orders agree |
| `BigEndian`, `crc32` (`binary/*`) | none | pure functions | boundaries of width | inverse of each other |
| LZ4 wrappers (`compression/*`) | none | compress, decompress | sizes cut to `int` | wrapper refuses what does not fit |
| `proxy`, its pointers (`include/proxy.h`, vendored) | an object in place, or in storage of its own or shared, with counts | construct, copy, move, assign, swap, emplace; lock a weak pointer | constructors that throw half way; counts changed by several threads | each object has one owner and is destroyed once, after its last use |
| Facades (`common.h`), `nomp.cpp` | none | – | – | – |

Interactions. A factory vends views; views call their store with their own mutex held (view, then
store: always in that order). Views hand chunks (a `ByteSlice` and a `Hash`) to the store by value,
so buffers are shared. Every interface
is a `proxy`, handed on by value: what a copy of a proxy shares depends on the pointer in it.
`TableWriter` uses the compressor, `BigEndian`, `crc32` and `Hasher`;
`MemTable::extract` yields what a `TableWriter` takes, though no code in the repository connects the
two yet. `Channel` is used by nothing yet.

`PROJECT.json` lists the hazards at their lines, with the properties that are about them.

## 2. Modules

| Module | Contents | Beside it |
|---|---|---|
| `MemoryStore` | the store and its views, called by several threads | `MemoryStoreProps`, `MemoryStoreProofs`, `MCMemoryStore` |
| `RootedStore` | what a chunk store promises, each operation one step; `MemoryStore` implements it | |
| `MemoryStoreFactory` | `createStore` by several threads, among commits | `FactoryProofs`, `MCStores` |
| `Channel` | the channel with its condition variable | `ChannelProps`, `ChannelProofs`, `MCChannel` |
| `AbstractChannel` | what a channel promises; `Channel` implements it | |
| `MemTable` | the in-memory tables, and requests to a chain of them | `MemTableProps` |
| `ByteSlice` | slices that share buffers | |
| `Chunk` | chunks over shared buffers | |
| `Chunks` | the three above, of the same addresses | `ChunksProofs`, `MCChunks` |
| `TableWriter` | one table from the constructor to the end of `finish` | `TableWriterProps`, `TableWriterProofs` |
| `Lz4`, `Compression` | the LZ4 library by its sizes; the wrappers | |
| `ChunkStream` | chunks serialized to a stream and read back | |
| `Base32` | `encode32`, `decode32`, `MaybeParse` | |
| `BigEndian`, `Crc32` | the numbers of the formats, and the checksum | |
| `Formats` | `TableWriter`, `Compression` and the four above, the first two with the same library | `FormatsProofs`, `MCFormats` |
| `CompactPtr` | the counted pointers behind shared proxies | `CompactPtrProofs`, `MCOwners` |
| `Proxy` | the life of proxies | |
| `Hash` | who owns the bytes of a hash; `operator<` | |
| `Owners` | `Proxy` and `Hash` | `OwnersProofs`, `MCOwners` |

In each, the `VARIABLES` are the members of the classes, under their names, and "history" marks what
only the properties use. `...Props` holds the properties and the inductive invariant, `...Proofs` the
TLAPS proofs, `MC...` and its `.cfg` files the instances for TLC.

Components that share no state and are small are put beside one another: `Chunks`, `Formats` and
`Owners` instantiate them with parameters of their own, and put together, for each, the properties its
module defines. The proofs are about these instances, for all values of the parameters; `MCStores`,
`MCChunks`, `MCFormats` and `MCOwners` give the parameters values for one run. There, `part` is chosen at
the start and says which component the behaviour is of; the others stay as they were at the start. So
the states of such a run are the sum of those of its parts, and each part is checked exactly as it
would be alone.

An operator under a comment that starts with "Mutation" is a wrong version of the definition that
follows it; no specification uses it, and each shows that some property notices the mistake.

### MemoryStore

`store`, `rootHash`, `open`, `currentRoot` and `pending` are the fields of the two classes (a map is
a function to chunks or `NoChunk`); `storeMtx` and `viewMtx` are the owners of the mutexes. `call[t]`
is the method thread `t` is in: a point in it (`pc`), the view, and the locals that live across a
step. A stretch of code is one action when no other thread can see its middle:

| Code | Actions |
|---|---|
| constructor, destructor of a view | `Open`, `Close` (no method may be running: `chunk_store.h`:63-66) |
| `put` | `Put`: one step with the view's mutex |
| `rebase` | `Rebase` (take the view's mutex), `StorageRoot` |
| `get`, `has`, `getMany` | `Read`, then per hash `ReadPending`, or `ReadMiss` and `StorageGet`; `ReadReturn` |
| `commit` | `Commit`, then `update`: `UpdateAccepts` or `UpdateRejects`; `Insert` per chunk; `SetRoot`; then `Finish` |
| an exception in the insertion loop | `InsertThrows`, which unwinds both mutexes (constant `AllocFails`) |
| `absent` | `Absent`, `AbsentThrows` |

Choices worth knowing:

* `get` and `has` are reads of one hash: they look in the same places in the same order.
* A commit whose `last` is not the view's root returns false and changes nothing, as does `absent`
  of no hashes: both are stuttering steps. `root()`, `version()`, `close()` change nothing.
* `absent` locks a `std::mutex` its thread holds. That is undefined; the outcomes modelled are
  blocking for ever and throwing `std::system_error`.
* An insertion can throw only at a key that is not in the map yet, and then leaves the map as it
  was: the assignment that follows `operator[]` does not allocate. An allocation that fails anywhere
  else (`put`, the collecting vector of `getMany`) changes nothing.
* `HashOf` is `Chunk::hash()`; chunks made with an explicit hash need not have one each, so `HashOf`
  need not be injective.

`written`, `promised` and `since` are history variables: what was put through a view, what was
pending in successful commits, the store's roots since a view last took its root from the store.

### Channel

Only `wait` blocks while it holds the mutex, and it gives the mutex up; so every critical section is
one action, and `at[t]` says whether a thread is outside `receive`, about to take the mutex and test
the predicate (`ready`), or in the condition variable's wait set. `notify_one` makes any one waiter
ready, `SpuriousWakeup` any waiter at any time. `CopyThrows` is the element's copy constructor
throwing in `T value = queue.front()`: the value stays, the thread leaves. `send` and `close` are
atomic; a `send` whose push throws changes nothing.

### RootedStore

The store as those who write to it see it: `root`, `stored`, and for each view the root it believes
in (`base`) and the addresses it has yet to commit (`novel`). `MemoryStoreProps` maps `MemoryStore` to
it: what a commit in progress has inserted counts as stored only from the step that moves the root
(or ends the commit, when there is no root to move), so that steps inside a commit are stutters.

### MemoryStoreFactory

`createStore` is `CreateStore` and `Enter` (take the factory's mutex), `Find` in the map or the
construction of a store (`MakeShared`) and its insertion (`Insert`), and the construction of a view,
which reads the store's root under the store's mutex (`ReadRoot`, `MakeProxy`). `CreateThrows` and `NewViewThrows` are allocations that fail there. `Commit` moves the
root of a store meanwhile. `shutdown` does nothing. `storeRoot` and `storesMtx` are the root and the
mutex of each `MemoryStore`, `factoryCall` the call a thread is in.

### MemTable

`addChunk` is `AddNew` (count, map, order), or `AddAgain` of an address that is there; a refusal and an
empty slice change nothing. `MapThrows` and `OrderThrows` are exceptions after the count and after the
map, in the tables of the constant `Failing`. `order` keeps the addresses alone: the rest of its records follows from
them. `request` is the vector of records a caller shows to one table after the other: `Ask` starts
one, `HasMany` and `GetMany` are the calls. The count is kept modulo `Word` (2^64), the limit is an
`int` that the comparison takes as unsigned.

### TableWriter, Lz4, Compression

The buffer is a function on the positions written, and a byte is the value it is part of with its
place in it: a field that is read where it was not written is not found, and overlapping writes show.
`AddChunk` compresses, writes and records. `finish` is `Sort` (any order that sorts the prefixes), the
two loops of `writeIndex`, `WriteRecord` and `WriteOffset`, and `WriteFooter`. Integers are cut to their width. Nothing
keeps a position within the buffer but the checks the code makes, so that a write beyond it is
something a property can notice.

The library is external: `LZ4_compressBound` is its documented formula, n + n/255 + 16, and the
compressed length may be any of `Outputs` that fits, none longer than n + n/255 + `Overhead`. `Compression` follows one
source through the four wrappers with the casts to `int` that they make.

### Chunk, ChunkStream, ByteSlice, Hash

`Chunk`, `ByteSlice` and `Hash` have variables that hold values (`Slots`, `Hashes`) and the memory
they refer to (`heap`, `buffers`, `content`), and one action per constructor, assignment or method that changes
something.

No constructor of a slice and no cut checks anything. `Wrap` is the constructors that share a buffer of the
caller's (`slice/slice.h`:17 and 18), who keeps it (`lent`) and may write to it (`EditLent`) or make another
slice of it; any offset and length may be given, to `SubSlice` as well. The properties are of the slices in
`within`: those whose windows callers have kept within the buffer, or within the slice they are cut from.
What is read beyond the end of a buffer may be anything (`Reads`), and a write there may hit any byte. `kin`
is the family of a slice: the buffer it was made for, by itself or by the slice it comes from. A slice that
was moved from keeps its size without a buffer, and belongs to `within` no more until it is assigned to.

To copy a `Hash` that was moved from, or to assign a copy to one, is to go through a null pointer: the program
is `down`, and nothing happens after. (`chunks/chunk.h`:34 gets there when a chunk that was moved from is
assigned to; `Chunk` leaves these calls out.) Chunks themselves are moved from and assigned to by moves.

`ChunkStream` has a writer and a reader, each in a proxy whose copies share it (`SharedWriter`,
`SharedReader`) or not, and which may do less than asked (`Shortfalls`, `ShortReads`). `Serialize`
and `Deserialize` are whole calls, with their exceptions; `GetChunk` takes what there is; `Open` reads
from what was taken, or from a part of it, also when the last `Serialize` has thrown half way through a chunk.
`short` remembers whether a write fell short that the code notices (the data) or one it does not.

### Base32, BigEndian, Crc32

Pure functions, as functions on sequences of numbers (or, in `Crc32`, words as sets of bits), against
references that are not written the way the code is: the bits of the string for `encode32`, the bytes'
order for `BigEndian`, the division of polynomials for `crc32`.

### Proxy, CompactPtr

`Proxy` keeps the memory in one record, `mem`, and writes every operation as a composition of the
steps the header makes (destroy, construct over, forget), so that what a step leaves when the next one
throws is what the code leaves. An object is in place (`inplace_ptr`) or in storage of its own
(`compact_ptr`). One in place may throw when it is moved, where the facade has it so (`MoveThrows`):
`Compresser` and `Decompresser` do (`compression/compression.h`:11 and 21). The source has lost its
pointer then all the same (`meta_ptr_reset_guard`, `MoveFails`), and the new proxy holds nothing; `CopyAssign`,
`MoveAssign`, `AssignPointer` and `SwapThrows` say what that means where a proxy was constructed over another.

`CompactPtr` is the counted pointers, an atomic operation per step: a copy increments, a destructor
decrements and, at zero, destroys the object, then gives up the weak count the strong ones share, then
deallocates; a lock reads the strong count and tries to replace it by one more. With `Weak = FALSE` it
is the shared pointer of facades without weak ownership, with one count. Atomics are sequentially
consistent here.

## 3. Runs

| Run | Bounds | Shows |
|---|---|---|
| `store_writers` | 2 threads, 2 views, 2 chunks, 3 roots; `put`, `rebase`, `commit`; insertions may throw | `ReadYourWrites`, `Durable`, `FailureMeansConflict`, `NoLostUpdate`, and `IInv` itself |
| `store_readers` | 2 threads, 1 view, 2 chunks, 3 roots; `put`, `commit`, reads of one and two hashes, `absent` | `GetManyConsistent`, `TypeOK` |
| `store_atomic` | as `store_writers`, no exceptions | `NothingUncommitted`; `ImplementsRootedStore`: commits take effect at once or not at all |
| `store_liveness` | the store: 2 threads, 2 views, 1 chunk, 2 roots; or the factory: 2 threads, 2 paths, 2 stores, 2 views, 2 roots; allocations may fail | `CallsReturn`, `CreateReturns`, `EachPathHasItsStore`, `NewViewIsCurrent` |
| `store_root` | | violation: `root()` after a rejected commit is no root the store has had |
| `store_absent` | | violation: `absent` may never return |
| `store_throw` | | violation: a commit that throws leaves some of its chunks in the store |
| `channel` | 3 receivers, 2 values, 3 sends | `ChannelInv`, `CloseReleases`, and that the channel implements `AbstractChannel` with its fairness (`ImplementsChannel`) |
| `channel_copies` | the same, copies may throw | the safety part of the refinement, `KeepsOrder` |
| `formats` | see below | `BufferSuffices`, `EveryChunkIsFound`, `NothingElseIsFound`, `CompressionIsLossless`, `StreamsKeepChunks`, `StringsStandForHashes`, `NumbersComeBack`, `SumsNoticeErrors` |
| `chunks` | see below | `CountsWithinLimit`, `NeverInconsistent`, `ExtractsAccepted`, `ChainIsHonest`, `AnswersStand`, `SlicesKeepTheirBytes`, `SlicesActAsBytes`, `ChunksGoByTheirHash` |
| `owners` | see below | `StrongIsAlive`, `StorageOutlastsUse`, `NothingLeaks`, `NeverRevived`, `ProxiesOwnTheirObjects`, `WorthWhatItWasGiven`, `HashesAreValues` |

The parts of the last three, and their bounds:

| Run | Part | Bounds |
|---|---|---|
| `formats` | `TableWriter` | 2 chunks of 511 bytes declared, up to 3 of 1, 255 or 256 bytes added, compressed best or worst; addresses that share a prefix or a suffix |
| | `Compression` | an `int` of 4000 values, of which LZ4 takes up to 600; sizes around every boundary |
| | `ChunkStream` | 2 chunks of 0, 2 or 5 bytes; shared streams, writes that are whole or one byte short (`Shortfalls`), short reads, any cut |
| | `Base32` | 1268 buffers of 5, 10 and 1 bytes (`Inputs`), with one error in the string (`Typos`) or none; hashes of 5 bytes (`HashLen`), where the code has 20 |
| | `BigEndian` | `Widths` of 1, 2 and 4 bytes, a byte of 3 values, up to 5 bytes (`MaxWritten`), a writer with room for 4 (`WriterSpace`) |
| | `Crc32` | up to 5 bytes (`MaxSent`) of 2 (`SentBytes`), one of 3 `Errors` in each |
| `chunks` | `MemTable` | 2 tables with room for 3 and 2 bytes, the second of which may throw; 3 addresses, slices of 0 to 2 bytes |
| | `ByteSlice` | 2 slices, 2 buffers (`MaxHeap`) of 2 bytes or, joined, up to 4 (`MaxBytes`); windows from the first two bytes (`MaxOffset`), asked to be empty, whole or too long (`Lengths`) |
| | `Chunk` | 3 chunks, 3 buffers, 2 contents |
| `owners` | `CompactPtr` | 4 pointers, strong and weak; or 4 of the kind without weak ones (`Shared`) |
| | `Proxy` | 3 proxies, 5 objects, 2 values; constructors and, in place, moves may throw |
| | `Hash` | 3 hashes of 2 bytes, 4 arrays |

Why the bounds are enough: two threads and two views give each kind of interference there is, in one
view (its mutex) and between views (the store's); a third view would meet the store exactly as the
second does. Two chunks are the fewest for a loop or a `getMany` that is interrupted half way, three
roots the fewest for a conflict, and a root committed back to an earlier value, to be told apart
(`Roots`, the new roots committed, has two of them: one to leave and come back to by way of the
other). `Calls` are the methods the threads call in a run, `Requests` the sets of hashes they read. A
channel needs three receivers for a wakeup to be stolen by one while another goes on waiting, and
three sends to outnumber the awake. Three addresses are the fewest with two of one prefix and two of
one suffix; two chunks declared with an odd sum are the fewest with an average that is rounded down,
and 255 and 256 bytes are on either side of where the bound of LZ4 grows. Four pointers
are two locks racing one last strong pointer, with one weak pointer to lock. Three proxies are two to
swap and one that nothing may happen to. Two slices are one edited and one that shares its buffer, or
does not; an offset of 0 or 1 and a length of 0 or 2 in a buffer of two bytes make windows that are empty, whole,
a half, and over the end by one. A write that is one byte short is as incomplete as any. The widths are small and the boundaries all there: an `int` of 4000 values has its sign and
its wrap (sizes go up to twice its word), a byte of two values a negative half. `crc32` is at its real width. The proofs remove the bounds
from the safety properties of the modules that have them.

Threads and views are interchangeable in the runs of the store's safety properties, slots in `chunks` and
pointers and arrays in `owners`: symmetry is used there, where all properties are invariants or about
single steps. It is not in the runs of liveness and of refinement.

Deadlock is checked in `store_writers`, `store_atomic`, `store_root`, `store_throw`, `channel` and
`channel_copies`, where somebody may have to wait and somebody else must always be able to go on. It
is not in `store_readers` and `store_absent`: these have threads that call `absent`, and such a thread
may indeed stop for good; `store_absent` is about just that. Nor in `store_liveness`, whose properties
say more: a state in which all threads wait in calls violates `CallsReturn` or `CreateReturns`. The
other runs have sequential parts that come to an end: a table is finished, a stream is read, a string
is parsed, all pointers are gone, or a bound on buffers or bytes is reached.

Fairness. `MemoryStore!FairSpec` is weak fairness of each thread's `Progress`: a thread that can
take its next step inside a method takes it. It makes no call happen (`NewCall` is not in it) and
assumes no fair mutex: weak fairness gives a thread nothing while others keep taking the mutex away.
That is why `CallsReturn` speaks of behaviours in which new calls stop. `Channel!FairSpec` is weaker
still: some thread that wants the mutex gets it. It suffices for the abstract channel's promise that
while there is a value or an end to be had some receiver comes to have it, and, when no receiver
calls any more, for `CloseReleases`. `MemoryStoreFactory!FairSpec` is that of the stores: each
thread's `Progress` through a call it has begun, and no fair mutex; so `CreateReturns` too speaks of
behaviours in which new calls stop. `MCStores!MCFairSpec` states both. The rest is sequential, or (`CompactPtr`) made of operations that
never wait, and has no liveness to check.

## 4. Divergences from the documentation

The first three are shown by the runs `store_root`, `store_absent` and `store_throw`. The others came
up while modelling, and are part of the models: the properties say what holds in spite of them.

1. `commit` sets `currentRoot = newRoot` even when the store rejects the update
   (`chunks/memory_store.h`:133), while `chunk_store.h`:45 has `Root` return the root as of opening
   or the last rebase. The view then holds a root that was never the store's, and all its commits
   fail until it rebases. (A successful commit moves the view's root as well, which the property
   allows.)
2. `absent` calls `has` under the mutex `has` takes (`chunks/memory_store.h`:85).
3. `update` is not atomic if an insertion throws (`chunks/memory_store.h`:55), while
   `chunk_store.h`:48 says commit persists "atomically". Nothing becomes unreadable: pending keeps
   all its chunks, and `ReadYourWrites` and `Durable` are checked with such exceptions.
4. Not a divergence, but worth knowing: when the element's copy constructor throws in `receive`, the
   wakeup is spent, and a receiver may wait beside a queued value until the next `send`. `ChannelInv`
   and `ImplementsChannel` therefore assume copies that do not throw.
5. An addition to a `MemTable` that throws after the map has changed (`nbs/mem_table.cpp`:25) leaves a
   chunk that `has` and `get` find, that a second `addChunk` accepts, and that `extract` omits, while
   `nbs/table.h`:71 has it return the chunks. So `ExtractsAccepted` and `CountIsExact` are of the tables
   not in `Failing`; with them it takes one exception and a repeated addition to violate either.
6. `MaxChunkSize` is 4 GB (`nbs/table.h`:23); LZ4 takes less than 2 GB, and `compress` throws above
   (`compression/compression.cpp`:20). Nothing is cut short, though: `Compression!RoundTrip` holds of
   such sizes too.
7. `deserialize` and `serialize` hand their stream on by value (`chunks/chunk.cpp`:41,
   `chunks/chunk.h`:54). With a proxy whose copies share the stream all is well; with the proxy of
   `make_proxy` that `chunks/chunk.cpp`:7 has in mind, a chunk is read with its length as data, and a
   `ChunkWriter` stays empty. `StreamsKeepChunks` is of the former, `SharedReader` and `SharedWriter`.
8. `serialize` looks at the result of its last write only (`chunks/chunk.cpp`:23 and 25): a writer that takes
   a part of the hash or of the length goes unnoticed, and what is read back from there on need not be
   what was written. `RoundTrip` and `EndIsNoticed` exempt such streams (`short = "header"`), and only such:
   where it is the data that fell short, `serialize` throws and the chunks before are safe.
9. `ByteSlice` compares (`slice/slice.h`:52) and joins (line 63) from the start of the buffers, not
   from the offsets, against what its own tests expect of `==` and `+`. `ComparesBytes` and `ConcatsBytes`
   are therefore about slices that start where their buffers do (`FromStart`).
   In the same class, no bound is checked anywhere: a window may be made or cut beyond its buffer (lines 17, 18,
   88 to 92) and read or written there. The properties are of windows that callers keep within (`within`).
10. `Hash::operator<` compares signed chars (`hash/hash.h`:123), against `prefix()` and the order of
    the strings that `hash/hash_test.cc`:217 expects. It is a total order nevertheless (`LessIsAnOrder`,
    with a byte above the sign).
11. `decode32` takes ten characters that are not of the alphabet for digits (`hash/hash.cpp`:33);
    `Parse` rejects them before (`ParsesHashes`).
12. `hasMany` and `getMany` answer "true if any is absent in the reader" (`nbs/table.h`:56 and 62). Read
    literally that differs from the code: a record that is marked as found already is skipped
    (`nbs/mem_table.h`:32 and 55), so a table that lacks its address still answers false. The answer is about
    the records that are left, and `ChainIsHonest` says of the last table of a chain that
    it tells whether any is absent from all of them.
13. Not divergences, no text promises otherwise: a move assignment of a `Hash` leaks the array it had
    (`hash/hash.h`:81), and nothing else does (`OnlyMoveAssignmentLeaks`); and the buffer of a
    `TableWriter` suffices only for an LZ4 that grows by 14 bytes beside one in 255
    (`BufferSuffices`), where LZ4 documents 16: if it did grow by 16, the second of
    two chunks that have 511 bytes together, as declared, would meet an exception.

## 5. Proofs

All for any sets of threads, views, paths, hashes, chunks, values, tables, slices, pointers and proxies,
and any sizes and limits, under the assumptions the modules state of their constants. Most only say
what the constants are: that `HashOf` maps chunks to hashes, that the markers (`NoChunk`, `None`,
`Moved`, `Thrown`) are no members of the sets they mark the absence of, that prefix and suffix make the
address. Those that say something of the program:

| Assumption | Says | Because |
|---|---|---|
| `ChannelAssumption`, `CompactPtrAssumption`, `ProxyAssumption` | finitely many receivers, pointers, proxies | a program has no more |
| `ProxyAssumption` | two more objects than proxies | an object exists for the length of an operation beside those of the proxies; memory for it is not what the properties are about |
| `MemTableAssumption` | a limit that is not negative and the size of a slice are less than 2^64 together | an `int`, and bytes that are in memory |
| `Lz4Assumption` | a compressed length is no more than n + n/255 + `Overhead` | the library's bound (16; 14 where the buffer of a table is concerned, see 4.13) |
| `StringAssumption` | the length of a hash is a multiple of five bytes | it is 20 (`hash/hash.h`:23) |
| `BinaryAssumption` | a byte has two values or more, no number is of no bytes | 256; 2, 4 and 8 bytes |
| `SumAssumption` | bytes and errors are of eight bits | `std::byte` |
| `TableWriterAssumption` | no chunk is empty, the constructor has not thrown | callers |
| `NoCollisions` | different contents have different hashes, for `ChunksAreTheirHashes` only | `Hash::of` is as good as SHA-512 (`hash/hash.h`:167) |

The instance in `Formats` is of streams that copies share, see 4.7; `StreamAssumption` only says that a
writer may also take all it is given (`0 \in Shortfalls`). `ProxyAssumption` leaves open whether moves throw.

`MemoryStoreProofs`. The properties are not inductive by themselves. That a commit gives up pending
safely rests on what its earlier steps have established (`CommitInv`: the root still matches, what
has left the loop is in the store), and that on mutual exclusion (`LockInv`). That a rejected commit
has met a conflict rests on `SinceInv`: a view's root is the store's, or the store has since had
another root, or the commit that made the difference is this view's own and about to end. `getMany`
rests on `ReadInv` (what was visible when the read began still is, and a miss in pending stays one
while the view is locked) and `ContentAddressed` (a map holds each chunk under its own hash).
`IInv` conjoins these with the types and the properties. There is one lemma per action, with one
step per conjunct; `Invariance` is `Spec => []IInv`, from which follow `TypeCorrect`,
`ReadsItsWrites`, `CommitsAreDurable`, `NoSpuriousFailure`, `GetManyIsConsistent` and, for steps,
`NoUpdateIsLost`. `CommitsAreAtomic` assumes `~AllocFails`, and adds that what is in the store and
in no commit yet is pending in the update in progress.

`ChannelProofs`. `NoWakeupIsLost` (copies that do not throw) counts: every send that finds a waiter
makes one more receiver ready, every value taken costs one ready receiver, and nobody starts to wait
beside a value. `ChannelKeepsOrder` is the safety part of the refinement, step by step.

`MemoryStoreProofs!Refinement`: with `~AllocFails`, every step of `MemoryStore` is one of `RootedStore`
or leaves its state alone. It rests on `IInv` and on the invariant of `CommitsAreAtomic`: what a
commit has inserted so far is what the mapping hides.

`FactoryProofs`. `FactoryInv`: a thread between `Enter` and the end of its insertion has the mutex, so
what it has read of the map is still so (`CallIsCurrent`); a store is under one path, and one that was
committed to is under some path; a view's store is the one its path has. `ViewsStartCurrent` needs, besides,
that the root of the path is always among those seen since the call began, across the commits of other
views. `MappedStoresStay` (not in a run) is why a view's reference to its store stays valid.

`ChunksProofs`, of tables. `OrderInv` (an address is in the order once, and only if it is in the map) holds
with exceptions and gives `ExtractIsSafe`; `AgreementInv` is its converse, of the tables whose
additions do not throw, and gives `ExtractIsComplete`. `ChainAnswersAreTrue`, `DataIsStable` and
`AnswersAreFinal` need the former only. `CountsAreHonest` is about the number of bytes in a table: the bytes
are counted as a set, `BytesIn`, a chunk adds those of its own, and `HeldInv` adds that where the limit
is not negative nothing has been cut off by 2^64, which is why the check of `addChunk` suffices although
its sum may wrap.

`ChunksProofs`, of slices. `SliceInv`: the windows in `within` are within their buffers, and the family of a slice
is the buffer it has, so that an edit, by a slice or by the caller, marks every slice whose bytes it may change. It gives `SlicesAreSafe`, and with
what joining and cutting give, `SlicesAreTheirBytes`. That `operator<=>` is the order of the bytes is
by the first place at which two slices differ. `ChunkInv` is about what a chunk's hash is of; copies share a buffer, so
an edit by one puts all of them in doubt, and only an edit does.

`OwnersProofs`. `HashInv`: no two hashes have one array, what is live and no hash's has been leaked by a
move assignment. For proxies the operations are compositions of the header's steps, and so is the proof:
`Sound` says of a memory that every object has its proxy and every block its object, and each step of the
header (`MoveInto`, `CopyInto`, `Reset`, `Relocate`, ...) takes a sound memory to a sound one worth what it
should be, also where it throws. That holds for a move that throws, too (`FailedMoveDestroys`), which takes away
the worth of the source and of nothing else; `FailedAssignmentLoses` and `FailedSwapLoses` follow from it, with
each of the three moves of a swap.

`FormatsProofs`. `PackingInv`: what the compressed data covers is the size as the `int` the library was
told. `BoundIsEnough` is the arithmetic of LZ4's bound. `StreamInv`: unless a header came short, what is in the
buffer and what was taken are together the bytes of what was serialized, or begin them and lack some at the end
if data came short; the source begins them too, and the reader stands
where the last chunk it returned ends. So the twenty bytes after it are the hash of the next chunk, which
is `NextChunk`.
`StringInv` only says that what was decoded and parsed is of the string and the buffer at hand;
`StringsAreHashes` is about what the functions return, for buffers, hashes and strings of any length.
`FlattenGroups` says where the members of groups of one length stand when they are joined. With it the
facts about one group (`DecodeUndoesEncode`, `EncodeUndoesDecode` and `BitsOfGroup`, by arithmetic)
become facts about whole strings (`BytesComeBack`, `StringComesBack`, `StringHoldsBits`).

`FormatsProofs`, of numbers. `BinaryInv`: the bytes of each number are where the ones before it end, as
far as the writer had room, whatever has been overwritten; the reader stands where the next number starts,
or, when a read has thrown, at the end of the file and inside a number. What a number's bytes say is its
digits: `LeadingIs` says what the first k of them are worth, `UintOfBytes` that all of them together are
the number, `OrderOfBytes` that two numbers differ as their first different digits do.

`FormatsProofs`, of checksums. `SumInv`: read from the other end, the variable `crc` is the remainder of what
has been read (`Codeword`). `RemainderIs` says that division, one term at a time, has one result. It goes
with addition (`RemainderOfXor`), and a remainder does in place of its polynomial when both are shifted
(`RemainderOfTimes`). `BitIsNext` is that a turn of the inner loop is such a shift by one, for the constant
in the code; so a turn of the outer loop is one by eight, which is what one more byte does to what is
divided (`AbsorbKeepsRemainder`). That bursts are noticed follows: the two remainders differ by that of the
errors, a polynomial of less than 32 neighbouring terms that has been shifted, and since the generator has
a constant term no shift leaves nothing of one (`BurstIsSomething`).

`TableWriterProofs`. `Layout` says where everything written so far is, for as long as the chunks are as
declared. Its heart is `SizeInv`: 255 times the data written is at most 256 times the bytes added and
4590 (255 times 14 and the checksum's 4) for each chunk. The buffer has 20 for each chunk, of which
rounding takes less than two: one where the average is cut to an integer, and one where its 255th
part is. Hence the 14 of `AsDeclared`, where LZ4's formula has 16. From it follow `BufferIsSufficient`, and that no field falls on another;
`RecordInv` (the sort permutes the records) and `IndexInv` then give `Finding`, `FindingNothingElse`
and `Sorting`.

`CompactPtrProofs`. `Counted`: the strong count is the number of strong pointers, the weak count that
of the weak ones, and one more while the strong ones or the last of them hold it. `Closing`: at most
one pointer destroys the object or deallocates, when no other is left to use it. The rest follows, by
the cardinalities of sets that change by one element at a time.

Induction over data is not available as such: the theorems of the library that would give it take
operators as parameters. Where it is needed it is replaced by the least counterexample (`LeastOf`, from
`WFMin`): in the order of slices and of digits, in shifts of polynomials, and wherever a recursive function
is used. The value of one is a choice, so that there is a function to choose is proved by one step more on a
smaller domain, and that all agree by the least place where two do not: inside `FlattenSeq`, of chunks
(`JoinsExist`, `JoinsAgree`) and of groups (`FlattenGroups`), inside `FoldLeft` (`FoldExists`, `SumIs`), and
of `Power` (`PowersExist`, `PowerIs`) and `Remainder` (`DivisionExists`, `DividesAgree`).

Proved and not in a run: `FirstWriterWins` (`DataIsStable`) and `PrefixesAreSorted` (`Sorting`), which TLC
confirms too when they are added to the `.cfg` of `chunks` and `formats`, `MappedStoresStay`, and the
inductive invariants, which TLC was shown first: `IInv` of `MemTable`, `TableWriter` and `CompactPtr`,
`HeldInv`, `SliceInv`, `ChunkInv`, `HashInv`, `ProxyInv`, `FactoryInv`, `PackingInv`, `StreamInv`,
`StringInv`, `BinaryInv` and `SumInv`.

Only model-checked: `CallsReturn`, `CloseReleases`, `CreateReturns` and the fairness part of
`ImplementsChannel`. Liveness is outside the prover's reach. Every invariant and every action property of a
passing run is a theorem.

## 6. Not modelled

* SHA-512 and LZ4 themselves (external): hashes are model values, compressed data is a length and what
  it stands for. `Hasher` and `isEmpty` only read bytes; the name of a table is the hash of suffixes
  that the model has.
* The facades (`common.h`) are declarations. So is most of `include/proxy.h`: conventions, constraints,
  dispatch tables, reflection, views, hashing and formatting are decided at compile time or keep no
  state. The variants of a proxy that no facade of nomp asks for (trivial relocation, copies that
  cannot throw) are left out. Relocation that may throw is modelled, as two of them ask for it. Where a
  constructor throws over a proxy that was destroyed, its members are read as the constructor left them, without
  a value; formally there is no proxy there any more.
* Memory orders. `CompactPtr` takes atomics as sequentially consistent, so it cannot tell whether the
  orders the header chose suffice.
* The main program, which uses no component; formatting and error texts.
* A `TableWriter` after `finish`: nothing says what a second call means. Views used after their
  factory is gone: nothing says it may go first. The bound of a channel's queue: there is none.
* Crashes: nothing is persisted.

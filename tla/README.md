# A TLA+ model of My-LSM-Tree

The program is a log-structured merge tree in C++: a map from byte strings to
byte strings, kept in a skip list in memory and in sorted tables on disk.
This directory holds its specification: modules for TLC, the runs, and theorems
checked by TLAPS. Paths below are relative to the repository's `src/lsm_tree/`.

## 1. The system

| Component | State | Operations | What makes it correct |
|---|---|---|---|
| `LSMTree` (`lsm_tree.cpp`) | memtable, `levels_` (a count per level), the `.sst` files in the working directory, the file at `tree_data_` | `Insert`, `Erase`, `Find`, `FindRange`; inside them `TryCompacting` (flush) and `CompactLevelsUpTo` (cascading merge); destructor (save) and loading constructor | It is a map, whatever is flushed, merged, dropped, saved or refused by the system; every table that is counted exists; levels keep their bounds |
| `SSTableReadersManager` (`sstable/sstable_reader.cpp`) | `fd_mapping_`, `cache_queue_`, open descriptors | `CreateReader`, `Unlink`, `DecreaseFdCounter`, `TryClearingCache` | Counts equal live readers; no descriptor is closed or reused under a reader; idle ones are bounded |
| `SSTableReader` (same file) | none but the file | binary search, range scan, filter test, iterator | Answers as the table's map |
| `Memtable` (`memtable/memtable.cpp`) | skip list and filter | delegates; `MakeSSTableInFd`, `DumpKVInFd` | The filter covers every key written to the table |
| `SkipList` (`memtable/skip_list/skip_list.cpp`) | nodes, links per level, `kv_count_` | `Insert`, `Erase`, `Find`, `FindRange`, `Clear`, block output | Sorted levels; an entry map with tombstones; sorted output |
| `KVBuffer` (`memtable/skip_list/kvbuffer.cpp`) | slices of bytes | `Append`, `Compare`, `Write`, `WriteToFd`, `Clear` | What was appended reads back and compares right over slice borders |
| `BloomFilter`, `Bitset` (`memtable/bloom_filter/`) | bits | `Insert`, `Find`, output | No false negatives |
| `common`, `xxhash` | none | hash positions | deterministic |

`LSMTree` calls the memtable and the readers manager; readers call back into the
manager when they are destroyed; the disk is shared by the sessions of a tree
(and, as names are relative, by any two trees in one directory). All public
operations hold `mtx_` from their first line to their last; the destructor does not.

**Hard behaviours.** Which tombstones may be dropped, and when; the order
newest-first of merges and lookups; operations of several system calls of which
one fails; descriptors shared and unlinked under their readers; state that is
saved only by the destructor; arithmetic at slice borders; random heights.
`PROJECT.json` lists each at its line, with the properties that watch it.

## 2. The plan

| # | Module | Content |
|---|---|---|
| 1 | `KVStore` | abstract: the map a caller sees |
| 2 | `LSMTree` | the core: flush, cascade, faults, save and load; implements `KVStore` |
| 3 | `SSTableReadersManager` | the descriptor cache, driven step by step |
| 4 | `KVBuffer` | bytes in slices |
| 5 | `EntryMap`, `SkipList` | the memtable's map; the skip list implements it |
| 6 | `SSTableFile`, `SSTableReader`, `SSTable` | the bytes of a table, the searches, and the one over the other |
| 7 | `Merge` | the heap loop round by round; computes `LSMTree`'s `MergedKV` |
| 8 | `ConcurrentStore`, `LSMThreads` | threads and the steps under the mutex; implements `LSMTree`, is linearizable |
| 9 | `DurableStore`, `LSMTreeCrash` | a process that dies and a destructor that cannot save |
| 10 | `SaveLoad` | the bytes of the saved tree, cut short anywhere |

Each `MC` module holds the bounds of its component's runs. The proofs are in
modules of their own: `LSMTree_proofs` for the core, `LSMThreads_proofs` for the
threads and their crashes, `Merge_proofs`, `SkipList_proofs`, `SSTable_proofs`,
`SSTableReadersManager_proofs`, `Bytes_proofs` for `KVBuffer` and `SaveLoad`, and
`LeastNaturals`, the facts that they share about least and greatest numbers and counting up. See section 5.
All modules of the plan are written.
`LSMTree` is the middle of the project: `KVStore` is above it; below it
`LSMThreads` justifies one step per operation, `Merge` its merge operator, `SSTable`
what it says of lookups in a table, `SkipList` its memtable, `SaveLoad` its `Load`.

## 3. Modules

### `KVStore`
The promise the tests check with a `std::map` beside the tree: `store` and
whether a tree object is `open`. `Create` empties the store; `Load` and `Close`
keep it.

### `LSMTree`
| Variable | Code |
|---|---|
| `memtable` | entries of `memtable_`; `Empty` is the empty value, i.e. a tombstone |
| `levels` | `levels_`; `levels[i + 1]` is the count of level i |
| `files` | the `.sst` files, by level and number, each a map of entries and the bits of its filter |
| `tree_data` | the file the destructor writes |
| `open` | the object exists |

An `Insert` or `Erase` is one step because it holds the mutex throughout;
each way it may run is an action: `InsertBuffered` (no flush), `InsertFlushed`,
`InsertFlushedNothing` (nothing but tombstones in a tree without tables),
`InsertCompacted` (flush and merge), `InsertFlushThrows`,
`InsertCompactionThrows`, `InsertCompactedUnwritten` (the merge's output cannot
be created and the code does not notice). `Close`, `CloseUnsaved`, `Create` and
`Load` are the destructor and the constructors. The constant `Faults` says which
system calls may fail: `"flush"` the `open` of a new table of level 0,
`"reader"` that of a merge's input, `"compaction"` that of a merge's output,
`"save"` that of `tree_data_`.

Tables are maps, so the layout of blocks and the heap loop are abstracted: a
merge yields, for each key, the entry of the newest input that has one.
`HashBits` gives each key its filter bits and keys may collide. A table without
a byte has no meta block; a merge that reads one (only stale level counts lead
there) may produce any table (`MergedTables`). What a lookup answers from such a
table is undefined and no run asks for it.
`Find` and `FindRange` are operators that follow the code's scans; they change
nothing in the tree, and their effect on descriptors is in `SSTableReadersManager`.

### `SSTableReadersManager`
`fd_mapping`, `cache_queue` as in the code; `fds` is what each open descriptor
of the process refers to, and `open` takes the lowest free number. `task` and
`pending` are the program counter of the tree: a lookup holds one reader; a
merge opens its output (unchecked), its inputs, reads, unlinks every input while
its readers live, and then destroys the readers one by one. Readers that cannot
be opened throw, and the tree may end at any idle moment, with no table's descriptor closed.
Then `task` is `"closed"` until the next tree is built or loaded; a load opens
`tree_data` and does not close it when it throws.

A merge takes any non-empty set of tables as inputs and any other as output;
which ones the tree would take is the business of `LSMTree`. Keeping the sets
arbitrary only adds behaviours.

### `KVBuffer`
`slices` as in the code, each the bytes up to its size; `nodes` remembers the
entries since the last `Clear` with the offset the code gave them. Allocation
may fail in either append of `WriteToNode`. `Write` stands for `Write` and
`WriteToFd`, which walk alike. `CompareResults` is a set: when the
range covers a whole slice behind the one it begins in, the loop does not advance (line
59) and ends only on a difference, perhaps behind the end of the searched key.

### `SkipList`, `EntryMap`
`nodes[1]`, `nodes[2]`... are `nodes_[1]`...; `next[0]` belongs to the head. A new
node's height is any that `RandomLevel` may return, which includes one level
above those that are searched. The code's separate branch for an empty list
gives the same links as the general one. Keys are integers: that bytes compare
in their lexicographic order is `KVBuffer`'s property, for keys that cover no
whole slice behind the one they begin in. `EntryMap` is the promise `LSMTree` builds on:
a table from keys to entries.

### `SSTableFile`, `SSTableReader`, `SSTable`
`SSTableFile` writes a table piece by piece (sizes, keys, values, filter words,
offsets, the meta block), as the flush does and as the merge does, which count
their offsets in different places. A file maps offsets to the pieces written
there; a read at an offset where no piece of its kind begins gives garbage. The filter is
there with its positions (`CalculateIthHash`, wrapping at `HashBase`), words and sizes.
Then the iterator walks over the file. `SSTableReader` is the binary search of `Find` and the
search and scan of `FindRange`, one probe per step, over a sequence of entries.
`SSTable` composes them: the sequence is what the index block of the written file leads to.

### `Merge`
The merge from its first reader to its last round. `readers`, `key_buffer`,
`heap` and `indexblock` as in the code; the heap is a set of indices and its top the least
by the code's comparator, so any correct priority queue will do. A round takes all iterators at
the smallest key, as the inner loop does. `Tree` is `LSMTree` at the moment the merge begins:
`OutputIsMerged` compares the output with `Tree!MergedKV` in every state.

### `ConcurrentStore`, `LSMThreads`
`mtx_` is the mutex, `pc[t]` the step thread `t` takes next, `call[t]` its
operation. The writes are split where they change state (memtable, new table, count,
merge output, counts reset, one unlink after the other), the lookups where they read it
(memtable, `levels_` at each level, one table). `MergeUnwritten` is the merge whose output's
`open` fails: the code does not notice and goes on to the counts and the unlinks. `before` is a history variable: the tree
when the holder locked the mutex. `Atomic` is `LSMTree` with the tree seen from outside, which is
`before` while somebody is inside. `ConcurrentStore` is the promise: each call has its
effect in one instant between call and return; a lookup may throw instead.
That nobody is inside when the object is made or destroyed is a guard (`Session`): the
destructor takes no lock, so it is the caller's duty.

### `DurableStore`, `LSMTreeCrash`
`LSMThreads` with `Crash` at any step, the table just being written possibly torn, and
`DestroyUnsaved`. What can be promised is little, and `safe` says when:
the saved tree is intact until the first merge after loading unlinks a table it names. Then
a crash loses the session and nothing else. Loading a saved tree that is not
safe gives a `broken` session of which nothing is promised, and a session in which a merge is
written nowhere (`MergeUnwritten`) becomes one. The process dies here, not the
machine: what `write` returned from is on the disk.

### `SaveLoad`
The destructor's writes and the loading constructor's reads, byte by byte. An integer is
`WordSize` bytes of `Base` values (`Word`, read back by `NumberAt`). The destructor writes the
parameters, the counts and then entry by entry; `Joined[n]` is the file after `n` of these
parts, `Image` the whole one. Each may be cut at any byte. Only the length of the parameters is checked; every other read leaves in the
buffer what was there: zeros after a `resize`, the previous entry's bytes, or whatever an
uninitialised `KVSizes` holds (`junk`). Entries go into a map, as into the memtable: one that is cut may come
with a made-up key (its own bytes, those of the key before, zeros), and if that is a whole
entry's key it overwrites or erases that entry.

## 4. Runs

| Run | Bounds | Shows |
|---|---|---|
| `tree` | 2 keys, limit 1, factor 2, 3 levels, level 0 up to 3; flushes and readers that fail at every insert; sessions of one tree | the tree is a map and writes that throw have taken effect; components exist; `Find` and `FindRange` answer the newest entries; no orphans; a wedged level 0 stays so |
| `unsaved` | 2 keys, limit 1, factor 2, 3 levels; merges written nowhere, sessions not saved, new trees over old files | filters stay sound on any file; no level below the first fills up |
| `unwritten_merge` | an output that cannot be created | **violation** of `ComponentsReadable` |
| `fd_cache` | 3 tables (symmetric), cache of 2, 5 descriptors; trees built, loaded, refused and destroyed | counts, currency, bounds, leaks |
| `kvbuffer` | slices of 3 bytes, keys to 3, values of 7, 6 slices | reading back and comparing over borders |
| `kvbuffer_long_keys` | a key of 5 bytes | **violation** of `StoredKeyIsFound` |
| `skip_list` | 3 keys, 2 values, heights 1 to 3 | sorted levels, sorted output, all ranges, implements `EntryMap` |
| `table` | tables of up to 3 keys, filters of 2 or 3 words, wrapping hashes | what either writer wrote is found by index, iterator, filter, `Find` and `FindRange`; searches end |
| `merge` | merges of 2 or 3 components (levels 1 and 2) of up to 3 keys, into a new or an old level | readers newest first and as many as the heap expects; the output is the merged table at every step; the loop ends |
| `threads` | 2 threads, 3 writes (the first by `t1` and no `Erase`), lookups unbounded, one exception | implements `LSMTree`, linearizable; lookups answer the newest entries; the mutex is released and calls return |
| `crash` | 1 thread, 5 writes over all sessions; readers, outputs of merges and saving may fail; crashes unbounded | the saved tree stays readable while it is safe, and a crash returns to it |
| `save_load` | levels `<<>>`, `<<0, 3>>`, `<<2, 1, 3>>`; up to 3 entries, keys of 1 to 3 bytes, values of 0 to 3; numbers of two bits; cut at every byte, every junk bit | a whole file restores the tree; a short one never names more tables than were saved, and its whole entries are loaded unless a made-up key hits them |

Why the bounds suffice to be interesting. With limit 1 every insert flushes, so
each sequence of writes reaches each arrangement of tables; factor 2 is the least
that keeps a level at all, and three levels let a tombstone meet an older
entry two merges later. That parameters matter beyond that (factor 3 separates
"full" from "not empty") is left to the theorems, which hold for every factor and limit.
The keys' filter bits are such that a filter that covers `k2` answers yes for `k1`. In
`fd_cache` three tables are one output and two inputs, more than the cache holds, and
five descriptors run out after leaks. In `threads` two writes fill level 0, so a
merge is under way while the other thread calls, and one write more follows it. In `crash` five writes are two
merges and a flush, before and after any save, with outputs that are written or not. `MaxLevels`, `MaxComponents`, `MaxNodes`, `MaxSlices`,
`MaxWrites` and `MaxThrows` only cut exploration off: a step that would leave them is not
taken. `SavedView` ignores the saved file while a tree is open in runs where the
destructor always overwrites it, as nothing reads it then.

**Fairness.** `SSTableFile`, `SSTableReader` and `Merge` are sequential: weak fairness says that
their thread keeps running. `LSMThreads` has weak fairness for the steps of each thread, excluding
new calls and exceptions, so that no loop may count on a failure to end it (`threads`, which checks
liveness, is without `"compaction"`: over a table that was never written, throwing is all
that a thread can do). There is no strong fairness for `Lock`:
`std::mutex` does not say which waiting thread is next, so a thread may starve and only
`SomeCallReturns` holds.

**Deadlock** is checked except in `table`, `merge` and `save_load`, whose function returns.

### Findings
* `unwritten_merge`: `CompactLevelsUpTo` never tests the descriptor of its output
  (`lsm_tree.cpp:218`). If `open` fails, the merge goes to descriptor -1, the
  table is counted and the inputs are unlinked.
* `kvbuffer_long_keys`: `KVBuffer::Compare` lacks `++i` in its loop
  (`kvbuffer.cpp:59`). A key that covers a whole slice behind the one it begins in (and may end at that slice's border) is
  compared past its end and never equal to itself.

Shown on the way, and not contradicting any promise written down: a merge that
throws wedges level 0 for good, since the trigger is `==` (`WedgedForGood`); a
merge without output, a merge that throws, the end of a tree, and a loading constructor
that throws (`lsm_tree.cpp:64`, 84-88) leak descriptors (`LeaksOnlyThere` says that of the steps
modelled these are the only ones; memory that runs out elsewhere is not modelled); `KVBuffer::Clear`
keeps every slice and refills only the last; after a session's first merge a crash leaves
a saved tree that names unlinked tables (`safe` in `LSMTreeCrash`); a saved tree that
is cut short behind its parameters loads without an error, with entries of
zeros or junk, which may take the place of whole ones (`SaveLoad`).

## 5. Proofs

For every `Key`, `Value`, filter, scaling factor and memtable limit:

* `TypeCorrect`: `Spec => []TypeOK`, whatever fails.
* `FiltersSoundAlways`: `Spec => []FiltersSound`, whatever fails. It is inductive
  alone: every table written is sound (`SoundTables`), storing and unlinking keep the rest.
* `ReadableAlways`: if `Faults \subseteq {"flush", "reader"}`, then
  `Spec => []ComponentsReadable`. Inductive together with `TypeOK`. The lemmas
  `FlushedComponents` and `CompactedComponents` say which tables a flush adds and
  what a merge replaces, and that `ConsumedPaths`, computed from the factor,
  names no table that is kept. The two excluded faults really break it:
  `unwritten_merge` shows one; an unsaved session leaves old counts over merged files.
* `TreeImplementsMap`: under the same assumption `Spec => ImplementsMap`, with the
  store mapped to `Contents`, the newest visible entry of each key among
  memtable and components. A flush moves the memtable to the newest place
  (`FlushKeepsLookup`); a merge's inputs are newer than every component left, and
  tombstones are dropped only if none is left (`CompactionKeepsLookup`). The
  invariant `ComponentsReadable` is needed, since a missing input would be
  missing from the merge.
* `WritesTakeEffectAlways`: each `Insert` and `Erase`, those that throw too, acts as the
  map's. (The refinement alone would let a throwing write stutter.)

* `CascadeKeepsLevelsBelow`: for a factor of at least 2,
  `Spec => []LevelsBelowFactor`, whatever fails. Inductive with `TypeOK`: the target
  of a cascade had room for one more table, and the levels above it are left empty.
* `FactorOneNeverMerges`: for a factor of 1 the same trigger never fires again for
  level 1, which only grows: the bound above is about factors from 2 on.
* `WedgedNeverShrinks`: `Spec => WedgedForGood`, for every factor and limit.
* `NoOperationOrphans`: `Spec => NoNewOrphans`. Its core, `ConsumedAreInputs`, is the
  converse of `CompactedComponents`: every input of a merge is among the paths
  that `CompactLevelsUpTo` computes from the factor and unlinks.
* `FindAnswersNewest` and `FindRangeAnswersNewest`, when only flushes and readers may fail:
  `Spec => []FindIsLookup` and `[]FindRangeIsLookup`. The loops over levels and tables are
  recursive functions, that is, a `CHOOSE` of some function with that equation. The proofs
  give a closed form (the newest entry among the tables not yet passed), show that it satisfies
  the equation, and that no other function does: of two that differ, take the least
  argument where they do. `ReadableAlways` gives that every counted table can be opened,
  `FiltersSoundAlways` that a table whose filter says no may be passed over.

`LSMThreads_proofs`, for every set of threads, every factor, limit and fault:

* `ThreadsImplementTree`: `Spec => ImplementsLSMTree`. The steps between locking and
  unlocking are, seen from outside, one operation of `LSMTree` or none, also when the
  write throws halfway or its merge is written nowhere. This is why `LSMTree` may take an operation for one step. The
  invariant `ThreadInv` says for each place in the code (`Progress`) what the holder
  has made of the tree `before` that it found: without it, nothing relates the counts
  that `Reset` leaves and the files that `Unlink` has left so far to the operation's outcome.
* `OnlyTheHolderIsInside`: exactly the holder of `mtx_` is between lock and unlock.
* `FiltersSoundInside`: the filters are sound between any two steps of a write, too.
* `LookupsAnswerNewest`: `Spec => []AnswersAreCurrent`. `StageInv` is the loop invariant of the
  two lookups: `Find` has seen that no component it has passed holds the key, `FindRange` has
  for each key the newest entry among the components it has scanned. It needs `ThreadInv`,
  as only the mutex keeps the tree still while a lookup is under way, and sound filters. It needs
  no `ComponentsReadable`: a missing table makes a lookup throw.
* `CallsAreLinearizable`: if `Faults \subseteq {"flush", "reader"}`, then `Spec => Linearizable`:
  each call takes effect in one instant between call and return, a write as its thread
  unlocks, a lookup as it has its answer. The tree seen from outside keeps the invariants of `LSMTree_proofs`
  (`SeenInv`, by the lemmas of that module instantiated as `Sequential`), so each write is the map's;
  answers are `Contents` by the invariant of `LookupsAnswerNewest`.

The same module about `LSMTreeCrash`, for every set of threads and every parameter, if
`"compaction" \notin Faults` (the run `crash` checks both with that fault, too; the proof uses that
a write of an unbroken session is the map's, which a merge that is written nowhere breaks):

* `SavedAlwaysReadable`: `CrashSpec => []SavedReadable`.
* `CrashesRestoreSaved`: `CrashSpec => CrashRestoresSaved`, i.e. the tree with crashes and a
  destructor that cannot save implements `DurableStore`.

`CrashInv` adds to `ThreadInv` that every component which the holder found is still counted until
the merge resets the counts (`Keeps`), that the saved tree's tables are among those, and
that they and the live components exist. A flush and a merge write at a number that
is not counted, so nothing the saved tree names is overwritten or torn; the step that unlinks the first
of them makes the saved tree unsafe. `TypeOK` and the readable components of the outside view are needed
to know what `CompactLevelsUpTo` unlinks.

`SkipList_proofs`, for every set of keys, every height and level limit: `LevelsAlwaysSorted`,
`ListImplementsMap`, `FindRangeAlwaysMap`, `DataBlockAlwaysSorted`. `ListInv` says that nodes have
different keys, that on each level every node, and the head, leads to the node with
the next greater key among those that are high enough (`IsSuccessor`), that levels never searched have
no links, and that `kv_count` is the number of nodes. Sortedness alone is
not inductive: that an insert finds the right predecessors (`update`) on every level needs that no node of
a level is skipped. The walks along level 0 are recursive functions, solved as above: the chain is
the sequence of the nodes in key order.

`Merge_proofs`, for every tree to merge and every set of keys: `ReadersAlwaysNewestFirst`, `OutputAlwaysMerged`
and `OutputAlwaysWithinCount`. `MergeInv` has three parts. `Opening`: at `(i, j)` exactly the components
newer than number j of level i have been opened, in that order. `Merging`: each reader's
consumed rows and every written key lie below all keys in the heap, which are the readers' next ones; so the
smallest key is one that no reader has passed, and the first reader at it the newest
that has it. `Counting`: each round consumes a row for each entry written, so the filter and the index, which
are sized by the inputs' counts, are never too small.

`SSTableReadersManager_proofs`, for every set of tables, cache size and descriptor limit:
`ManagerTypeCorrect`, `CountsAlwaysMatch`, `DescriptorsAlwaysCurrent`, `IdleAlwaysBounded` and
`OnlyFourStepsLeak`. One invariant, `ManagerInv`, serves all: a count is a property of
`fd_mapping` *and* of the readers alive, and it stays right only because a mapped descriptor
is open on its own file (`MappedCurrent`), live readers use the mapped ones until the merge
unlinks (`ReadersMapped`), an output being written is not mapped (`OutputOpen`), and readers
exist only during a task (`TaskShape`). Descriptors of two tables differ because their files do.

`SSTable_proofs`, for every set of keys and values, every size of them and of the file's parts,
every hash, both writers, with tombstones kept or skipped:

* `IndexIsCorrect`, `IteratorIsCorrect`, `FilterIsKept`: `Spec` of `SSTableFile` implies
  `[]IndexLeadsToEntries`, `[]IteratorFollowsEntries`, `[]FilterKeepsItsAnswers`. The invariant `WriteInv`
  says that the entries dealt with lie one behind the other (`DataPlaced`: the m-th where the bytes of those before
  it end), and that the flush's count of keys' and values' bytes, the merge's `kv_offset` and the
  index are that same sum (`DataCounted`, `DataIndexed`). Each block behind begins where the meta block will
  say, since its words and offsets have one size (`BlocksInv`). The iterator is at the end on the last entry only
  because every entry has bytes (`OffGrows`). A bit of the filter is found in the file's word as in memory's as every
  position is below the number of bits, so its word is one that was written (`QuotientBelow`).
* `FileFindIsCorrect`, `FileFindRangeIsCorrect`, `FileSearchesStayInside`: `TableSpec` implies
  `[]FindAnswersEntry`, `[]FindRangeOverlays` and `[](Reader!TypeOK /\ Reader!ProbesInside)` for the searches over
  the written file. `SearchInv` keeps what a search knows: everything at the left
  border and before is smaller than the key, everything from the right border on is
  greater; and what the scan has overlaid so far. It asks only for a sorted table, and what the index
  leads to is the sorted table that was written (`EntriesAreWritten`, `KeptSorted`).

Sums and the entries kept are recursive functions here too: `StepByStep` of `LeastNaturals` gives that a function
with such an equation exists, `CountUp` what it is at each place.

`Bytes_proofs`, for the two places where bytes are laid out by hand:

* `BufferReadsBack`: `Spec => []ReadsBack` of `KVBuffer`, for every slice size and every length of
  keys and values, whatever allocations fail. `BufferInv` says of each entry that the slices from the one
  it begins in are full, the last excepted, and that the byte at offset p is byte
  `p % slice_size` of slice `p \div slice_size` (`Holds`). An append changes no byte
  that is there (`Grows`), so it keeps all entries held; a `Clear` leaves no entry.
  `ReadsBack` alone is not inductive: it says nothing of the slices between.
* `BufferCompares`: `[]CompareIsLexicographic` from the same invariant if no key is longer than a slice. Then
  the loop over whole slices is never entered. The bound is exact: a key one byte longer may cover a
  whole slice, and then `kvbuffer_long_keys` shows the opposite.
* `SavedTreeComesBack`, `CutLevelsAreWithin`, `WholeEntriesAreLoaded`: `SaveSpec` of `SaveLoad` implies
  `[]SavedComesBack`, `[]LevelsWithinSaved` and `[]WholeEntriesLoaded`, for every base, size of a word, tree and junk. `SaveInv` says that the file is always a beginning of `Image`;
  that no count read is greater than the saved one (if its last bytes are missing, its high digits are
  zeros); that after n entries, if they are whole in the file, the constructor reads on at
  `EndOfEntry(n)`; and that from the first cut entry on the key buffer holds nothing but bytes of
  that entry's key, of the key before it, and zeros. So `WholeEntriesLoaded` can say which whole entries may be
  lost: those with a key that can be made up of these. Without the place and the buffer it is not inductive: an
  entry is right only because the one before ended in the right place.

Assumptions: `SliceAssumption` and `BytesAssumption` (a slice has bytes, so have
keys), `SaveAssumption` (every size and count fits the word it is saved in, and a memtable has one entry for a key), `CacheAssumption` (the names of tables and of the tree's file differ), `SentinelAssumption` and `SavedTreeAssumption` (model values differ from
entries and saved trees), `ParameterAssumption` (a positive memtable limit, as
`ThrowIfZeroLimit` enforces), `ThreadAssumption` (no thread is the unlocked mutex's
`nullopt`), `TreeAssumption` (those of `LSMTree`, for the tree the threads share), `KeyAssumption` (keys are integers, in the order of their bytes),
`SizesAssumption`, `HashAssumption`, `FilterAssumption` (a key has bytes, an empty value none, hashes are
numbers below `HashBase`, the filter has bits), `LevelAssumption` (a skip list has a level), `MergeAssumption` (as these, and a positive factor: with 0 no
count is ever equal to it and nothing is merged). Elsewhere the factor may be any natural, except where said.

Every invariant that a passing run checks is stated by a theorem above. Only model-checked are the crash
properties with outputs of merges that cannot be created and, out of the
prover's reach, liveness under fairness (`MergeEnds`, `CallsReturn`, `MutexReleased`,
`SomeCallReturns`) and `ENABLED`.

## 6. Not modelled

* A disk that fills up while the process lives on: no `write` is checked, so a table may
  be cut anywhere. The file models what a complete `write` leaves; `SaveLoad` has the short tree file,
  `LSMTreeCrash` the torn table of a dying process.
* Power loss: the code calls `fsync` on each file it writes (`lsm_tree.cpp:122`, 197, 289) but on no
  directory and tests no result; what survives a power loss is not modelled.
* Memory that runs out, except in `KVBuffer`'s appends and for the sizes that the loading constructor reads.
* Keys of length 0 (the tests never make one) and a slice size of 0.
* Skip list inserts whose buffer append throws after the node was linked, and
  the array bound of 32 levels, which needs a memtable limit of 2^28 entries.
* Hash values, the logarithms that choose the filter's size, and rates of 1 or more.
* `CalculateKVCountForLevel`, which nothing calls.
* Benchmark, tests, the main program and build files: they are users, not parts.

## 7. Running

In this directory: `tlc -config MCLSMTree.cfg MCLSMTree.tla` for any pair listed
in `PROJECT.json` under `runs`; `tlapm M.tla` for the proofs of a module `M` of section 5. An operator marked MUTANT is a
wrong version of the definition below it; put in its place, the
property paired with it in `PROJECT.json` is violated.

----------------------------- MODULE SSTableFile -----------------------------
(***************************************************************************)
(* The bytes of a table: how the flush (Memtable::MakeSSTableInFd) and the *)
(* merge (CompactLevelsUpTo) each lay out data, filter, index and meta     *)
(* block, and how SSTableReader finds its way back: by the index, by the   *)
(* iterator over the data block, by the bits of the filter.                *)
(*                                                                         *)
(* A file is a function from offsets to the pieces that write() put there, *)
(* each write at the end of the file.  A read gets a piece only at the     *)
(* offset where one of its kind begins, and garbage elsewhere.  Sizes are  *)
(* constants, so that small words do for TLC.                              *)
(***************************************************************************)
EXTENDS Integers, Sequences, FiniteSetsExt

CONSTANTS
  Key, Value,
  Empty,                  \* the empty value: a tombstone
  nullopt,                \* no entry, and what a read of the wrong bytes gives
  KeySize, ValueSize,     \* the bytes of every key and value
  SizesSize, OffsetSize, MetaSize,    \* sizeof KVSizes, Offset, MetaBlock
  WordSize, WordBits,     \* the bytes and bits of a word of the filter
  HashLow, HashHigh,      \* the two halves of every key's hash
  HashBase,               \* 2^64
  milli_bits_per_key,     \* -1000 ln(filter_false_positive_rate_) / ln(2)^2
  kv_count_limit          \* memtable_kv_count_limit_; a merge counts to it too

Entry == Value \cup {Empty}

ASSUME KeyAssumption == Key \subseteq Int
ASSUME SentinelAssumption ==
  /\ Empty \notin Value
  /\ nullopt \notin Key \cup Entry
ASSUME SizesAssumption ==
  /\ KeySize \in [Key -> Nat \ {0}]
  /\ ValueSize \in [Entry -> Nat]
  /\ \A e \in Entry : ValueSize[e] = 0 <=> e = Empty
  /\ {SizesSize, OffsetSize, MetaSize, WordSize, WordBits, HashBase} \subseteq Nat \ {0}
ASSUME HashAssumption ==
  /\ HashLow \in [Key -> 0 .. HashBase - 1]
  /\ HashHigh \in [Key -> 0 .. HashBase - 1]

(* A false positive rate below 1; from 1 on there are no bits. *)
ASSUME FilterAssumption == milli_bits_per_key \in Nat \ {0} /\ kv_count_limit \in Nat \ {0}

VARIABLES
  input,       \* what is to be written, see Inputs
  pc,          \* the block that is written, or what the reader does
  n,           \* entries of the data block that are dealt with
  kv_count,    \* entries written
  data_size,   \* flush: true_data_size_in_bytes; merge: kv_offset
  indexblock,  \* the merge's offsets
  filter,      \* the words of the bit set
  file,        \* the pieces by their offset
  st_size,     \* the size of the file
  it,          \* the reader's KVIterator
  seen         \* what the iterator has shown so far

vars == <<input, pc, n, kv_count, data_size, indexblock, filter, file, st_size, it, seen>>

----------------------------------------------------------------------------
(* The filter: ComputeBloomParams, Bitset, BloomFilter. *)

CeilDiv(a, b) == (a + b - 1) \div b

bits_count(key_count) == CeilDiv(key_count * milli_bits_per_key, 1000)

(* round(bits / keys * ln 2), at least 1. *)
hash_func_count(key_count) ==
  Max({1, (2 * milli_bits_per_key * 693 + 1000000) \div 2000000})

NoBits(bits) == [w \in 0 .. CeilDiv(bits, WordBits) - 1 |-> {}]

(* MUTANT: the hash is reduced before it is multiplied, without wrapping. *)
CalculateIthHashUnwrapped(k, i, mod) == (HashLow[k] + i * HashHigh[k]) % mod

(* The product and the sum wrap at 2^64. *)
CalculateIthHash(k, i, mod) == ((HashLow[k] + i * HashHigh[k]) % HashBase) % mod

(* The bits at the positions are set, one word after the other. *)
Set(words, positions) ==
  [w \in DOMAIN words |->
     words[w] \cup {i % WordBits : i \in {p \in positions : p \div WordBits = w}}]
Test(words, i) == (i % WordBits) \in words[i \div WordBits]

Positions(k, bits, hashes) == {CalculateIthHash(k, i, bits) : i \in 0 .. hashes - 1}

(* BloomFilter::Insert of each of the keys, and Find. *)
Inserted(words, keys, bits, hashes) ==
  Set(words, UNION {Positions(k, bits, hashes) : k \in keys})
Found(words, k, bits, hashes) == \A i \in Positions(k, bits, hashes) : Test(words, i)

FilterBytes(words) == Cardinality(DOMAIN words) * WordSize

----------------------------------------------------------------------------
(* Writing. *)

(* The pieces, one after the other, at the end of the file. *)
Length(piece) ==
  CASE piece.is = "sizes" -> SizesSize
    [] piece.is = "key" -> KeySize[piece.key]
    [] piece.is = "value" -> ValueSize[piece.value]
    [] piece.is = "word" -> WordSize
    [] piece.is = "offset" -> OffsetSize
    [] piece.is = "meta" -> MetaSize

(* Sums(lengths)[i] is the sum of the first i. *)
Sums(lengths) ==
  LET sum[i \in 0 .. Len(lengths)] == IF i = 0 THEN 0 ELSE sum[i - 1] + lengths[i]
  IN  sum

Ends(pieces) == Sums([i \in DOMAIN pieces |-> Length(pieces[i])])
OffsetOf(pieces, i) == st_size + Ends(pieces)[i - 1]

Write(pieces) ==
  LET places == {i \in DOMAIN pieces : Length(pieces[i]) # 0}
      placed == [o \in {OffsetOf(pieces, i) : i \in places} |->
                   pieces[CHOOSE i \in places : OffsetOf(pieces, i) = o]]
  IN  /\ file' = [o \in DOMAIN file \cup DOMAIN placed |->
                    IF o \in DOMAIN placed THEN placed[o] ELSE file[o]]
      /\ st_size' = st_size + Ends(pieces)[Len(pieces)]

(* An entry: its sizes, its key, its value. *)
KVPieces(kv) ==
  <<[is |-> "sizes", key_size |-> KeySize[kv[1]], value_size |-> ValueSize[kv[2]]],
    [is |-> "key", key |-> kv[1]],
    [is |-> "value", value |-> kv[2]]>>

Skipped(kv) == input.skip_deleted /\ kv[2] = Empty

(* The entries that are written: all of them, or those with a value. *)
Written ==
  LET kept[i \in 0 .. Len(input.entries)] ==
        IF i = 0 THEN <<>>
        ELSE IF Skipped(input.entries[i]) THEN kept[i - 1]
        ELSE Append(kept[i - 1], input.entries[i])
  IN  kept[Len(input.entries)]

Sorted(entries) == \A i, j \in DOMAIN entries : i < j => entries[i][1] < entries[j][1]

(* The entries of a memtable, or those the heap yields, in key order. *)
Tables ==
  {entries \in UNION {[1 .. count -> Key \X Entry] : count \in 0 .. kv_count_limit} :
     Sorted(entries)}

(* The filter's size is chosen for the memtable's limit in a flush, for    *)
(* the sum of the inputs' counts in a merge; both are bounds only.         *)
Inputs ==
  UNION {[writer : {"flush", "merge"}, entries : {table}, skip_deleted : BOOLEAN,
          key_count : Max({1, Len(table)}) .. kv_count_limit] : table \in Tables}

Bits == bits_count(input.key_count)
Hashes == hash_func_count(input.key_count)

Init ==
  /\ input \in Inputs
  /\ pc = "data"
  /\ n = 0
  /\ kv_count = 0
  /\ data_size = 0
  /\ indexblock = <<>>
  /\ filter = IF input.writer = "merge" THEN NoBits(Bits)
              ELSE Inserted(NoBits(Bits), {input.entries[i][1] : i \in DOMAIN input.entries},
                            Bits, Hashes)
  /\ file = [o \in {} |-> <<>>]
  /\ st_size = 0
  /\ it = nullopt
  /\ seen = <<>>

SkipEntry ==
  /\ pc = "data"
  /\ n < Len(input.entries)
  /\ Skipped(input.entries[n + 1])
  /\ n' = n + 1
  /\ UNCHANGED <<input, pc, kv_count, data_size, indexblock, filter, file, st_size, it, seen>>

(* MakeDataBlockInFd counts the bytes of keys and values only. *)
FlushEntry ==
  /\ pc = "data"
  /\ input.writer = "flush"
  /\ n < Len(input.entries)
  /\ LET kv == input.entries[n + 1]
     IN  /\ ~Skipped(kv)
         /\ Write(KVPieces(kv))
         /\ data_size' = data_size + KeySize[kv[1]] + ValueSize[kv[2]]
  /\ kv_count' = kv_count + 1
  /\ n' = n + 1
  /\ UNCHANGED <<input, pc, indexblock, filter, it, seen>>

(* The merge's loop body, once the entry is chosen. *)
MergeEntry ==
  /\ pc = "data"
  /\ input.writer = "merge"
  /\ n < Len(input.entries)
  /\ LET kv == input.entries[n + 1]
     IN  /\ ~Skipped(kv)
         /\ Write(KVPieces(kv))
         /\ filter' = Inserted(filter, {kv[1]}, Bits, Hashes)
         /\ indexblock' = Append(indexblock, data_size)
         /\ data_size' = data_size + KeySize[kv[1]] + ValueSize[kv[2]] + SizesSize
  /\ kv_count' = kv_count + 1
  /\ n' = n + 1
  /\ UNCHANGED <<input, pc, it, seen>>

(* Without an entry nothing else is written. *)
EndOfData ==
  /\ pc = "data"
  /\ n = Len(input.entries)
  /\ pc' = IF kv_count = 0 THEN "nothing" ELSE "filter"
  /\ UNCHANGED <<input, n, kv_count, data_size, indexblock, filter, file, st_size, it, seen>>

MakeFilterBlockInFd ==
  /\ pc = "filter"
  /\ Write([w \in 1 .. Cardinality(DOMAIN filter) |-> [is |-> "word", bits |-> filter[w - 1]]])
  /\ pc' = "index"
  /\ UNCHANGED <<input, n, kv_count, data_size, indexblock, filter, it, seen>>

EntryBytes(kv) == KeySize[kv[1]] + ValueSize[kv[2]] + SizesSize

(* MUTANT: skipped tombstones still advance the offset. *)
FlushOffsetsUnskipped ==
  LET all == Sums([i \in DOMAIN input.entries |-> EntryBytes(input.entries[i])])
  IN  [m \in DOMAIN Written |->
         all[(CHOOSE i \in DOMAIN input.entries : input.entries[i] = Written[m]) - 1]]

(* MakeIndexBlockInFd walks the list once more and adds up the offsets. *)
FlushOffsets ==
  LET ends == Sums([m \in DOMAIN Written |-> EntryBytes(Written[m])])
  IN  [m \in DOMAIN Written |-> ends[m - 1]]

WriteIndexBlock ==
  /\ pc = "index"
  /\ LET offsets == IF input.writer = "flush" THEN FlushOffsets ELSE indexblock
     IN  Write([m \in DOMAIN offsets |-> [is |-> "offset", offset |-> offsets[m]]])
  /\ pc' = "meta"
  /\ UNCHANGED <<input, n, kv_count, data_size, indexblock, filter, it, seen>>

(* The flush computes the end of its data block, the merge has counted it. *)
DataEnd == IF input.writer = "flush" THEN data_size + kv_count * SizesSize ELSE data_size

WriteMetaBlock ==
  /\ pc = "meta"
  /\ Write(<<[is |-> "meta",
              filter_offset |-> DataEnd,
              filter_bits_count |-> Bits,
              filter_hash_func_count |-> Hashes,
              index_offset |-> DataEnd + FilterBytes(filter),
              kv_count |-> IF input.writer = "flush" THEN kv_count ELSE Len(indexblock)]>>)
  /\ pc' = "written"
  /\ UNCHANGED <<input, n, kv_count, data_size, indexblock, filter, it, seen>>

----------------------------------------------------------------------------
(* Reading: SSTableReader over the finished file. *)

Garbage ==
  [sizes |-> [key_size |-> 0, value_size |-> 0], key |-> [key |-> nullopt],
   value |-> [value |-> nullopt], word |-> [bits |-> {}], offset |-> [offset |-> 0],
   meta |-> [filter_offset |-> 0, filter_bits_count |-> 1, filter_hash_func_count |-> 0,
             index_offset |-> 0, kv_count |-> 0]]

Pread(kind, offset) ==
  IF offset \in DOMAIN file /\ file[offset].is = kind THEN file[offset] ELSE Garbage[kind]

(* The constructor reads the last bytes of the file. *)
meta == Pread("meta", st_size - MetaSize)

GetFilterIthBit(i) ==
  (i % WordBits) \in Pread("word", meta.filter_offset + (i \div WordBits) * WordSize).bits

(* Find passes both halves of the hash, which are combined here. *)
TestHashes(k) ==
  \A i \in 0 .. meta.filter_hash_func_count - 1 :
    GetFilterIthBit(((HashLow[k] + i * HashHigh[k]) % HashBase) % meta.filter_bits_count)

(* The key at an offset, where its value is, and how long. *)
KeyAt(offset) ==
  LET sizes == Pread("sizes", offset)
  IN  [key |-> Pread("key", offset + SizesSize).key,
       value_offset |-> offset + SizesSize + sizes.key_size,
       value_size |-> sizes.value_size]

GetIthKey(i) == KeyAt(Pread("offset", meta.index_offset + i * OffsetSize).offset)

GetValue(token) ==
  IF token.value_size = 0 THEN Empty ELSE Pread("value", token.value_offset).value

Begin ==
  /\ pc = "written"
  /\ pc' = "reading"
  /\ it' = KeyAt(0)
  /\ seen' = <<<<it'.key, GetValue(it')>>>>
  /\ UNCHANGED <<input, n, kv_count, data_size, indexblock, filter, file, st_size>>

(* MUTANT: the end of the data block is taken for that of the last key. *)
IsEndAtValue == it.value_offset = meta.filter_offset

IsEnd == it.value_offset + it.value_size = meta.filter_offset

(* ++: the next entry begins where the value ends. *)
Advance ==
  /\ pc = "reading"
  /\ ~IsEnd
  /\ it.value_offset + it.value_size < st_size   \* beyond, there is nothing to read
  /\ it' = KeyAt(it.value_offset + it.value_size)
  /\ seen' = Append(seen, <<it'.key, GetValue(it')>>)
  /\ UNCHANGED <<input, pc, n, kv_count, data_size, indexblock, filter, file, st_size>>

Exhausted ==
  /\ pc = "reading"
  /\ IsEnd
  /\ pc' = "read"
  /\ UNCHANGED <<input, n, kv_count, data_size, indexblock, filter, file, st_size, it, seen>>

Next ==
  \/ SkipEntry
  \/ FlushEntry
  \/ MergeEntry
  \/ EndOfData
  \/ MakeFilterBlockInFd
  \/ WriteIndexBlock
  \/ WriteMetaBlock
  \/ Begin
  \/ Advance
  \/ Exhausted

(* One thread writes, then reads; the loops are not interrupted for ever.  *)
Spec == Init /\ [][Next]_vars /\ WF_vars(Next)

----------------------------------------------------------------------------
(* Properties. *)

(* Counters and offsets are naturals, the file holds known pieces inside   *)
(* its size.                                                               *)
TypeOK ==
  /\ {n, kv_count, data_size, st_size} \subseteq Nat
  /\ indexblock \in Seq(Nat)
  /\ \A w \in DOMAIN filter : filter[w] \subseteq 0 .. WordBits - 1
  /\ \A o \in DOMAIN file : o + Length(file[o]) <= st_size
  /\ pc \in {"data", "nothing", "filter", "index", "meta", "written", "reading", "read"}

Complete == pc \in {"written", "reading", "read"}

(* The binary search's view: the i-th offset of the index block leads to   *)
(* the i-th entry that was written, with its own key and value, in files   *)
(* of either writer, with tombstones kept or skipped.                      *)
IndexLeadsToEntries ==
  Complete =>
    /\ meta.kv_count = Len(Written)
    /\ \A i \in 0 .. meta.kv_count - 1 :
         <<GetIthKey(i).key, GetValue(GetIthKey(i))>> = Written[i + 1]

(* The merge's view: the iterator shows the entries in order, and says     *)
(* that it is at the end on the last one and on no other.                  *)
IteratorFollowsEntries ==
  pc \in {"reading", "read"} =>
    /\ seen = SubSeq(Written, 1, Len(seen))
    /\ IsEnd <=> Len(seen) = Len(Written)

(* The lookup's view: the filter in the file never denies a key of the     *)
(* table, and answers for every other key as the filter in memory did.     *)
FilterKeepsItsAnswers ==
  Complete =>
    /\ \A i \in DOMAIN Written : TestHashes(Written[i][1])
    /\ \A k \in Key : TestHashes(k) <=> Found(filter, k, Bits, Hashes)
============================================================================

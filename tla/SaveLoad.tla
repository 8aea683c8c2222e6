------------------------------ MODULE SaveLoad ------------------------------
(***************************************************************************)
(* The file at tree_data_, byte by byte (src/lsm_tree/lsm_tree.cpp): the   *)
(* destructor truncates it and writes parameters, level counts and the     *)
(* memtable; the loading constructor reads them back and checks no read    *)
(* but the first.  A crash or a full disk between leaves a shorter file.   *)
(*                                                                         *)
(* A number has WordSize bytes, low byte first, of Base values each.  Of   *)
(* the parameters only the two counts that the reading depends on are      *)
(* kept; Fixed stands for the bytes of the others.                         *)
(***************************************************************************)
EXTENDS Integers, Sequences

CONSTANTS Base, WordSize, Fixed,
          Levels,      \* the level counts a tree may have
          Memtables,   \* its entries in order: sequences of <<key, value>>
          junk         \* the bytes that uninitialised memory may hold

Byte == 0 .. Base - 1

(* What is left of n after each of its bytes. *)
Rest(n) ==
  LET rest[b \in 0 .. WordSize] == IF b = 0 THEN n ELSE rest[b - 1] \div Base IN rest

Word(n) == [b \in 1 .. WordSize |-> Rest(n)[b - 1] % Base]
Fits(n) == Rest(n)[WordSize] = 0

(* The number of the WordSize bytes behind a place. *)
NumberAt(bytes, place) ==
  LET upper[b \in 0 .. WordSize] ==
        IF b = 0 THEN 0 ELSE bytes[place + WordSize + 1 - b] + Base * upper[b - 1]
  IN  upper[WordSize]

(* Every size and count fits the type it is saved in; a table has one      *)
(* entry for a key.                                                        *)
ASSUME SaveAssumption ==
  /\ Base \in Nat \ {0, 1} /\ WordSize \in Nat \ {0}
  /\ Fixed \in Seq(Byte)
  /\ Levels \subseteq Seq(Nat) /\ Memtables \subseteq Seq(Seq(Byte) \X Seq(Byte))
  /\ \A counts \in Levels :
       Fits(Len(counts)) /\ \A n \in DOMAIN counts : Fits(counts[n])
  /\ \A table \in Memtables :
       /\ Fits(Len(table))
       /\ \A m, n \in DOMAIN table : m # n => table[m][1] # table[n][1]
       /\ \A n \in DOMAIN table : Fits(Len(table[n][1])) /\ Fits(Len(table[n][2]))
  /\ junk \subseteq Byte

VARIABLES
  levels, entries,   \* the tree that is destroyed; an empty value is a tombstone
  file,              \* what tree_data_ holds
  pc,
  written,           \* how many of the destructor's write() calls are done
  pos,               \* how far the constructor has read
  levels_,           \* the levels it has got
  memtable_,         \* and the entries: a map from keys to values
  kv_count,          \* params.memtable_kv_count
  rounds,            \* how often its loop has inserted an entry
  keyBuffer, valueBuffer   \* key and value, its buffers

saving == <<levels, entries, file, written>>
loading == <<pos, levels_, memtable_, kv_count, rounds, keyBuffer, valueBuffer>>
saveVars == <<levels, entries, file, pc, written, pos, levels_, memtable_, kv_count, rounds,
              keyBuffer, valueBuffer>>

----------------------------------------------------------------------------
(* The destructor. *)

Params == Fixed \o Word(Len(entries)) \o Word(Len(levels))

SavedLevels ==
  [b \in 1 .. Len(levels) * WordSize |->
     Word(levels[((b - 1) \div WordSize) + 1])[((b - 1) % WordSize) + 1]]

(* Of an entry the sizes, then key and value. *)
EntryBytes(entry) == Word(Len(entry[1])) \o Word(Len(entry[2])) \o entry[1] \o entry[2]

(* MUTANT: tombstones are skipped as in the first table of a tree. *)
DumpKVInFdSkipping ==
  [n \in 1 .. Len(entries) |->
     IF entries[n][2] = <<>> THEN <<>> ELSE EntryBytes(entries[n])]

DumpKVInFd == [n \in 1 .. Len(entries) |-> EntryBytes(entries[n])]

(* What is written, in parts that may each be cut anywhere; and the file   *)
(* after each of them.                                                     *)
Writes == <<Params, SavedLevels>> \o DumpKVInFd
Joined ==
  LET writes == Writes
      joined[n \in 0 .. Len(writes)] == IF n = 0 THEN <<>> ELSE joined[n - 1] \o writes[n]
  IN  joined
Image == Joined[Len(Writes)]

SaveInit ==
  /\ levels \in Levels /\ entries \in Memtables
  /\ file = <<>>             \* O_TRUNC
  /\ pc = "save"
  /\ written = 0
  /\ pos = 0
  /\ levels_ = <<>> /\ memtable_ = [key \in {} |-> <<>>]
  /\ kv_count = 0 /\ rounds = 0
  /\ keyBuffer = <<>> /\ valueBuffer = <<>>

WritePart ==
  /\ pc = "save"
  /\ written < Len(Writes)
  /\ file' = file \o Writes[written + 1]
  /\ written' = written + 1
  /\ UNCHANGED <<levels, entries, pc, loading>>

(* The process dies, or the disk is full, after any byte of a write(). *)
WriteCut ==
  /\ pc = "save"
  /\ written < Len(Writes)
  /\ \E n \in 0 .. Len(Writes[written + 1]) - 1 :
       file' = file \o SubSeq(Writes[written + 1], 1, n)
  /\ pc' = "load"
  /\ UNCHANGED <<levels, entries, written, loading>>

Saved ==
  /\ pc = "save"
  /\ written = Len(Writes)
  /\ pc' = "load"
  /\ UNCHANGED <<saving, loading>>

----------------------------------------------------------------------------
(* The loading constructor. *)

Least(m, n) == IF m < n THEN m ELSE n

(* read(fd, buffer, Len(buffer)) at pos: the bytes that are left, the rest *)
(* of the buffer stays.                                                    *)
Read(from, buffer) ==
  [n \in DOMAIN buffer |-> IF from + n <= Len(file) THEN file[from + n] ELSE buffer[n]]

After(from, buffer) == Least(from + Len(buffer), Len(file))

(* MUTANT: the buffer never shrinks. *)
ResizedUpwards(buffer, n) ==
  [b \in 1 .. IF n > Len(buffer) THEN n ELSE Len(buffer) |->
     IF b <= Len(buffer) THEN buffer[b] ELSE 0]

(* std::vector::resize: new bytes are zero, old ones stay. *)
Resized(buffer, n) == [b \in 1 .. n |-> IF b <= Len(buffer) THEN buffer[b] ELSE 0]

LoadRefused ==
  /\ pc = "load"
  /\ Len(file) < Len(Params)
  /\ pc' = "refused"
  /\ UNCHANGED <<saving, loading>>

LoadParams ==
  /\ pc = "load"
  /\ Len(file) >= Len(Params)
  /\ pc' = "levels"
  /\ pos' = Len(Params)
  /\ kv_count' = NumberAt(file, Len(Fixed))
  /\ levels_' = [n \in 1 .. NumberAt(file, Len(Fixed) + WordSize) |-> 0]
  /\ UNCHANGED <<saving, memtable_, rounds, keyBuffer, valueBuffer>>

(* MUTANT: the counts' memory is not set to zero before they are read. *)
LevelBytesUncleared == [b \in 1 .. Len(levels_) * WordSize |-> Base - 1]

(* levels_.resize(params.level_count) *)
LevelBytes == [b \in 1 .. Len(levels_) * WordSize |-> 0]

LoadLevels ==
  /\ pc = "levels"
  /\ pos' = After(pos, LevelBytes)
  /\ levels_' = [n \in DOMAIN levels_ |->
                   NumberAt(Read(pos, LevelBytes), (n - 1) * WordSize)]
  /\ pc' = "entries"
  /\ UNCHANGED <<saving, memtable_, kv_count, rounds, keyBuffer, valueBuffer>>

(* memtable_->Insert(key, value): a key that is there gets another value.  *)
Inserted(table, key, value) ==
  [k \in DOMAIN table \cup {key} |-> IF k = key THEN value ELSE table[k]]

(* One round of the loop.  KVSizes is not initialised: what is not read of *)
(* it is junk.  What is not read of key and value is left from the round   *)
(* before, or zero.                                                        *)
LoadEntry ==
  /\ pc = "entries"
  /\ rounds < kv_count
  /\ \E uninitialised \in [1 .. 2 * WordSize -> junk] :
       LET sizes == Read(pos, uninitialised)
           key0 == Resized(keyBuffer, NumberAt(sizes, 0))
           value0 == Resized(valueBuffer, NumberAt(sizes, WordSize))
           keyPos == After(pos, sizes)
           valuePos == After(keyPos, key0)
       IN  /\ keyBuffer' = Read(keyPos, key0)
           /\ valueBuffer' = Read(valuePos, value0)
           /\ pos' = After(valuePos, value0)
  /\ memtable_' = Inserted(memtable_, keyBuffer', valueBuffer')
  /\ rounds' = rounds + 1
  /\ UNCHANGED <<saving, pc, levels_, kv_count>>

(* Junk sizes may be more than there is memory. *)
LoadEntryThrows ==
  /\ pc = "entries"
  /\ rounds < kv_count
  /\ pos + 2 * WordSize > Len(file)
  /\ pc' = "refused"
  /\ UNCHANGED <<saving, loading>>

LoadEnd ==
  /\ pc = "entries"
  /\ rounds = kv_count
  /\ pc' = "loaded"
  /\ UNCHANGED <<saving, loading>>

SaveNext ==
  \/ WritePart \/ WriteCut \/ Saved
  \/ LoadRefused \/ LoadParams \/ LoadLevels \/ LoadEntry \/ LoadEntryThrows \/ LoadEnd

SaveSpec == SaveInit /\ [][SaveNext]_saveVars

----------------------------------------------------------------------------
(* Properties. *)

(* Files are sequences of bytes, counts numbers, and the file is always a  *)
(* beginning of the whole one.                                             *)
SaveTypeOK ==
  /\ pc \in {"save", "load", "levels", "entries", "loaded", "refused"}
  /\ file \in Seq(Byte)
  /\ pos \in 0 .. Len(file)
  /\ levels_ \in Seq(Nat)
  /\ DOMAIN memtable_ \subseteq Seq(Byte)
  /\ \A key \in DOMAIN memtable_ : memtable_[key] \in Seq(Byte)
  /\ rounds \in 0 .. kv_count
  /\ file = SubSeq(Image, 1, Len(file))

(* The n-th entry is in the memtable as it was saved. *)
AsSaved(n) ==
  /\ entries[n][1] \in DOMAIN memtable_
  /\ memtable_[entries[n][1]] = entries[n][2]

(* A destructor that was not interrupted: the next session has the levels  *)
(* and the entries of the last, tombstones among them, and no other.       *)
SavedComesBack ==
  file = Image =>
    /\ pc # "refused"
    /\ pc = "loaded" =>
         /\ levels_ = levels
         /\ DOMAIN memtable_ = {entries[n][1] : n \in DOMAIN entries}
         /\ \A n \in DOMAIN entries : AsSaved(n)

(* However short the file is, a tree that loads has the number of levels   *)
(* that was saved, and no level counts more components than were saved:    *)
(* lookups never reach for a table that does not exist.                    *)
LevelsWithinSaved ==
  pc \in {"levels", "entries", "loaded"} =>
    /\ Len(levels_) = Len(levels)
    /\ \A n \in DOMAIN levels : levels_[n] <= levels[n]

(* Where the n-th entry ends in the file, and whether the file has it all. *)
EndOfEntry(n) == Len(Joined[2 + n])
Whole(n) == EndOfEntry(n) <= Len(file)

(* The key in the buffer when the n-th entry is read, if those before it   *)
(* are whole.                                                              *)
LastKey(n) == IF n = 1 THEN <<>> ELSE entries[n - 1][1]

(* A key that the loop may make up from the first entry that is cut on:    *)
(* each of its bytes is the cut key's, or left from the key before, or     *)
(* zero.                                                                   *)
FirstCut(n) == ~Whole(n) /\ (n = 1 \/ Whole(n - 1))
MadeFrom(key, n) ==
  \A b \in DOMAIN key :
    \/ key[b] = 0
    \/ b <= Len(LastKey(n)) /\ key[b] = LastKey(n)[b]
    \/ b <= Len(entries[n][1]) /\ key[b] = entries[n][1][b]
MadeUp(key) == \E n \in 1 .. rounds : FirstCut(n) /\ MadeFrom(key, n)

(* The loop makes as many rounds as entries were saved, whatever is in the *)
(* file.  Every entry that is whole in the file and has had its round is   *)
(* in the memtable as it was saved, unless its key is one that a later     *)
(* round may make up: then its value may be overwritten, or erased.  And   *)
(* every key of the memtable is that of a whole entry, or made up.         *)
WholeEntriesLoaded ==
  pc \in {"entries", "loaded"} =>
    /\ kv_count = Len(entries)
    /\ \A n \in 1 .. rounds : Whole(n) => AsSaved(n) \/ MadeUp(entries[n][1])
    /\ \A key \in DOMAIN memtable_ :
         MadeUp(key) \/ \E n \in 1 .. rounds : Whole(n) /\ key = entries[n][1]
============================================================================

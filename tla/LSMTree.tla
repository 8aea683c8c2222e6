------------------------------ MODULE LSMTree ------------------------------
(***************************************************************************)
(* The tree itself (src/lsm_tree/lsm_tree.cpp): the memtable, the numbers  *)
(* of components per level, the sorted tables on disk, the flush that      *)
(* turns a full memtable into a table of level 0, the cascading compaction *)
(* that merges full levels into the next one, and the file that carries    *)
(* the tree from its destructor to the loading constructor.                *)
(*                                                                         *)
(* Every public operation holds mtx_ from its first line to its last, so   *)
(* one operation is one step.  A step that fails half way (a system call   *)
(* refuses) is an action of its own, with the state the code leaves.       *)
(*                                                                         *)
(* An operator marked MUTANT is a wrong version of the one below it; no    *)
(* definition uses it, it shows that a property can fail.                  *)
(***************************************************************************)
EXTENDS Integers, Sequences, FiniteSets

CONSTANTS
  Key,
  Value,                    \* the non-empty values
  Empty,                    \* the empty value: a tombstone
  nullopt,                  \* "no entry", and the answer for a missing key
  Bit, HashBits,            \* HashBits[k]: the filter bits that key k sets
  sstable_scaling_factor,
  memtable_kv_count_limit,
  Faults                    \* the system calls that may fail

ASSUME SentinelAssumption ==
  /\ Empty \notin Value
  /\ nullopt \notin Value \cup {Empty}

ASSUME ParameterAssumption ==
  /\ sstable_scaling_factor \in Nat
  /\ memtable_kv_count_limit \in Nat \ {0}   \* ThrowIfZeroLimit
  /\ HashBits \in [Key -> SUBSET Bit]
  /\ Faults \subseteq {"flush", "reader", "compaction", "save"}

VARIABLES
  memtable,    \* memtable_: the entries of the skip list
  levels,      \* levels_: levels[i + 1] components at level i
  files,       \* the .sst files on disk, by <<level, number>>
  tree_data,   \* the file at tree_data_, nullopt before the first save
  open         \* an LSMTree object exists

vars == <<memtable, levels, files, tree_data, open>>

----------------------------------------------------------------------------
(* Tables: the entries of the memtable or of an .sst file. *)

Entry == Value \cup {Empty}
Table == [Key -> Entry \cup {nullopt}]
EmptyTable == [k \in Key |-> nullopt]
Keys(table) == {k \in Key : table[k] # nullopt}

Path == Nat \X Nat
SSTable == [kv : Table, filter : SUBSET Bit]
ZeroBytes == [kv |-> EmptyTable, filter |-> {}]
SavedTree == [memtable : Table, levels : Seq(Nat)]

ASSUME SavedTreeAssumption == nullopt \notin SavedTree

(* A found tombstone is answered as a missing key. *)
Visible(entry) == IF entry = Empty THEN nullopt ELSE entry

FilterOf(keys) == UNION {HashBits[k] : k \in keys}

(* MUTANT: a file that exists is not truncated, its old end stays.         *)
StoredUntruncated(fs, path, sst) ==
  [p \in DOMAIN fs \cup {path} |-> IF p \in DOMAIN fs THEN fs[p] ELSE sst]

(* open(O_WRONLY | O_CREAT | O_TRUNC), write, close; and unlink. *)
Stored(fs, path, sst) ==
  [p \in DOMAIN fs \cup {path} |-> IF p = path THEN sst ELSE fs[p]]
Unlinked(fs, paths) == [p \in DOMAIN fs \ paths |-> fs[p]]

----------------------------------------------------------------------------
(* Levels and components. *)

(* The tables that lv names, and the order of their age. *)
Components(lv) == UNION {{i} \X (0 .. lv[i + 1] - 1) : i \in 0 .. Len(lv) - 1}
Newer(p, q) == p[1] < q[1] \/ (p[1] = q[1] /\ p[2] > q[2])
Newest(paths) == CHOOSE p \in paths : \A q \in paths : p = q \/ Newer(p, q)

(* The entry for k in the newest of these tables that has one. *)
Holding(fs, paths, k) == {p \in paths \cap DOMAIN fs : fs[p].kv[k] # nullopt}
NewestEntry(fs, paths, k) ==
  IF Holding(fs, paths, k) = {} THEN nullopt
  ELSE fs[Newest(Holding(fs, paths, k))].kv[k]

(* GetLastComponentAtLevel: levels_ afterwards, and what it returns. *)
Grown(lv, level) == IF level = Len(lv) THEN Append(lv, 0) ELSE lv

(* MUTANT: the deepest level is taken for a new one. *)
CreatedOrDeepest(lv, level) == level + 1 >= Len(lv)

CreatedJustNow(lv, level) == level = Len(lv)

(* MUTANT: the number of the last component instead of the next one. *)
LastComponentReused(lv, level) ==
  <<level, IF Grown(lv, level)[level + 1] = 0 THEN 0 ELSE Grown(lv, level)[level + 1] - 1>>

LastComponent(lv, level) == <<level, Grown(lv, level)[level + 1]>>

----------------------------------------------------------------------------
(* What a key's value is: the newest entry decides. *)

Lookup(mem, lv, fs, k) ==
  Visible(IF mem[k] # nullopt THEN mem[k] ELSE NewestEntry(fs, Components(lv), k))

(* Find: the memtable, then the levels from 0 on, each from its last       *)
(* component to its first, skipping the tables whose filter says no.       *)
TestHashes(sst, k) == HashBits[k] \subseteq sst.filter

FindInComponents(k) ==
  LET Level[i \in 0 .. Len(levels)] ==
        IF i = Len(levels) THEN nullopt
        ELSE LET Read[j \in 0 .. levels[i + 1]] ==
                   IF j = 0 THEN Level[i + 1]
                   ELSE LET sst == files[<<i, j - 1>>]
                        IN  IF TestHashes(sst, k) /\ sst.kv[k] # nullopt
                            THEN Visible(sst.kv[k])
                            ELSE Read[j - 1]
             IN  Read[levels[i + 1]]
  IN  Level[0]

Find(k) ==
  IF memtable[k] # nullopt THEN Visible(memtable[k]) ELSE FindInComponents(k)

(* MUTANT: a tombstone does not erase the older entry. *)
OverlayKeepingErased(res, table, range) ==
  [k \in Key |-> IF k \in range /\ table[k] \in Value THEN table[k] ELSE res[k]]

(* FindRange: the deepest level first, each level from its first component *)
(* to its last, the memtable at the end; an entry overwrites or erases     *)
(* what older tables put in the result.                                    *)
Overlay(res, table, range) ==
  [k \in Key |-> IF k \in range \cap Keys(table) THEN Visible(table[k]) ELSE res[k]]

FindRange(range) ==
  LET Level[i \in 0 .. Len(levels)] ==
        IF i = Len(levels) THEN EmptyTable
        ELSE LET Read[j \in 0 .. levels[i + 1]] ==
                   IF j = 0 THEN Level[i + 1]
                   ELSE Overlay(Read[j - 1], files[<<i, j - 1>>].kv, range)
             IN  Read[levels[i + 1]]
  IN  Overlay(Level[0], memtable, range)

----------------------------------------------------------------------------
(* Insert(k, e), and Erase(k) as Insert(k, Empty): the memtable takes the  *)
(* entry, then TryCompacting runs.                                         *)

Written(k, e) == [memtable EXCEPT ![k] = e]
Full(mem) == Cardinality(Keys(mem)) >= memtable_kv_count_limit

InsertBuffered(k, e) ==
  /\ open
  /\ ~Full(Written(k, e))
  /\ memtable' = Written(k, e)
  /\ UNCHANGED <<levels, files, tree_data, open>>

(* MakeSSTableInFd: tombstones are left out of the first table of a tree,  *)
(* the filter is the memtable's and covers their keys all the same.        *)
SkipDeleted(mem, skip_deleted) ==
  [k \in Key |-> IF skip_deleted /\ mem[k] = Empty THEN nullopt ELSE mem[k]]

(* MUTANT: the memtable is cleared before its filter is written. *)
MakeSSTableCleared(mem, skip_deleted) ==
  [kv |-> SkipDeleted(mem, skip_deleted), filter |-> {}]

MakeSSTable(mem, skip_deleted) ==
  LET kv == SkipDeleted(mem, skip_deleted)
  IN  IF kv = EmptyTable THEN ZeroBytes
      ELSE [kv |-> kv, filter |-> FilterOf(Keys(mem))]

(* The table that flushing mem writes, and where it goes. *)
FlushedTable(mem) == MakeSSTable(mem, CreatedJustNow(levels, 0))
FlushedFiles(mem) == Stored(files, LastComponent(levels, 0), FlushedTable(mem))
FlushedLevels == [Grown(levels, 0) EXCEPT ![1] = @ + 1]

(* MUTANT: a level beyond the factor is merged too. *)
LevelAtLeastFilled == FlushedLevels[1] >= sstable_scaling_factor

LevelFilled == FlushedLevels[1] = sstable_scaling_factor

(* MUTANT: the memtable is cleared before open(). *)
InsertFlushThrowsCleared(k, e) ==
  /\ open /\ Full(Written(k, e)) /\ "flush" \in Faults
  /\ memtable' = EmptyTable
  /\ levels' = Grown(levels, 0)
  /\ UNCHANGED <<files, tree_data, open>>

(* The table cannot be created: TryCompacting throws with the memtable     *)
(* still full and level 0 possibly created.                                *)
InsertFlushThrows(k, e) ==
  /\ open
  /\ Full(Written(k, e))
  /\ "flush" \in Faults
  /\ memtable' = Written(k, e)
  /\ levels' = Grown(levels, 0)
  /\ UNCHANGED <<files, tree_data, open>>

(* Nothing but tombstones in a tree without tables: a new level 0 is       *)
(* popped again, the file stays behind with no byte in it.                 *)
InsertFlushedNothing(k, e) ==
  /\ open
  /\ Full(Written(k, e))
  /\ FlushedTable(Written(k, e)) = ZeroBytes
  /\ memtable' = EmptyTable
  /\ files' = FlushedFiles(Written(k, e))
  /\ UNCHANGED <<levels, tree_data, open>>

InsertFlushed(k, e) ==
  /\ open
  /\ Full(Written(k, e))
  /\ FlushedTable(Written(k, e)) # ZeroBytes
  /\ ~LevelFilled
  /\ memtable' = EmptyTable
  /\ levels' = FlushedLevels
  /\ files' = FlushedFiles(Written(k, e))
  /\ UNCHANGED <<tree_data, open>>

----------------------------------------------------------------------------
(* CompactLevelsUpTo(level), with levels_ = lv and the files fs. *)

(* MUTANT: the level's count is compared without the component it gets. *)
IsTargetUntilFull(lv, level) ==
  /\ level \in 1 .. Len(lv)
  /\ level < Len(lv) => lv[level + 1] # sstable_scaling_factor
  /\ \A i \in 1 .. level - 1 : lv[i + 1] = sstable_scaling_factor

(* The first level that stays below the scaling factor when it gets one    *)
(* more component, a new one if there is none.                             *)
IsCompactionTarget(lv, level) ==
  /\ level \in 1 .. Len(lv)
  /\ level < Len(lv) => lv[level + 1] + 1 # sstable_scaling_factor
  /\ \A i \in 1 .. level - 1 : lv[i + 1] + 1 = sstable_scaling_factor

Inputs(lv, level) == {p \in Components(lv) : p[1] < level}

(* The heap yields the keys in order, for equal keys the newest reader     *)
(* first; the others are skipped.                                          *)
MergedEntry(fs, inputs, k) == NewestEntry(fs, inputs, k)

MergedKV(lv, fs, level) ==
  LET merged == [k \in Key |-> MergedEntry(fs, Inputs(lv, level), k)]
  IN  SkipDeleted(merged, CreatedJustNow(lv, level))

(* MUTANT: the filter misses the tombstones that are kept. *)
MergedTableFilteringLive(lv, fs, level) ==
  LET kv == MergedKV(lv, fs, level)
  IN  [kv |-> kv, filter |-> FilterOf({k \in Key : kv[k] \in Value})]

MergedTable(lv, fs, level) ==
  LET kv == MergedKV(lv, fs, level)
  IN  [kv |-> kv, filter |-> FilterOf(Keys(kv))]

(* The tables a merge may produce.  A table without a byte, which stale    *)
(* level counts may name, has no meta block: its reader's is uninitialised *)
(* and the merge, if it ends, yields any table.                            *)
MergedTables(lv, fs, level) ==
  IF \A p \in Inputs(lv, level) : fs[p].kv # EmptyTable
  THEN {MergedTable(lv, fs, level)}
  ELSE {[kv |-> kv, filter |-> FilterOf(Keys(kv))] : kv \in Table}

(* MUTANT: the inputs are subtracted, as many at every level as at level 0. *)
CompactedLevelsSubtracted(lv, level, sst) ==
  [n \in 1 .. Len(Grown(lv, level)) |->
     IF n <= level THEN lv[n] - sstable_scaling_factor
     ELSE Grown(lv, level)[n] + IF n = level + 1 THEN 1 ELSE 0]

(* A table with entries is counted; a new level without any is popped.     *)
CompactedLevels(lv, level, sst) ==
  LET counted == IF sst # ZeroBytes THEN 1 ELSE 0
      popped  == sst = ZeroBytes /\ CreatedJustNow(lv, level)
  IN  [n \in 1 .. IF popped THEN level ELSE Len(Grown(lv, level)) |->
         IF n <= level THEN 0
         ELSE IF n = level + 1 THEN Grown(lv, level)[n] + counted
         ELSE lv[n]]

(* MUTANTS: the last table of level 0 is forgotten; one level too many. *)
ConsumedPathsButLast(level) == (0 .. level - 1) \X (0 .. sstable_scaling_factor - 2)
ConsumedPathsAndTarget(level) ==
  ((0 .. level) \X (0 .. sstable_scaling_factor - 2))
    \cup {<<0, sstable_scaling_factor - 1>>}

ConsumedPaths(level) ==
  ((0 .. level - 1) \X (0 .. sstable_scaling_factor - 2))
    \cup {<<0, sstable_scaling_factor - 1>>}

(* The insert that flushes and fills level 0. *)
InsertFillsLevel(k, e) ==
  /\ open
  /\ Full(Written(k, e))
  /\ FlushedTable(Written(k, e)) # ZeroBytes
  /\ LevelFilled
  /\ memtable' = EmptyTable
  /\ UNCHANGED <<tree_data, open>>

InsertCompacted(k, e) ==
  /\ InsertFillsLevel(k, e)
  /\ \E level \in 1 .. Len(FlushedLevels) :
       LET fs == FlushedFiles(Written(k, e))
       IN  /\ IsCompactionTarget(FlushedLevels, level)
           /\ Inputs(FlushedLevels, level) \subseteq DOMAIN fs
           /\ \E sst \in MergedTables(FlushedLevels, fs, level) :
                /\ levels' = CompactedLevels(FlushedLevels, level, sst)
                /\ files' = Unlinked(Stored(fs, LastComponent(FlushedLevels, level), sst),
                                     ConsumedPaths(level))

(* The files after a merge that throws: its output is truncated, if it     *)
(* could be created.                                                       *)
AfterThrow(fs, path) ==
  {Stored(fs, path, ZeroBytes)} \cup IF "compaction" \in Faults THEN {fs} ELSE {}

(* CreateReader cannot open an input: the exception leaves the truncated   *)
(* output and level 0 at the scaling factor.                               *)
InsertCompactionThrows(k, e) ==
  /\ InsertFillsLevel(k, e)
  /\ \E level \in 1 .. Len(FlushedLevels) :
       LET fs == FlushedFiles(Written(k, e))
       IN  /\ IsCompactionTarget(FlushedLevels, level)
           /\ "reader" \in Faults \/ ~ (Inputs(FlushedLevels, level) \subseteq DOMAIN fs)
           /\ levels' = Grown(FlushedLevels, level)
           /\ files' \in AfterThrow(fs, LastComponent(FlushedLevels, level))

(* The output cannot be created.  Its descriptor is not tested: the merge  *)
(* is written nowhere, counted, and the inputs are unlinked.               *)
InsertCompactedUnwritten(k, e) ==
  /\ InsertFillsLevel(k, e)
  /\ "compaction" \in Faults
  /\ \E level \in 1 .. Len(FlushedLevels) :
       LET fs == FlushedFiles(Written(k, e))
       IN  /\ IsCompactionTarget(FlushedLevels, level)
           /\ Inputs(FlushedLevels, level) \subseteq DOMAIN fs
           /\ \E sst \in MergedTables(FlushedLevels, fs, level) :
                levels' = CompactedLevels(FlushedLevels, level, sst)
           /\ files' = Unlinked(fs, ConsumedPaths(level))

----------------------------------------------------------------------------
(* Construction and destruction. *)

Init ==
  /\ memtable = EmptyTable
  /\ levels = <<>>
  /\ files = [p \in {} |-> ZeroBytes]
  /\ tree_data = nullopt
  /\ open = FALSE

(* The constructor with parameters; .sst files of an earlier tree stay.    *)
Create ==
  /\ ~open
  /\ open' = TRUE
  /\ memtable' = EmptyTable
  /\ levels' = <<>>
  /\ UNCHANGED <<files, tree_data>>

(* The loading constructor inserts the saved entries one by one. *)
Load ==
  /\ ~open
  /\ tree_data # nullopt
  /\ open' = TRUE
  /\ memtable' = tree_data.memtable
  /\ levels' = tree_data.levels
  /\ UNCHANGED <<files, tree_data>>

Destroyed ==
  /\ open
  /\ open' = FALSE
  /\ memtable' = EmptyTable
  /\ levels' = <<>>
  /\ UNCHANGED files

Close ==
  /\ Destroyed
  /\ tree_data' = [memtable |-> memtable, levels |-> levels]

(* The destructor cannot create tree_data_ and returns. *)
CloseUnsaved ==
  /\ Destroyed
  /\ "save" \in Faults
  /\ UNCHANGED tree_data

Insert(k, e) ==
  \/ InsertBuffered(k, e)
  \/ InsertFlushThrows(k, e)
  \/ InsertFlushedNothing(k, e)
  \/ InsertFlushed(k, e)
  \/ InsertCompacted(k, e)
  \/ InsertCompactionThrows(k, e)
  \/ InsertCompactedUnwritten(k, e)

Next ==
  \/ Create
  \/ Load
  \/ Close
  \/ CloseUnsaved
  \/ \E k \in Key, e \in Entry : Insert(k, e)

Spec == Init /\ [][Next]_vars

----------------------------------------------------------------------------
(* Properties. *)

(* The variables hold what the code's members and files can hold: level    *)
(* counts and file numbers are naturals, tables map keys to entries.       *)
TypeOK ==
  /\ memtable \in Table
  /\ levels \in Seq(Nat)
  /\ DOMAIN files \subseteq Path
  /\ \A p \in DOMAIN files : files[p] \in SSTable
  /\ tree_data \in SavedTree \cup {nullopt}
  /\ open \in BOOLEAN

(* The map a caller sees: the open tree, else what loading would bring back. *)
ContentsOf(mem, lv) == [k \in Key |-> Lookup(mem, lv, files, k)]
Contents ==
  IF open THEN ContentsOf(memtable, levels)
  ELSE IF tree_data = nullopt THEN EmptyTable
  ELSE ContentsOf(tree_data.memtable, tree_data.levels)

(* Flushes, compactions, dropped tombstones, failed flushes and merges,    *)
(* destruction and loading never change what a caller sees: the tree       *)
(* implements the map.                                                     *)
Store == INSTANCE KVStore WITH store <- Contents
ImplementsMap == Store!Spec

(* Whatever path an Insert or Erase takes, one that throws included, the   *)
(* write it was called for has taken effect, and nothing else has.         *)
WritesTakeEffect ==
  [][\A k \in Key, e \in Entry :
       Insert(k, e) => IF e = Empty THEN Store!Erase(k) ELSE Store!Insert(k, e)]_vars

(* The levels of the object, or of the tree that loading would bring back. *)
CurrentLevels ==
  IF open THEN levels ELSE IF tree_data = nullopt THEN <<>> ELSE tree_data.levels

(* Every table that levels_ names is on disk and has an entry: no reader   *)
(* throws for a missing file or reads the meta block of an empty one.      *)
ComponentsReadable ==
  \A p \in Components(CurrentLevels) : p \in DOMAIN files /\ files[p].kv # EmptyTable

(* The filter of a table on disk never denies a key of the table, so       *)
(* skipping a table on TestHashes loses nothing.                           *)
FiltersSound ==
  \A p \in DOMAIN files : \A k \in Keys(files[p].kv) : TestHashes(files[p], k)

(* Find's search, newest table first and stopped by the first hit, answers *)
(* the newest entry.                                                       *)
FindIsLookup == open => \A k \in Key : Find(k) = Contents[k]

(* FindRange's pass, oldest table first and overwriting, answers the same  *)
(* map restricted to the range.                                            *)
FindRangeIsLookup ==
  open => \A range \in SUBSET Key :
            FindRange(range) = [k \in Key |-> IF k \in range THEN Contents[k] ELSE nullopt]

(* Whatever fails, no level below the first fills up, in the object or in  *)
(* what it saved: the cascade stops at the first level with room.  (Level  *)
(* 0 alone may pass the factor, see WedgedForGood.)                        *)
BelowFactor(lv) == \A n \in 2 .. Len(lv) : lv[n] < sstable_scaling_factor
LevelsBelowFactor ==
  BelowFactor(levels) /\ (tree_data # nullopt => BelowFactor(tree_data.levels))

(* No operation leaves a table with entries on disk that no level names    *)
(* any more, even if it throws half way.                                   *)
Orphans == {p \in DOMAIN files \ Components(levels) : files[p].kv # EmptyTable}
NoNewOrphans == [][open /\ open' => Orphans' \subseteq Orphans]_vars

(* A merge that threw leaves level 0 at the scaling factor, and as the     *)
(* trigger compares with ==, level 0 of this object never shrinks again.   *)
WedgedForGood ==
  [][/\ open /\ open' /\ levels # <<>>
     /\ levels[1] >= sstable_scaling_factor
     => levels'[1] >= levels[1]]_vars

(* With a scaling factor of 1 every flush merges its table at once, level  *)
(* 1 takes each of them and, once it has one, is never merged itself: its  *)
(* count plus one is not the factor again.                                 *)
LevelOneNeverMerged ==
  [][open /\ open' /\ Len(levels) >= 2 => Len(levels') >= 2 /\ levels'[2] >= levels[2]]_vars
============================================================================

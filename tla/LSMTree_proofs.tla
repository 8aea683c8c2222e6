--------------------------- MODULE LSMTree_proofs ---------------------------
(***************************************************************************)
(* Invariants of LSMTree, for every set of keys and values and every       *)
(* scaling factor and memtable limit: its types, the soundness of the      *)
(* filters on disk, and that every component is on disk and has an entry.  *)
(* Then that it implements the map, and what its lookups answer.           *)
(***************************************************************************)
EXTENDS LSMTree, LeastNaturals, TLAPS

(* The components of a tree are pairs of naturals, and a pair is one of    *)
(* them exactly when its number is below the count of its level.           *)
LEMMA ComponentsDef ==
  ASSUME NEW lv \in Seq(Nat)
  PROVE  /\ Components(lv) \subseteq Path
         /\ \A i, j \in Nat : <<i, j>> \in Components(lv) <=> i < Len(lv) /\ j < lv[i + 1]
BY DEF Components, Path

(* Any non-empty set of components has a newest one. *)
LEMMA NewestIsNewest ==
  ASSUME NEW lv \in Seq(Nat), NEW S, S \subseteq Components(lv), S # {}
  PROVE  /\ Newest(S) \in S
         /\ \A q \in S : q = Newest(S) \/ Newer(Newest(S), q)
<1> DEFINE I == {p[1] : p \in S}
<1>1. S \subseteq Path
  BY ComponentsDef
<1>2. I \subseteq Nat /\ I # {}
  BY <1>1 DEF Path
<1>3. PICK i \in I : \A n \in I : i <= n
  BY <1>2, LeastNat
<1> DEFINE J == {p[2] : p \in {q \in S : q[1] = i}}
<1>4. J \subseteq Nat /\ J # {}
  BY <1>1, <1>3 DEF Path
<1>5. i + 1 \in 1 .. Len(lv) /\ lv[i + 1] \in Nat /\ \A n \in J : n <= lv[i + 1]
  <2>1. \A p \in S : p = <<p[1], p[2]>> /\ p[1] \in Nat /\ p[2] \in Nat
    BY <1>1 DEF Path
  <2>2. \A p \in S : p[1] < Len(lv) /\ p[2] < lv[p[1] + 1]
    BY <2>1, ComponentsDef
  <2>3. i \in Nat /\ i < Len(lv)
    BY <1>2, <1>3, <2>2
  <2>4. i + 1 \in 1 .. Len(lv) /\ lv[i + 1] \in Nat
    BY <2>3
  <2>5. \A q \in S : q[1] = i => q[2] \in Nat /\ q[2] < lv[i + 1]
    BY <2>1, <2>2
  <2>6. \A n \in J : n \in Nat /\ n < lv[i + 1]
    BY <2>5
  <2> HIDE DEF J
  <2> QED
    BY <2>4, <2>6
<1>6. PICK j \in J : \A n \in J : n <= j
  <2> HIDE DEF J
  <2> QED
    BY <1>4, <1>5, GreatestNat
<1>7. PICK p \in S : p[1] = i /\ p[2] = j
  BY <1>6
<1>8. \A q \in S : p = q \/ Newer(p, q)
  <2> TAKE q \in S
  <2>1. /\ p = <<p[1], p[2]>> /\ p[1] \in Nat /\ p[2] \in Nat
        /\ q = <<q[1], q[2]>> /\ q[1] \in Nat /\ q[2] \in Nat
    BY <1>1 DEF Path
  <2>2. CASE q[1] # i
    <3>1. i <= q[1]
      BY <1>3
    <3> QED
      BY <3>1, <2>1, <2>2, <1>7 DEF Newer
  <2>3. CASE q[1] = i
    <3>1. q[2] <= j
      BY <1>6, <2>3
    <3>2. p = q \/ p[2] > q[2]
      BY <3>1, <2>1, <2>3, <1>7
    <3> QED
      BY <3>2, <2>3, <1>7 DEF Newer
  <2> QED
    BY <2>2, <2>3
<1> QED
  BY <1>8 DEF Newest

----------------------------------------------------------------------------
(* Types of the operators. *)

FilesOK(fs) ==
  /\ DOMAIN fs \subseteq Path
  /\ \A p \in DOMAIN fs : fs[p] \in SSTable

(* A filter has no bits but the filter bits. *)
LEMMA FilterType ==
  ASSUME NEW keys \in SUBSET Key
  PROVE  FilterOf(keys) \subseteq Bit
BY ParameterAssumption DEF FilterOf

(* What a flush writes is a table. *)
LEMMA TableTypes ==
  /\ EmptyTable \in Table
  /\ ZeroBytes \in SSTable
  /\ \A mem \in Table : \A skip \in BOOLEAN :
       SkipDeleted(mem, skip) \in Table /\ MakeSSTable(mem, skip) \in SSTable
<1>1. EmptyTable \in Table
  BY DEF EmptyTable, Table
<1>2. ZeroBytes \in SSTable
  BY <1>1 DEF ZeroBytes, SSTable
<1>3. ASSUME NEW mem \in Table, NEW skip \in BOOLEAN
      PROVE  SkipDeleted(mem, skip) \in Table
  BY DEF SkipDeleted, Table
<1>4. ASSUME NEW mem \in Table, NEW skip \in BOOLEAN
      PROVE  MakeSSTable(mem, skip) \in SSTable
  <2>1. FilterOf(Keys(mem)) \subseteq Bit
    BY FilterType DEF Keys
  <2> QED
    BY <1>2, <1>3, <2>1 DEF MakeSSTable, SSTable
<1> QED
  BY <1>1, <1>2, <1>3, <1>4

(* Storing a table leaves only tables on disk, ... *)
LEMMA StoredType ==
  ASSUME NEW fs, FilesOK(fs), NEW path \in Path, NEW sst \in SSTable
  PROVE  FilesOK(Stored(fs, path, sst))
BY DEF FilesOK, Stored

(* ... and so does unlinking. *)
LEMMA UnlinkedType ==
  ASSUME NEW fs, FilesOK(fs), NEW paths
  PROVE  FilesOK(Unlinked(fs, paths))
BY DEF FilesOK, Unlinked

(* GetLastComponentAtLevel appends at most a level, and names a path. *)
LEMMA GrownType ==
  ASSUME NEW lv \in Seq(Nat), NEW level \in 0 .. Len(lv)
  PROVE  /\ Grown(lv, level) \in Seq(Nat)
         /\ Len(Grown(lv, level)) = IF level = Len(lv) THEN Len(lv) + 1 ELSE Len(lv)
         /\ \A n \in 1 .. Len(lv) : Grown(lv, level)[n] = lv[n]
         /\ level = Len(lv) => Grown(lv, level)[level + 1] = 0
         /\ LastComponent(lv, level) \in Path
         /\ CreatedJustNow(lv, level) \in BOOLEAN
BY DEF Grown, LastComponent, Path, CreatedJustNow

(* A merge writes tables, of the inputs or of what it takes for them. *)
LEMMA MergedType ==
  ASSUME NEW lv \in Seq(Nat), NEW fs, FilesOK(fs), NEW level \in 0 .. Len(lv)
  PROVE  MergedTables(lv, fs, level) \subseteq SSTable
<1> DEFINE inputs == Inputs(lv, level)
           merged == [k \in Key |-> MergedEntry(fs, inputs, k)]
<1>1. ASSUME NEW k \in Key PROVE MergedEntry(fs, inputs, k) \in Entry \cup {nullopt}
  <2> DEFINE S == Holding(fs, inputs, k)
  <2>1. CASE S = {}
    BY <2>1 DEF MergedEntry, NewestEntry
  <2>2. CASE S # {}
    <3>1. S \subseteq Components(lv) /\ S \subseteq DOMAIN fs
      BY DEF Holding, Inputs
    <3>2. Newest(S) \in DOMAIN fs
      <4> HIDE DEF S
      <4> QED
        BY <2>2, <3>1, NewestIsNewest
    <3>3. fs[Newest(S)].kv \in Table
      BY <3>2 DEF FilesOK, SSTable
    <3> QED
      BY <2>2, <3>3 DEF MergedEntry, NewestEntry, Table
  <2> QED
    BY <2>1, <2>2
<1>2. merged \in Table
  BY <1>1 DEF Table
<1>3. SkipDeleted(merged, CreatedJustNow(lv, level)) \in Table
  BY <1>2, TableTypes DEF CreatedJustNow
<1>4. FilterOf(Keys(SkipDeleted(merged, CreatedJustNow(lv, level)))) \subseteq Bit
  BY FilterType DEF Keys
<1>5. MergedTable(lv, fs, level) \in SSTable
  BY <1>3, <1>4 DEF MergedTable, MergedKV, SSTable
<1>6. ASSUME NEW kv \in Table PROVE [kv |-> kv, filter |-> FilterOf(Keys(kv))] \in SSTable
  BY FilterType DEF Keys, SSTable
<1> QED
  BY <1>5, <1>6 DEF MergedTables

(* The counts after a merge are naturals. *)
LEMMA CompactedLevelsType ==
  ASSUME NEW lv \in Seq(Nat), NEW level \in 1 .. Len(lv), NEW sst
  PROVE  CompactedLevels(lv, level, sst) \in Seq(Nat)
<1> DEFINE size == IF sst = ZeroBytes /\ CreatedJustNow(lv, level)
                   THEN level ELSE Len(Grown(lv, level))
<1>1. size \in Nat
  BY GrownType
<1>2. ASSUME NEW n \in 1 .. size
      PROVE  CompactedLevels(lv, level, sst)[n] \in Nat
  BY GrownType DEF CompactedLevels, CreatedJustNow
<1>3. CompactedLevels(lv, level, sst) = [n \in 1 .. size |-> CompactedLevels(lv, level, sst)[n]]
  BY DEF CompactedLevels
<1> HIDE DEF size
<1> QED
  BY <1>1, <1>2, <1>3

----------------------------------------------------------------------------
(* Type correctness. *)

(* A write and the flush it causes keep the types. *)
LEMMA FlushedType ==
  ASSUME TypeOK, NEW k \in Key, NEW e \in Entry
  PROVE  /\ Written(k, e) \in Table
         /\ FilesOK(FlushedFiles(Written(k, e)))
         /\ Grown(levels, 0) \in Seq(Nat)
         /\ FlushedLevels \in Seq(Nat)
         /\ Len(FlushedLevels) \in Nat \ {0}
<1>1. Written(k, e) \in Table
  BY DEF Written, TypeOK, Table
<1>2. 0 \in 0 .. Len(levels)
  BY DEF TypeOK
<1>3. FlushedTable(Written(k, e)) \in SSTable
  BY <1>1, <1>2, TableTypes, GrownType DEF FlushedTable, TypeOK
<1>4. FilesOK(FlushedFiles(Written(k, e)))
  BY <1>2, <1>3, GrownType, StoredType DEF FlushedFiles, FilesOK, TypeOK
<1>5. Grown(levels, 0) \in Seq(Nat) /\ Len(Grown(levels, 0)) \in Nat \ {0}
  BY <1>2, GrownType DEF TypeOK
<1>6. FlushedLevels \in Seq(Nat) /\ Len(FlushedLevels) \in Nat \ {0}
  BY <1>5 DEF FlushedLevels
<1> QED
  BY <1>1, <1>4, <1>5, <1>6

(* No step breaks a type. *)
LEMMA TypeStep ==
  ASSUME TypeOK, [Next]_vars
  PROVE  TypeOK'
<1> USE DEF TypeOK
<1>1. CASE Create
  BY <1>1, TableTypes DEF Create
<1>2. CASE Load
  BY <1>2 DEF Load, SavedTree
<1>3. CASE Close
  <2>1. /\ memtable' = EmptyTable /\ levels' = <<>> /\ files' = files /\ open' = FALSE
        /\ tree_data' = [memtable |-> memtable, levels |-> levels]
    BY <1>3 DEF Close, Destroyed
  <2>2. tree_data' \in SavedTree
    BY <2>1 DEF SavedTree
  <2>3. open' \in BOOLEAN
    BY <2>1, Zenon
  <2> QED
    BY <2>1, <2>2, <2>3, TableTypes
<1>4. CASE CloseUnsaved
  <2>1. /\ memtable' = EmptyTable /\ levels' = <<>> /\ files' = files /\ open' = FALSE
        /\ tree_data' = tree_data
    BY <1>4 DEF CloseUnsaved, Destroyed
  <2>2. open' \in BOOLEAN
    BY <2>1, Zenon
  <2> QED
    BY <2>1, <2>2, TableTypes
<1>5. ASSUME NEW k \in Key, NEW e \in Entry, Insert(k, e)
      PROVE  TypeOK'
  <2> DEFINE fs == FlushedFiles(Written(k, e))
  <2>0. Written(k, e) \in Table /\ FilesOK(fs) /\ Grown(levels, 0) \in Seq(Nat)
        /\ FlushedLevels \in Seq(Nat)
    BY FlushedType
  <2>1. CASE InsertBuffered(k, e)
    BY <2>0, <2>1 DEF InsertBuffered
  <2>2. CASE InsertFlushThrows(k, e)
    BY <2>0, <2>2 DEF InsertFlushThrows
  <2>3. CASE InsertFlushedNothing(k, e)
    BY <2>0, <2>3, TableTypes DEF InsertFlushedNothing, FilesOK
  <2>4. CASE InsertFlushed(k, e)
    BY <2>0, <2>4, TableTypes DEF InsertFlushed, FilesOK
  <2>5. CASE InsertCompacted(k, e)
    <3>1. PICK level, sst :
            /\ level \in 1 .. Len(FlushedLevels)
            /\ sst \in MergedTables(FlushedLevels, fs, level)
            /\ levels' = CompactedLevels(FlushedLevels, level, sst)
            /\ files' = Unlinked(Stored(fs, LastComponent(FlushedLevels, level), sst),
                                 ConsumedPaths(level))
      BY <2>5 DEF InsertCompacted
    <3>2. level \in 0 .. Len(FlushedLevels)
      BY <2>0, <3>1
    <3>3. levels' \in Seq(Nat)
      BY <2>0, <3>1, CompactedLevelsType
    <3>4. FilesOK(files')
      <4>1. LastComponent(FlushedLevels, level) \in Path
        BY <2>0, <3>2, GrownType
      <4>2. sst \in SSTable
        BY <2>0, <3>1, <3>2, MergedType
      <4> HIDE DEF fs
      <4> QED
        BY <2>0, <3>1, <4>1, <4>2, StoredType, UnlinkedType
    <3> QED
      BY <2>5, <3>3, <3>4, TableTypes DEF InsertCompacted, InsertFillsLevel, FilesOK
  <2>6. CASE InsertCompactionThrows(k, e)
    <3>1. PICK level \in 1 .. Len(FlushedLevels) :
            /\ levels' = Grown(FlushedLevels, level)
            /\ files' \in AfterThrow(fs, LastComponent(FlushedLevels, level))
      BY <2>6 DEF InsertCompactionThrows
    <3>2. level \in 0 .. Len(FlushedLevels)
      BY <2>0
    <3>3. levels' \in Seq(Nat) /\ LastComponent(FlushedLevels, level) \in Path
      BY <2>0, <3>1, <3>2, GrownType
    <3>4. FilesOK(files')
      <4> HIDE DEF fs
      <4> QED
        BY <2>0, <3>1, <3>3, TableTypes, StoredType DEF AfterThrow
    <3> QED
      BY <2>6, <3>3, <3>4, TableTypes DEF InsertCompactionThrows, InsertFillsLevel, FilesOK
  <2>7. CASE InsertCompactedUnwritten(k, e)
    <3>1. PICK level, sst :
            /\ level \in 1 .. Len(FlushedLevels)
            /\ sst \in MergedTables(FlushedLevels, fs, level)
            /\ levels' = CompactedLevels(FlushedLevels, level, sst)
            /\ files' = Unlinked(fs, ConsumedPaths(level))
      BY <2>7 DEF InsertCompactedUnwritten
    <3>2. levels' \in Seq(Nat)
      BY <2>0, <3>1, CompactedLevelsType
    <3>3. FilesOK(files')
      <4> HIDE DEF fs
      <4> QED
        BY <2>0, <3>1, UnlinkedType
    <3> QED
      BY <2>7, <3>2, <3>3, TableTypes DEF InsertCompactedUnwritten, InsertFillsLevel, FilesOK
  <2> QED
    BY <1>5, <2>1, <2>2, <2>3, <2>4, <2>5, <2>6, <2>7 DEF Insert
<1>6. CASE UNCHANGED vars
  BY <1>6 DEF vars
<1> QED
  BY <1>1, <1>2, <1>3, <1>4, <1>5, <1>6 DEF Next

(* Whatever fails, the members and files of a tree keep their types. *)
THEOREM TypeCorrect == Spec => []TypeOK
<1>1. ASSUME Init PROVE TypeOK
  <2>1. open \in BOOLEAN
    BY <1>1, Zenon DEF Init
  <2> QED
    BY <1>1, <2>1, TableTypes DEF Init, TypeOK
<1>2. TypeOK /\ [Next]_vars => TypeOK'
  BY TypeStep
<1> QED
  BY <1>1, <1>2, PTL DEF Spec

----------------------------------------------------------------------------
(* Filters. *)

SoundTable(sst) == \A k \in Keys(sst.kv) : TestHashes(sst, k)
SoundFiles(fs) == \A p \in DOMAIN fs : SoundTable(fs[p])

(* Every table that a flush or a merge writes has a sound filter. *)
LEMMA SoundTables ==
  /\ SoundTable(ZeroBytes)
  /\ \A mem, skip : SoundTable(MakeSSTable(mem, skip))
  /\ \A lv, fs, level : \A sst \in MergedTables(lv, fs, level) : SoundTable(sst)
<1>1. SoundTable(ZeroBytes)
  BY DEF SoundTable, ZeroBytes, EmptyTable, Keys
<1>2. ASSUME NEW mem, NEW skip PROVE SoundTable(MakeSSTable(mem, skip))
  <2>1. CASE SkipDeleted(mem, skip) = EmptyTable
    BY <1>1, <2>1 DEF MakeSSTable
  <2>2. CASE SkipDeleted(mem, skip) # EmptyTable
    <3>1. Keys(SkipDeleted(mem, skip)) \subseteq Keys(mem)
      BY DEF SkipDeleted, Keys
    <3> QED
      BY <2>2, <3>1 DEF MakeSSTable, SoundTable, TestHashes, FilterOf
  <2> QED
    BY <2>1, <2>2
<1>3. ASSUME NEW lv, NEW fs, NEW level, NEW sst \in MergedTables(lv, fs, level)
      PROVE  SoundTable(sst)
  <2>1. PICK kv : sst = [kv |-> kv, filter |-> FilterOf(Keys(kv))]
    BY DEF MergedTables, MergedTable
  <2> QED
    BY <2>1 DEF SoundTable, TestHashes, FilterOf
<1> QED
  BY <1>1, <1>2, <1>3

(* Storing a sound table and unlinking keep the filters on disk sound. *)
LEMMA SoundFilesOperators ==
  ASSUME NEW fs, SoundFiles(fs)
  PROVE  /\ \A path, sst : SoundTable(sst) => SoundFiles(Stored(fs, path, sst))
         /\ \A paths : SoundFiles(Unlinked(fs, paths))
BY DEF SoundFiles, Stored, Unlinked

(* No step leaves an unsound filter on disk. *)
LEMMA FiltersSoundStep ==
  ASSUME FiltersSound, [Next]_vars
  PROVE  FiltersSound'
<1>1. SoundFiles(files)
  BY DEF FiltersSound, SoundFiles, SoundTable
<1>2. \A mem : SoundFiles(FlushedFiles(mem))
  BY <1>1, SoundTables, SoundFilesOperators DEF FlushedFiles, FlushedTable
<1>3. SoundFiles(files')
  <2>1. CASE UNCHANGED files
    BY <1>1, <2>1
  <2>2. ASSUME NEW k \in Key, NEW e \in Entry, Insert(k, e), ~ UNCHANGED files
        PROVE  SoundFiles(files')
    <3> DEFINE fs == FlushedFiles(Written(k, e))
    <3>1. SoundFiles(fs)
      BY <1>2
    <3>2. CASE files' = fs
      BY <3>1, <3>2
    <3>3. CASE InsertCompacted(k, e)
      <4>1. PICK level, sst :
              /\ level \in 1 .. Len(FlushedLevels)
              /\ sst \in MergedTables(FlushedLevels, fs, level)
              /\ files' = Unlinked(Stored(fs, LastComponent(FlushedLevels, level), sst),
                                   ConsumedPaths(level))
        BY <3>3 DEF InsertCompacted
      <4> HIDE DEF fs
      <4>2. SoundFiles(Stored(fs, LastComponent(FlushedLevels, level), sst))
        BY <3>1, <4>1, SoundTables, SoundFilesOperators
      <4> QED
        BY <4>1, <4>2, SoundFilesOperators
    <3>4. CASE InsertCompactionThrows(k, e)
      <4>1. PICK level \in 1 .. Len(FlushedLevels) :
              files' \in AfterThrow(fs, LastComponent(FlushedLevels, level))
        BY <3>4 DEF InsertCompactionThrows
      <4> HIDE DEF fs
      <4> QED
        BY <3>1, <4>1, SoundTables, SoundFilesOperators DEF AfterThrow
    <3>5. CASE InsertCompactedUnwritten(k, e)
      <4>1. PICK level \in 1 .. Len(FlushedLevels) :
              files' = Unlinked(fs, ConsumedPaths(level))
        BY <3>5 DEF InsertCompactedUnwritten
      <4> HIDE DEF fs
      <4> QED
        BY <3>1, <4>1, SoundFilesOperators
    <3> QED
      BY <2>2, <3>2, <3>3, <3>4, <3>5
      DEF Insert, InsertBuffered, InsertFlushThrows, InsertFlushedNothing, InsertFlushed
  <2> QED
    BY <2>1, <2>2 DEF Next, Create, Load, Close, CloseUnsaved, Destroyed, vars
<1> QED
  BY <1>3 DEF FiltersSound, SoundFiles, SoundTable

(* In every reachable state, whatever fails, the filter of a table on disk *)
(* answers yes for each of its keys, kept tombstones included.             *)
THEOREM FiltersSoundAlways == Spec => []FiltersSound
<1>1. Init => FiltersSound
  BY DEF Init, FiltersSound
<1>2. FiltersSound /\ [Next]_vars => FiltersSound'
  BY FiltersSoundStep
<1> QED
  BY <1>1, <1>2, PTL DEF Spec

----------------------------------------------------------------------------
(* How the steps move the components of a tree. *)

(* A new level names no table, and the next number none that is in use. *)
LEMMA GrownComponents ==
  ASSUME NEW lv \in Seq(Nat), NEW level \in 0 .. Len(lv)
  PROVE  /\ Components(Grown(lv, level)) = Components(lv)
         /\ LastComponent(lv, level) \notin Components(lv)
<1>1. \A i, j \in Nat : <<i, j>> \in Components(Grown(lv, level)) <=> <<i, j>> \in Components(lv)
  <2> TAKE i, j \in Nat
  <2>1. Grown(lv, level) \in Seq(Nat)
    BY GrownType
  <2>2. /\ <<i, j>> \in Components(lv) <=> i < Len(lv) /\ j < lv[i + 1]
        /\ <<i, j>> \in Components(Grown(lv, level))
             <=> i < Len(Grown(lv, level)) /\ j < Grown(lv, level)[i + 1]
    BY <2>1, ComponentsDef
  <2>3. CASE i < Len(lv)
    <3>1. i + 1 \in 1 .. Len(lv)
      BY <2>3
    <3>2. Grown(lv, level)[i + 1] = lv[i + 1] /\ Len(Grown(lv, level)) >= Len(lv)
      BY <3>1, GrownType
    <3> QED
      BY <2>1, <2>2, <2>3, <3>2
  <2>4. CASE i >= Len(lv)
    <3>1. i < Len(Grown(lv, level)) => level = Len(lv) /\ i = level
      BY <2>4, GrownType
    <3>2. i < Len(Grown(lv, level)) => Grown(lv, level)[i + 1] = 0
      BY <3>1, GrownType
    <3> QED
      BY <2>2, <2>4, <3>2
  <2> QED
    BY <2>3, <2>4
<1>2. Components(lv) \subseteq Path /\ Components(Grown(lv, level)) \subseteq Path
  BY ComponentsDef, GrownType
<1>3. LastComponent(lv, level) \notin Components(lv)
  <2>1. Grown(lv, level)[level + 1] \in Nat /\ level \in Nat
    BY GrownType DEF LastComponent, Path
  <2>2. level < Len(lv) => Grown(lv, level)[level + 1] = lv[level + 1]
    BY GrownType
  <2> QED
    BY <2>1, <2>2, ComponentsDef DEF LastComponent
<1>4. \A p \in Path : p \in Components(Grown(lv, level)) <=> p \in Components(lv)
  BY <1>1 DEF Path
<1> QED
  BY <1>2, <1>3, <1>4

(* A flush adds one component, newer than all others. *)
LEMMA FlushedComponents ==
  ASSUME levels \in Seq(Nat)
  PROVE  /\ LastComponent(levels, 0) \in Path
         /\ LastComponent(levels, 0) \notin Components(levels)
         /\ Components(FlushedLevels) = {LastComponent(levels, 0)} \cup Components(levels)
         /\ \A q \in Components(levels) : Newer(LastComponent(levels, 0), q)
<1> DEFINE grown == Grown(levels, 0)
<1>1. /\ 0 \in 0 .. Len(levels)
      /\ grown \in Seq(Nat) /\ Len(grown) \in Nat \ {0}
      /\ Components(grown) = Components(levels)
      /\ LastComponent(levels, 0) \in Path
      /\ LastComponent(levels, 0) \notin Components(levels)
  BY GrownType, GrownComponents
<1>2. LastComponent(levels, 0) = <<0, grown[1]>> /\ grown[1] \in Nat
  BY <1>1 DEF LastComponent
<1>3. FlushedLevels \in Seq(Nat) /\ Len(FlushedLevels) = Len(grown)
      /\ FlushedLevels[1] = grown[1] + 1
      /\ \A n \in 1 .. Len(grown) : n # 1 => FlushedLevels[n] = grown[n]
  BY <1>1 DEF FlushedLevels
<1> HIDE DEF grown
<1>4. \A i, j \in Nat : <<i, j>> \in Components(FlushedLevels)
                          <=> <<i, j>> = <<0, grown[1]>> \/ <<i, j>> \in Components(grown)
  <2> TAKE i, j \in Nat
  <2>1. /\ <<i, j>> \in Components(grown) <=> i < Len(grown) /\ j < grown[i + 1]
        /\ <<i, j>> \in Components(FlushedLevels)
             <=> i < Len(grown) /\ j < FlushedLevels[i + 1]
    BY <1>1, <1>3, ComponentsDef
  <2>2. CASE i = 0
    BY <1>1, <1>2, <1>3, <2>1, <2>2
  <2>3. CASE i # 0
    <3>1. i < Len(grown) => FlushedLevels[i + 1] = grown[i + 1]
      BY <1>1, <1>3, <2>3
    <3> QED
      BY <2>1, <2>3, <3>1
  <2> QED
    BY <2>2, <2>3
<1>5. Components(FlushedLevels) \subseteq Path /\ Components(grown) \subseteq Path
  BY <1>1, <1>3, ComponentsDef
<1>6. Components(FlushedLevels) = {LastComponent(levels, 0)} \cup Components(levels)
  <2>1. \A p \in Path : p \in Components(FlushedLevels)
                          <=> p = LastComponent(levels, 0) \/ p \in Components(levels)
    BY <1>1, <1>2, <1>4 DEF Path
  <2> QED
    BY <1>1, <1>5, <2>1
<1>7. ASSUME NEW q \in Components(levels)
      PROVE  Newer(LastComponent(levels, 0), q)
  <2>1. q = <<q[1], q[2]>> /\ q[1] \in Nat /\ q[2] \in Nat
    BY <1>1, <1>5 DEF Path
  <2>2. q[2] < grown[q[1] + 1]
    BY <1>1, <2>1, ComponentsDef
  <2> QED
    BY <1>2, <2>1, <2>2 DEF Newer
<1> QED
  BY <1>1, <1>6, <1>7

(* A merge into a level consumes all components above it and adds at most  *)
(* one component, which is newer than all those that stay.                 *)
LEMMA CompactedComponents ==
  ASSUME NEW lv \in Seq(Nat), NEW level \in 1 .. Len(lv), NEW sst
  PROVE  LET last == LastComponent(lv, level)
             kept == Components(lv) \ Inputs(lv, level)
         IN  /\ last \in Path /\ last \notin Components(lv)
             /\ Components(CompactedLevels(lv, level, sst))
                  = kept \cup IF sst # ZeroBytes THEN {last} ELSE {}
             /\ \A q \in kept : Newer(last, q)
             /\ CreatedJustNow(lv, level) => kept = {}
             /\ (kept \cup {last}) \cap ConsumedPaths(level) = {}
<1> DEFINE last  == LastComponent(lv, level)
           kept  == Components(lv) \ Inputs(lv, level)
           grown == Grown(lv, level)
           clv   == CompactedLevels(lv, level, sst)
<1>0. level \in 0 .. Len(lv) /\ level \in Nat \ {0}
  OBVIOUS
<1>1. /\ grown \in Seq(Nat)
      /\ last \in Path /\ last \notin Components(lv)
      /\ Components(grown) = Components(lv)
      /\ Components(lv) \subseteq Path
  BY <1>0, GrownType, GrownComponents, ComponentsDef
<1>2. level < Len(grown) /\ Len(lv) <= Len(grown) /\ level + 1 \in 1 .. Len(grown)
      /\ (level = Len(lv) => Len(grown) = level + 1)
      /\ (level # Len(lv) => Len(grown) = Len(lv))
  BY <1>0, GrownType
<1>3. last = <<level, grown[level + 1]>> /\ grown[level + 1] \in Nat
  BY <1>1, <1>2 DEF LastComponent
<1>4. \A n \in 1 .. Len(lv) : grown[n] = lv[n]
  BY <1>0, GrownType
<1>5. clv \in Seq(Nat)
  BY CompactedLevelsType
<1>6. \A i, j \in Nat : /\ <<i, j>> \in Components(lv) <=> i < Len(grown) /\ j < grown[i + 1]
                        /\ <<i, j>> \in kept <=> i >= level /\ i < Len(grown) /\ j < grown[i + 1]
                        /\ <<i, j>> \in Components(clv) <=> i < Len(clv) /\ j < clv[i + 1]
  <2> TAKE i, j \in Nat
  <2>1. <<i, j>> \in Components(lv) <=> i < Len(grown) /\ j < grown[i + 1]
    BY <1>1, ComponentsDef
  <2>2. <<i, j>> \in Components(clv) <=> i < Len(clv) /\ j < clv[i + 1]
    BY <1>5, ComponentsDef
  <2> QED
    BY <1>0, <2>1, <2>2 DEF Inputs
<1>7. \A p \in Path : p = <<p[1], p[2]>> /\ p[1] \in Nat /\ p[2] \in Nat
  BY DEF Path
<1>8. ASSUME NEW i \in Nat, NEW j \in Nat
      PROVE  <<i, j>> \in Components(clv)
               <=> <<i, j>> \in kept \/ (sst # ZeroBytes /\ <<i, j>> = last)
  <2> DEFINE popped == sst = ZeroBytes /\ CreatedJustNow(lv, level)
             counted == IF sst # ZeroBytes THEN 1 ELSE 0
  <2>1. Len(clv) = IF popped THEN level ELSE Len(grown)
    BY <1>0, <1>1 DEF CompactedLevels
  <2>2. \A n \in 1 .. Len(clv) :
          clv[n] = IF n <= level THEN 0
                   ELSE IF n = level + 1 THEN grown[n] + counted ELSE lv[n]
    BY <2>1 DEF CompactedLevels
  <2>3. CASE popped
    <3>1. level = Len(lv) /\ Len(grown) = level + 1 /\ grown[level + 1] = 0
      BY <1>0, <2>3, GrownType DEF CreatedJustNow
    <3>2. <<i, j>> \notin kept
      BY <1>0, <1>6, <3>1
    <3>3. <<i, j>> \notin Components(clv)
      <4>1. Len(clv) = level
        BY <2>1, <2>3
      <4>2. i < level => clv[i + 1] = 0
        BY <1>0, <2>2, <4>1
      <4> QED
        BY <1>6, <4>1, <4>2
    <3> QED
      BY <2>3, <3>2, <3>3
  <2>4. CASE ~popped /\ i < level
    <3>1. clv[i + 1] = 0
      BY <1>0, <1>2, <2>1, <2>2, <2>4
    <3> QED
      BY <1>0, <1>3, <1>6, <2>4, <3>1
  <2>5. CASE ~popped /\ i = level
    <3>1. Len(clv) = Len(grown) /\ clv[level + 1] = grown[level + 1] + counted
      BY <1>0, <1>2, <2>1, <2>2, <2>5
    <3> HIDE DEF last, kept, grown, clv
    <3>2. <<i, j>> \in Components(clv) <=> j < grown[level + 1] + counted
      BY <1>2, <1>6, <2>5, <3>1
    <3>3. <<i, j>> \in kept <=> j < grown[level + 1]
      BY <1>0, <1>2, <1>6, <2>5
    <3>4. <<i, j>> = last <=> j = grown[level + 1]
      BY <1>3, <2>5
    <3> QED
      BY <1>3, <3>2, <3>3, <3>4
  <2>6. CASE ~popped /\ i > level
    <3>1. Len(clv) = Len(grown)
      BY <2>1, <2>6
    <3>2. i < Len(grown) => clv[i + 1] = grown[i + 1]
      BY <1>0, <1>2, <1>4, <2>2, <2>6, <3>1
    <3> HIDE DEF last, kept, grown, clv
    <3> QED
      BY <1>0, <1>3, <1>6, <2>6, <3>1, <3>2
  <2> QED
    BY <1>0, <2>3, <2>4, <2>5, <2>6
<1>9. Components(clv) = kept \cup IF sst # ZeroBytes THEN {last} ELSE {}
  <2>1. Components(clv) \subseteq Path /\ kept \subseteq Path
    BY <1>1, <1>5, ComponentsDef
  <2>2. \A p \in Path : p \in Components(clv) <=> p \in kept \/ (sst # ZeroBytes /\ p = last)
    BY <1>7, <1>8
  <2> HIDE DEF last, kept, clv
  <2> QED
    BY <1>1, <2>1, <2>2
<1>10. ASSUME NEW q \in kept
       PROVE  Newer(last, q)
  <2>1. q = <<q[1], q[2]>> /\ q[1] \in Nat /\ q[2] \in Nat
    BY <1>1, <1>7
  <2>2. q[1] >= level /\ q[2] < grown[q[1] + 1]
    BY <1>6, <2>1
  <2> HIDE DEF last, kept, grown
  <2> QED
    BY <1>0, <1>3, <2>1, <2>2 DEF Newer
<1>11. CreatedJustNow(lv, level) => kept = {}
  <2>1. level = Len(lv) => Len(grown) = level + 1 /\ grown[level + 1] = 0
    BY <1>0, GrownType
  <2>2. kept \subseteq Path
    BY <1>1
  <2>3. \A i, j \in Nat : level = Len(lv) => <<i, j>> \notin kept
    BY <1>0, <1>6, <2>1
  <2> QED
    BY <1>7, <2>2, <2>3 DEF CreatedJustNow
<1>12. (kept \cup {last}) \cap ConsumedPaths(level) = {}
  <2>1. \A p \in ConsumedPaths(level) : p[1] < level
    BY <1>0 DEF ConsumedPaths
  <2>2. \A p \in kept : ~ (p[1] < level)
    BY DEF Inputs
  <2>3. ~ (last[1] < level)
    BY <1>0, <1>3
  <2> QED
    BY <2>1, <2>2, <2>3
<1> QED
  BY <1>1, <1>9, <1>10, <1>11, <1>12

----------------------------------------------------------------------------
(* While only opening a new table of level 0 or a reader may fail, every   *)
(* component of the tree stays on disk and has an entry.                   *)

SafeFaults == Faults \subseteq {"flush", "reader"}
WholeMerges == "compaction" \notin Faults

Readable(lv, fs) == \A p \in Components(lv) : p \in DOMAIN fs /\ fs[p].kv # EmptyTable

(* A table that is not empty has an entry. *)
LEMMA NonEmptyTables ==
  /\ \A mem, skip : MakeSSTable(mem, skip) # ZeroBytes
       => MakeSSTable(mem, skip).kv = SkipDeleted(mem, skip)
  /\ \A mem, skip : MakeSSTable(mem, skip) # ZeroBytes
       => MakeSSTable(mem, skip).kv # EmptyTable
  /\ \A lv, fs, level : MergedTable(lv, fs, level) # ZeroBytes
       => MergedTable(lv, fs, level).kv # EmptyTable
<1>1. ASSUME NEW lv, NEW fs, NEW level, MergedTable(lv, fs, level).kv = EmptyTable
      PROVE  MergedTable(lv, fs, level) = ZeroBytes
  <2>1. MergedKV(lv, fs, level) = EmptyTable
    BY <1>1 DEF MergedTable
  <2>2. Keys(EmptyTable) = {}
    BY DEF Keys, EmptyTable
  <2>3. FilterOf({}) = {}
    BY DEF FilterOf
  <2> QED
    BY <2>1, <2>2, <2>3 DEF MergedTable, ZeroBytes
<1> QED
  BY <1>1 DEF MakeSSTable

(* A flush keeps the components readable. *)
LEMMA FlushKeepsReadable ==
  ASSUME TypeOK, Readable(levels, files), NEW mem, FlushedTable(mem) # ZeroBytes
  PROVE  Readable(FlushedLevels, FlushedFiles(mem))
<1>1. FlushedTable(mem).kv # EmptyTable
  BY NonEmptyTables DEF FlushedTable
<1> QED
  BY <1>1, FlushedComponents DEF Readable, FlushedFiles, Stored, TypeOK

(* A merge of readable components meets no table without a byte. *)
LEMMA MergedFromReadable ==
  ASSUME NEW lv \in Seq(Nat), NEW fs, NEW level, Readable(lv, fs)
  PROVE  MergedTables(lv, fs, level) = {MergedTable(lv, fs, level)}
BY DEF MergedTables, Inputs, Readable

(* A merge keeps them readable: it unlinks none that it leaves or wrote. *)
LEMMA CompactionKeepsReadable ==
  ASSUME NEW lv \in Seq(Nat), NEW level \in 1 .. Len(lv), NEW fs, Readable(lv, fs)
  PROVE  LET sst == MergedTable(lv, fs, level)
         IN  Readable(CompactedLevels(lv, level, sst),
                      Unlinked(Stored(fs, LastComponent(lv, level), sst), ConsumedPaths(level)))
<1> DEFINE sst  == MergedTable(lv, fs, level)
           last == LastComponent(lv, level)
           kept == Components(lv) \ Inputs(lv, level)
           fs2  == Unlinked(Stored(fs, last, sst), ConsumedPaths(level))
<1>1. /\ last \notin Components(lv)
      /\ Components(CompactedLevels(lv, level, sst)) = kept \cup IF sst # ZeroBytes THEN {last} ELSE {}
      /\ (kept \cup {last}) \cap ConsumedPaths(level) = {}
  BY CompactedComponents
<1>2. sst # ZeroBytes => sst.kv # EmptyTable
  BY NonEmptyTables
<1>3. ASSUME NEW p \in kept PROVE p \in DOMAIN fs2 /\ fs2[p].kv # EmptyTable
  <2>1. p \in DOMAIN fs /\ fs[p].kv # EmptyTable /\ p # last /\ p \notin ConsumedPaths(level)
    BY <1>1 DEF Readable
  <2> HIDE DEF sst, last, kept
  <2> QED
    BY <2>1 DEF Stored, Unlinked
<1>4. last \in DOMAIN fs2 /\ fs2[last] = sst
  <2>1. last \notin ConsumedPaths(level)
    BY <1>1
  <2> HIDE DEF sst, last, kept
  <2> QED
    BY <2>1 DEF Stored, Unlinked
<1> HIDE DEF sst, last, kept, fs2
<1>5. Readable(CompactedLevels(lv, level, sst), fs2)
  BY <1>1, <1>2, <1>3, <1>4 DEF Readable
<1> QED
  BY <1>5 DEF sst, last, fs2

(* So does an insert, if a merge's output can be created. *)
LEMMA InsertReadable ==
  ASSUME WholeMerges, TypeOK, ComponentsReadable, NEW k \in Key, NEW e \in Entry, Insert(k, e)
  PROVE  ComponentsReadable'
<1> DEFINE fs == FlushedFiles(Written(k, e))
<1>0. open /\ open' /\ CurrentLevels = levels /\ CurrentLevels' = levels'
      /\ tree_data' = tree_data
  BY DEF Insert, InsertBuffered, InsertFlushThrows, InsertFlushedNothing, InsertFlushed,
              InsertCompacted, InsertCompactionThrows, InsertCompactedUnwritten,
              InsertFillsLevel, CurrentLevels
<1>1. Readable(levels, files) /\ levels \in Seq(Nat) /\ FlushedLevels \in Seq(Nat)
  BY <1>0, FlushedType DEF TypeOK, ComponentsReadable, Readable
<1>2. SUFFICES Readable(levels', files')
  BY <1>0 DEF ComponentsReadable, Readable
<1>3. CASE InsertBuffered(k, e)
  BY <1>1, <1>3 DEF InsertBuffered
<1>4. CASE InsertFlushThrows(k, e)
  <2>1. Components(levels') = Components(levels) /\ files' = files
    BY <1>1, <1>4, GrownComponents DEF InsertFlushThrows
  <2> QED
    BY <1>1, <2>1 DEF Readable
<1>5. CASE InsertFlushedNothing(k, e)
  <2>1. LastComponent(levels, 0) \notin Components(levels)
    BY <1>1, FlushedComponents
  <2> QED
    BY <1>1, <1>5, <2>1 DEF InsertFlushedNothing, FlushedFiles, Stored, Readable
<1>6. CASE InsertFlushed(k, e)
  BY <1>1, <1>6, FlushKeepsReadable DEF InsertFlushed
<1>7. CASE InsertCompacted(k, e)
  <2>1. PICK level, sst :
          /\ level \in 1 .. Len(FlushedLevels)
          /\ sst \in MergedTables(FlushedLevels, fs, level)
          /\ levels' = CompactedLevels(FlushedLevels, level, sst)
          /\ files' = Unlinked(Stored(fs, LastComponent(FlushedLevels, level), sst),
                               ConsumedPaths(level))
    BY <1>7 DEF InsertCompacted
  <2>2. Readable(FlushedLevels, fs)
    BY <1>1, <1>7, FlushKeepsReadable DEF InsertCompacted, InsertFillsLevel
  <2> HIDE DEF fs
  <2>3. sst = MergedTable(FlushedLevels, fs, level)
    BY <1>1, <2>1, <2>2, MergedFromReadable
  <2> QED
    BY <1>1, <2>1, <2>2, <2>3, CompactionKeepsReadable
<1>8. CASE InsertCompactionThrows(k, e)
  <2>1. PICK level \in 1 .. Len(FlushedLevels) :
          /\ levels' = Grown(FlushedLevels, level)
          /\ files' \in AfterThrow(fs, LastComponent(FlushedLevels, level))
    BY <1>8 DEF InsertCompactionThrows
  <2>2. Readable(FlushedLevels, fs)
    BY <1>1, <1>8, FlushKeepsReadable DEF InsertCompactionThrows, InsertFillsLevel
  <2>3. /\ Components(levels') = Components(FlushedLevels)
        /\ LastComponent(FlushedLevels, level) \notin Components(FlushedLevels)
    <3>1. level \in 0 .. Len(FlushedLevels)
      BY <1>1
    <3> QED
      BY <1>1, <2>1, <3>1, GrownComponents
  <2> HIDE DEF fs
  <2> QED
    BY <2>1, <2>2, <2>3 DEF Readable, Stored, AfterThrow
<1>9. CASE InsertCompactedUnwritten(k, e)
  BY <1>9 DEF InsertCompactedUnwritten, WholeMerges
<1> QED
  BY <1>3, <1>4, <1>5, <1>6, <1>7, <1>8, <1>9 DEF Insert

(* So does every step, with the faults assumed. *)
LEMMA ReadableStep ==
  ASSUME SafeFaults, TypeOK, ComponentsReadable, [Next]_vars
  PROVE  ComponentsReadable'
<1>1. CASE CurrentLevels' = CurrentLevels /\ files' = files
  BY <1>1 DEF ComponentsReadable
<1>2. CASE Create
  BY <1>2 DEF Create, CurrentLevels, ComponentsReadable, Components
<1>3. CASE Load
  BY <1>3, SentinelAssumption DEF Load, CurrentLevels, ComponentsReadable
<1>4. CASE Close
  <2>1. tree_data' # nullopt \/ tree_data' = nullopt
    OBVIOUS
  <2>2. CurrentLevels = levels /\ files' = files /\ open' = FALSE
        /\ tree_data' = [memtable |-> memtable, levels |-> levels]
    BY <1>4 DEF Close, Destroyed, CurrentLevels
  <2>3. tree_data'.levels = levels
    BY <2>2
  <2>4. CurrentLevels' = levels \/ CurrentLevels' = <<>>
    BY <2>2, <2>3 DEF CurrentLevels
  <2> QED
    BY <2>2, <2>4 DEF ComponentsReadable, Components
<1>5. ASSUME NEW k \in Key, NEW e \in Entry, Insert(k, e)
      PROVE  ComponentsReadable'
  BY <1>5, InsertReadable DEF SafeFaults, WholeMerges
<1>6. CASE CloseUnsaved
  BY <1>6 DEF CloseUnsaved, SafeFaults
<1>7. CASE UNCHANGED vars
  BY <1>1, <1>7 DEF vars, CurrentLevels
<1> QED
  BY <1>2, <1>3, <1>4, <1>5, <1>6, <1>7 DEF Next

(* If creating a table of level 0 and opening a reader are all that can    *)
(* fail, no lookup and no merge ever meets a missing or an empty table.    *)
THEOREM ReadableAlways ==
  ASSUME SafeFaults
  PROVE  Spec => []ComponentsReadable
<1>1. Init => ComponentsReadable
  BY DEF Init, ComponentsReadable, CurrentLevels, Components
<1>2. TypeOK /\ ComponentsReadable /\ [Next]_vars => ComponentsReadable'
  BY ReadableStep
<1> QED
  BY <1>1, <1>2, TypeCorrect, PTL DEF Spec

----------------------------------------------------------------------------
(* How the levels fill, for every scaling factor and whatever system call  *)
(* fails: the cascade keeps every level below the first under the factor,  *)
(* a failed merge wedges level 0 for good, a factor of 1 never merges      *)
(* level 1, and no operation leaves a table that no level names.           *)

(* The counts after a flush: only those of level 0 differ. *)
LEMMA FlushedCounts ==
  ASSUME TypeOK
  PROVE  /\ FlushedLevels \in Seq(Nat)
         /\ Len(FlushedLevels) = IF levels = <<>> THEN 1 ELSE Len(levels)
         /\ FlushedLevels[1] = 1 + IF levels = <<>> THEN 0 ELSE levels[1]
         /\ \A n \in 2 .. Len(levels) : FlushedLevels[n] = levels[n]
<1>1. levels \in Seq(Nat) /\ 0 \in 0 .. Len(levels)
  BY DEF TypeOK
<1>2. levels = <<>> <=> 0 = Len(levels)
  BY <1>1
<1>3. /\ Grown(levels, 0) \in Seq(Nat)
      /\ Len(Grown(levels, 0)) = IF 0 = Len(levels) THEN Len(levels) + 1 ELSE Len(levels)
      /\ \A n \in 1 .. Len(levels) : Grown(levels, 0)[n] = levels[n]
      /\ 0 = Len(levels) => Grown(levels, 0)[0 + 1] = 0
  BY <1>1, GrownType
<1>4. /\ FlushedLevels \in Seq(Nat) /\ Len(FlushedLevels) = Len(Grown(levels, 0))
      /\ FlushedLevels[1] = Grown(levels, 0)[1] + 1
      /\ \A n \in 2 .. Len(Grown(levels, 0)) : FlushedLevels[n] = Grown(levels, 0)[n]
  BY <1>3 DEF FlushedLevels
<1>5. CASE Len(levels) = 0
  BY <1>1, <1>2, <1>3, <1>4, <1>5
<1>6. CASE Len(levels) # 0
  <2>1. 1 \in 1 .. Len(levels) /\ Len(levels) \in Nat
    BY <1>1, <1>6
  <2> QED
    BY <1>2, <1>3, <1>4, <1>6, <2>1
<1> QED
  BY <1>5, <1>6

(* The counts after a merge into level. *)
LEMMA CompactedCounts ==
  ASSUME NEW lv \in Seq(Nat), NEW level \in 1 .. Len(lv), NEW sst
  PROVE  LET new == CompactedLevels(lv, level, sst)
             counted == IF sst # ZeroBytes THEN 1 ELSE 0
         IN  /\ new \in Seq(Nat)
             /\ Len(new) >= level
             /\ level < Len(lv) => Len(new) = Len(lv) /\ new[level + 1] = lv[level + 1] + counted
             /\ level = Len(lv) /\ Len(new) > level => Len(new) = level + 1 /\ new[level + 1] = 1
             /\ \A n \in 1 .. Len(new) : /\ n <= level => new[n] = 0
                                         /\ n > level + 1 => n <= Len(lv) /\ new[n] = lv[n]
<1> DEFINE new == CompactedLevels(lv, level, sst)
           counted == IF sst # ZeroBytes THEN 1 ELSE 0
           popped == sst = ZeroBytes /\ CreatedJustNow(lv, level)
           grown == Grown(lv, level)
<1>1. level \in Nat \ {0} /\ level \in 0 .. Len(lv) /\ Len(lv) \in Nat
  OBVIOUS
<1>2. /\ grown \in Seq(Nat)
      /\ Len(grown) = IF level = Len(lv) THEN Len(lv) + 1 ELSE Len(lv)
      /\ \A n \in 1 .. Len(lv) : grown[n] = lv[n]
      /\ level = Len(lv) => grown[level + 1] = 0
  BY <1>1, GrownType
<1>3. new \in Seq(Nat)
  BY CompactedLevelsType
<1>4. Len(new) = IF popped THEN level ELSE Len(grown)
  BY <1>1, <1>2 DEF CompactedLevels
<1>5. \A n \in 1 .. Len(new) :
        new[n] = IF n <= level THEN 0 ELSE IF n = level + 1 THEN grown[n] + counted ELSE lv[n]
  BY <1>4 DEF CompactedLevels
<1>6. popped => level = Len(lv)
  BY DEF CreatedJustNow
<1>7. level = Len(lv) /\ ~popped => counted = 1
  BY DEF CreatedJustNow
<1> HIDE DEF new, counted, popped, grown
<1>8. Len(new) >= level /\ Len(new) \in Nat
  BY <1>1, <1>2, <1>3, <1>4
<1>9. ASSUME level < Len(lv)
      PROVE  Len(new) = Len(lv) /\ new[level + 1] = lv[level + 1] + counted
  <2>1. Len(new) = Len(lv)
    BY <1>1, <1>2, <1>4, <1>6, <1>9
  <2>2. level + 1 \in 1 .. Len(lv)
    BY <1>1, <1>9
  <2>3. new[level + 1] = grown[level + 1] + counted
    BY <1>1, <1>5, <2>1, <2>2
  <2> QED
    BY <1>2, <2>1, <2>2, <2>3
<1>10. level = Len(lv) /\ Len(new) > level => Len(new) = level + 1 /\ new[level + 1] = 1
  BY <1>1, <1>2, <1>4, <1>5, <1>7
<1>11. \A n \in 1 .. Len(new) : /\ n <= level => new[n] = 0
                                /\ n > level + 1 => n <= Len(lv) /\ new[n] = lv[n]
  BY <1>1, <1>2, <1>4, <1>5
<1> QED
  BY <1>3, <1>8, <1>9, <1>10, <1>11 DEF new, counted

(* What the steps of an open tree do to its levels, files aside. *)
LevelsStay == levels' = levels
LevelZeroGrown == levels' = Grown(levels, 0)
LevelsFlushed == levels' = FlushedLevels
LevelsCompacted ==
  /\ LevelFilled
  /\ \E level \in 1 .. Len(FlushedLevels), sst \in SSTable :
       /\ IsCompactionTarget(FlushedLevels, level)
       /\ levels' = CompactedLevels(FlushedLevels, level, sst)
LevelsOfFailedMerge ==
  /\ LevelFilled
  /\ \E level \in 1 .. Len(FlushedLevels) : levels' = Grown(FlushedLevels, level)

LEMMA OpenSteps ==
  ASSUME TypeOK, [Next]_vars, open, open'
  PROVE  /\ tree_data' = tree_data
         /\ LevelsStay \/ LevelZeroGrown \/ LevelsFlushed \/ LevelsCompacted \/ LevelsOfFailedMerge
<1>1. ASSUME NEW k \in Key, NEW e \in Entry, Insert(k, e)
      PROVE  /\ tree_data' = tree_data
             /\ LevelsStay \/ LevelZeroGrown \/ LevelsFlushed \/ LevelsCompacted \/ LevelsOfFailedMerge
  <2> DEFINE fs == FlushedFiles(Written(k, e))
  <2>1. FilesOK(fs) /\ FlushedLevels \in Seq(Nat)
    BY FlushedType
  <2>2. \A level \in 1 .. Len(FlushedLevels) :
          MergedTables(FlushedLevels, fs, level) \subseteq SSTable
    <3> TAKE level \in 1 .. Len(FlushedLevels)
    <3>1. level \in 0 .. Len(FlushedLevels)
      BY <2>1
    <3> HIDE DEF fs
    <3> QED
      BY <2>1, <3>1, MergedType
  <2>3. CASE InsertCompacted(k, e) \/ InsertCompactedUnwritten(k, e)
    BY <2>2, <2>3 DEF InsertCompacted, InsertCompactedUnwritten, InsertFillsLevel, LevelsCompacted
  <2>4. CASE InsertCompactionThrows(k, e)
    BY <2>4 DEF InsertCompactionThrows, InsertFillsLevel, LevelsOfFailedMerge
  <2> QED
    BY <1>1, <2>3, <2>4 DEF Insert, InsertBuffered, InsertFlushThrows, InsertFlushedNothing,
                            InsertFlushed, LevelsStay, LevelZeroGrown, LevelsFlushed
<1>2. CASE UNCHANGED vars
  BY <1>2 DEF vars, LevelsStay
<1> QED
  BY <1>1, <1>2 DEF Next, Create, Load, Close, CloseUnsaved, Destroyed

----------------------------------------------------------------------------
(* The cascade. *)

CascadingFactor == sstable_scaling_factor >= 2

LEMMA MergeKeepsBelowFactor ==
  ASSUME CascadingFactor, NEW lv \in Seq(Nat), BelowFactor(lv), NEW sst,
         NEW level \in 1 .. Len(lv), IsCompactionTarget(lv, level)
  PROVE  BelowFactor(CompactedLevels(lv, level, sst))
<1> DEFINE new == CompactedLevels(lv, level, sst)
<1>1. sstable_scaling_factor \in Nat /\ sstable_scaling_factor >= 2
  BY ParameterAssumption DEF CascadingFactor
<1>2. level \in Nat \ {0} /\ Len(lv) \in Nat /\ level <= Len(lv)
  OBVIOUS
<1>3. /\ new \in Seq(Nat)
      /\ level < Len(lv) => new[level + 1] \in {lv[level + 1], lv[level + 1] + 1}
      /\ level = Len(lv) /\ Len(new) > level => new[level + 1] = 1
      /\ \A n \in 1 .. Len(new) : /\ n <= level => new[n] = 0
                                  /\ n > level + 1 => n <= Len(lv) /\ new[n] = lv[n]
  <2>1. level < Len(lv) => lv[level + 1] \in Nat
    BY <1>2
  <2> DEFINE counted == IF sst # ZeroBytes THEN 1 ELSE 0
  <2>2. counted \in {0, 1}
    OBVIOUS
  <2>3. level < Len(lv) => new[level + 1] = lv[level + 1] + counted
    BY CompactedCounts
  <2>4. level < Len(lv) => new[level + 1] \in {lv[level + 1], lv[level + 1] + 1}
    <3> HIDE DEF new, counted
    <3> QED
      BY <2>1, <2>2, <2>3
  <2> QED
    BY <2>4, CompactedCounts
<1> HIDE DEF new
<1>4. ASSUME NEW n \in 2 .. Len(new) PROVE new[n] < sstable_scaling_factor
  <2>0. n \in Nat /\ n >= 2 /\ n \in 1 .. Len(new)
    BY <1>3
  <2>1. CASE n <= level
    <3>1. new[n] = 0
      BY <1>3, <2>0, <2>1
    <3> QED
      BY <1>1, <3>1
  <2>2. CASE n > level + 1
    <3>1. n <= Len(lv) /\ new[n] = lv[n]
      BY <1>3, <2>0, <2>2
    <3> QED
      BY <1>2, <2>0, <3>1 DEF BelowFactor
  <2>3. CASE n = level + 1 /\ level = Len(lv)
    <3>1. new[n] = 1
      BY <1>2, <1>3, <2>0, <2>3
    <3> QED
      BY <1>1, <3>1
  <2>4. CASE n = level + 1 /\ level < Len(lv)
    <3>1. lv[n] < sstable_scaling_factor /\ lv[n] + 1 # sstable_scaling_factor /\ lv[n] \in Nat
      BY <1>2, <2>4 DEF BelowFactor, IsCompactionTarget
    <3>2. new[n] \in {lv[n], lv[n] + 1}
      BY <1>3, <2>4
    <3>3. \A m, k \in Nat : m < k /\ m + 1 # k => m < k /\ m + 1 < k
      OBVIOUS
    <3>4. lv[n] + 1 < sstable_scaling_factor
      BY <1>1, <3>1, <3>3
    <3> QED
      BY <3>1, <3>2, <3>4
  <2> QED
    BY <1>2, <2>1, <2>2, <2>3, <2>4
<1> QED
  BY <1>4 DEF BelowFactor, new

LEMMA LevelsBelowFactorStep ==
  ASSUME CascadingFactor, TypeOK, LevelsBelowFactor, [Next]_vars
  PROVE  LevelsBelowFactor'
<1>0. BelowFactor(<<>>)
  BY DEF BelowFactor
<1>1. CASE open /\ open'
  <2>0. SUFFICES BelowFactor(levels')
    BY <1>1, OpenSteps DEF LevelsBelowFactor
  <2>1. FlushedLevels \in Seq(Nat) /\ BelowFactor(FlushedLevels)
    <3>1. levels \in Seq(Nat) /\ \A n \in 2 .. Len(levels) : levels[n] < sstable_scaling_factor
      BY DEF LevelsBelowFactor, BelowFactor, TypeOK
    <3>2. /\ FlushedLevels \in Seq(Nat)
          /\ Len(FlushedLevels) = IF levels = <<>> THEN 1 ELSE Len(levels)
          /\ \A n \in 2 .. Len(levels) : FlushedLevels[n] = levels[n]
      BY FlushedCounts
    <3>3. ASSUME NEW n \in 2 .. Len(FlushedLevels)
          PROVE  FlushedLevels[n] < sstable_scaling_factor
      <4>1. n \in 2 .. Len(levels)
        BY <3>1, <3>2
      <4> QED
        BY <3>1, <3>2, <4>1
    <3> QED
      BY <3>2, <3>3 DEF BelowFactor
  <2>2. CASE LevelsStay
    BY <2>2 DEF LevelsStay, LevelsBelowFactor
  <2>3. CASE LevelZeroGrown
    <3>1. 0 \in 0 .. Len(levels) /\ levels \in Seq(Nat)
      BY DEF TypeOK
    <3> QED
      BY <2>3, <3>1, GrownType DEF LevelZeroGrown, LevelsBelowFactor, BelowFactor
  <2>4. CASE LevelsFlushed
    BY <2>1, <2>4 DEF LevelsFlushed
  <2>5. CASE LevelsCompacted
    BY <2>1, <2>5, MergeKeepsBelowFactor DEF LevelsCompacted
  <2>6. CASE LevelsOfFailedMerge
    <3>1. PICK level \in 1 .. Len(FlushedLevels) : levels' = Grown(FlushedLevels, level)
      BY <2>6 DEF LevelsOfFailedMerge
    <3>2. level \in 0 .. Len(FlushedLevels)
      BY <2>1
    <3>3. sstable_scaling_factor \in Nat /\ sstable_scaling_factor >= 2
      BY ParameterAssumption DEF CascadingFactor
    <3>4. \A n \in 2 .. Len(levels') :
            (n <= Len(FlushedLevels) /\ levels'[n] = FlushedLevels[n]) \/ levels'[n] = 0
      BY <2>1, <3>1, <3>2, GrownType
    <3> QED
      BY <2>1, <3>3, <3>4 DEF BelowFactor
  <2> QED
    BY <1>1, <2>2, <2>3, <2>4, <2>5, <2>6, OpenSteps
<1>2. CASE Create
  BY <1>0, <1>2 DEF Create, LevelsBelowFactor
<1>3. CASE Load
  BY <1>3 DEF Load, LevelsBelowFactor
<1>4. CASE Close
  <2>1. levels' = <<>> /\ tree_data' = [memtable |-> memtable, levels |-> levels]
    BY <1>4 DEF Close, Destroyed
  <2>2. tree_data'.levels = levels
    BY <2>1
  <2> QED
    BY <1>0, <2>1, <2>2 DEF LevelsBelowFactor
<1>5. CASE CloseUnsaved
  BY <1>0, <1>5 DEF CloseUnsaved, Destroyed, LevelsBelowFactor
<1>6. CASE UNCHANGED vars
  BY <1>6 DEF vars, LevelsBelowFactor
<1>7. CASE \E k \in Key, e \in Entry : Insert(k, e)
  BY <1>1, <1>7 DEF Insert, InsertBuffered, InsertFlushThrows, InsertFlushedNothing, InsertFlushed,
     InsertCompacted, InsertCompactionThrows, InsertCompactedUnwritten, InsertFillsLevel
<1> QED
  BY <1>2, <1>3, <1>4, <1>5, <1>6, <1>7 DEF Next

(* With a factor of at least two the cascade always stops at a level with  *)
(* room: no level below the first, saved or not, reaches the factor,       *)
(* whatever fails and however often the tree is destroyed and loaded.      *)
THEOREM CascadeKeepsLevelsBelow ==
  ASSUME CascadingFactor
  PROVE  Spec => []LevelsBelowFactor
<1>1. Init => LevelsBelowFactor
  BY DEF Init, LevelsBelowFactor, BelowFactor
<1>2. TypeOK /\ LevelsBelowFactor /\ [Next]_vars => LevelsBelowFactor'
  BY LevelsBelowFactorStep
<1> QED
  BY <1>1, <1>2, TypeCorrect, PTL DEF Spec

(* A level 0 that has passed the trigger only grows. *)
LEMMA WedgedStep ==
  ASSUME TypeOK, [Next]_vars, open, open', levels # <<>>, levels[1] >= sstable_scaling_factor
  PROVE  levels'[1] >= levels[1]
<1>1. sstable_scaling_factor \in Nat /\ levels \in Seq(Nat) /\ Len(levels) \in Nat \ {0}
  BY ParameterAssumption DEF TypeOK
<1>2. levels[1] \in Nat /\ FlushedLevels[1] = levels[1] + 1
  BY <1>1, FlushedCounts
<1>3. ~LevelFilled
  BY <1>1, <1>2 DEF LevelFilled
<1>4. Grown(levels, 0) = levels
  BY <1>1 DEF Grown
<1> QED
  BY <1>2, <1>3, <1>4, OpenSteps
  DEF LevelsStay, LevelZeroGrown, LevelsFlushed, LevelsCompacted, LevelsOfFailedMerge

(* After a merge that threw, level 0 of the open tree never shrinks again, *)
(* for every scaling factor: no later flush meets the trigger.             *)
THEOREM WedgedNeverShrinks == Spec => WedgedForGood
<1>1. ASSUME TypeOK, [Next]_vars
      PROVE  [open /\ open' /\ levels # <<>> /\ levels[1] >= sstable_scaling_factor
                => levels'[1] >= levels[1]]_vars
  BY <1>1, WedgedStep
<1> QED
  BY <1>1, TypeCorrect, PTL DEF Spec, WedgedForGood

----------------------------------------------------------------------------
(* A scaling factor of 1. *)

(* A merge into a level below level 1 finds level 1 empty. *)
LEMMA FactorOneStep ==
  ASSUME sstable_scaling_factor = 1, TypeOK, [Next]_vars, open, open', Len(levels) >= 2
  PROVE  Len(levels') >= 2 /\ levels'[2] >= levels[2]
<1>1. levels \in Seq(Nat) /\ Len(levels) \in Nat /\ 2 \in 1 .. Len(levels) /\ levels[2] \in Nat
  BY DEF TypeOK
<1>2. FlushedLevels \in Seq(Nat) /\ Len(FlushedLevels) = Len(levels) /\ FlushedLevels[2] = levels[2]
  BY <1>1, FlushedCounts
<1>3. CASE LevelsStay \/ LevelZeroGrown \/ LevelsFlushed
  <2>1. Grown(levels, 0) = levels
    BY <1>1 DEF Grown
  <2> QED
    BY <1>1, <1>2, <1>3, <2>1 DEF LevelsStay, LevelZeroGrown, LevelsFlushed
<1>4. CASE LevelsOfFailedMerge
  <2>1. PICK level \in 1 .. Len(FlushedLevels) : levels' = Grown(FlushedLevels, level)
    BY <1>4 DEF LevelsOfFailedMerge
  <2>2. level \in 0 .. Len(FlushedLevels)
    BY <1>2
  <2> QED
    BY <1>1, <1>2, <2>1, <2>2, GrownType
<1>5. CASE LevelsCompacted
  <2>1. PICK level \in 1 .. Len(FlushedLevels), sst \in SSTable :
          /\ IsCompactionTarget(FlushedLevels, level)
          /\ levels' = CompactedLevels(FlushedLevels, level, sst)
    BY <1>5 DEF LevelsCompacted
  <2>2. /\ levels' \in Seq(Nat) /\ Len(levels') >= level
        /\ level < Len(FlushedLevels) =>
             /\ Len(levels') = Len(FlushedLevels)
             /\ levels'[level + 1] = FlushedLevels[level + 1] + IF sst # ZeroBytes THEN 1 ELSE 0
        /\ \A n \in 1 .. Len(levels') : n <= level => levels'[n] = 0
    BY <1>2, <2>1, CompactedCounts
  <2>3. CASE level = 1
    BY <1>1, <1>2, <2>2, <2>3
  <2>4. CASE level # 1
    <3>1. 1 \in 1 .. level - 1 /\ level >= 2
      BY <1>2, <2>4
    <3>2. FlushedLevels[2] = 0
      <4>1. FlushedLevels[1 + 1] + 1 = sstable_scaling_factor
        BY <2>1, <3>1 DEF IsCompactionTarget
      <4> QED
        BY <1>1, <1>2, <4>1
    <3>3. Len(levels') >= 2 /\ levels'[2] = 0
      BY <2>2, <3>1
    <3> QED
      BY <1>2, <3>2, <3>3
  <2> QED
    BY <2>3, <2>4
<1> QED
  BY <1>3, <1>4, <1>5, OpenSteps

(* With a scaling factor of 1 level 1 of an open tree never loses a table: *)
(* it is never merged into level 2 once it holds one.                      *)
THEOREM FactorOneNeverMerges ==
  ASSUME sstable_scaling_factor = 1
  PROVE  Spec => LevelOneNeverMerged
<1>1. ASSUME TypeOK, [Next]_vars
      PROVE  [open /\ open' /\ Len(levels) >= 2
                => Len(levels') >= 2 /\ levels'[2] >= levels[2]]_vars
  BY <1>1, FactorOneStep
<1> QED
  BY <1>1, TypeCorrect, PTL DEF Spec, LevelOneNeverMerged

----------------------------------------------------------------------------
(* Tables that no level names. *)

(* The unlinked files are exactly the tables that were merged. *)
LEMMA ConsumedAreInputs ==
  ASSUME TypeOK, LevelFilled, NEW level \in 1 .. Len(FlushedLevels),
         IsCompactionTarget(FlushedLevels, level)
  PROVE  ConsumedPaths(level) = Inputs(FlushedLevels, level)
<1>1. /\ FlushedLevels \in Seq(Nat) /\ Len(FlushedLevels) \in Nat
      /\ level \in Nat \ {0} /\ level <= Len(FlushedLevels)
      /\ sstable_scaling_factor \in Nat \ {0}
      /\ FlushedLevels[1] = sstable_scaling_factor
  <2>1. FlushedLevels[1] \in Nat \ {0}
    <3>1. levels = <<>> \/ levels[1] \in Nat
      BY DEF TypeOK
    <3> QED
      BY <3>1, FlushedCounts
  <2> QED
    BY <2>1, FlushedCounts DEF LevelFilled
<1>2. \A i \in 1 .. level - 1 :
        FlushedLevels[i + 1] \in Nat /\ FlushedLevels[i + 1] = sstable_scaling_factor - 1
  <2> TAKE i \in 1 .. level - 1
  <2>1. i + 1 \in 1 .. Len(FlushedLevels)
    BY <1>1
  <2>2. FlushedLevels[i + 1] \in Nat
    BY <1>1, <2>1
  <2>3. FlushedLevels[i + 1] + 1 = sstable_scaling_factor
    BY DEF IsCompactionTarget
  <2> QED
    BY <1>1, <2>2, <2>3
<1>3. ConsumedPaths(level) \subseteq Path /\ Inputs(FlushedLevels, level) \subseteq Path
  BY <1>1, ComponentsDef DEF ConsumedPaths, Inputs, Path
<1>4. ASSUME NEW i \in Nat, NEW j \in Nat
      PROVE  <<i, j>> \in ConsumedPaths(level) <=> <<i, j>> \in Inputs(FlushedLevels, level)
  <2>1. <<i, j>> \in Inputs(FlushedLevels, level)
          <=> i < level /\ i < Len(FlushedLevels) /\ j < FlushedLevels[i + 1]
    BY <1>1, ComponentsDef DEF Inputs
  <2>2. <<i, j>> \in ConsumedPaths(level)
          <=> \/ i < level /\ j <= sstable_scaling_factor - 2
              \/ i = 0 /\ j = sstable_scaling_factor - 1
    BY <1>1 DEF ConsumedPaths
  <2>3. CASE i = 0
    BY <1>1, <2>1, <2>2, <2>3
  <2>4. CASE i \in 1 .. level - 1
    BY <1>1, <1>2, <2>1, <2>2, <2>4
  <2>5. CASE i >= level
    BY <1>1, <2>1, <2>2, <2>5
  <2> QED
    BY <1>1, <2>3, <2>4, <2>5
<1>5. \A p \in Path : p \in ConsumedPaths(level) <=> p \in Inputs(FlushedLevels, level)
  BY <1>4 DEF Path
<1> QED
  BY <1>3, <1>5

OrphansOf(lv, fs) == {p \in DOMAIN fs \ Components(lv) : fs[p].kv # EmptyTable}

(* The flush itself orphans nothing: its table is named at once. *)
LEMMA FlushOrphans ==
  ASSUME TypeOK, NEW mem
  PROVE  OrphansOf(FlushedLevels, FlushedFiles(mem)) \subseteq Orphans
BY FlushedComponents DEF OrphansOf, Orphans, FlushedFiles, Stored, TypeOK

LEMMA MergeOrphans ==
  ASSUME NEW lv \in Seq(Nat), NEW fs, NEW sst, NEW level \in 1 .. Len(lv),
         ConsumedPaths(level) = Inputs(lv, level)
  PROVE  /\ OrphansOf(CompactedLevels(lv, level, sst),
                      Unlinked(Stored(fs, LastComponent(lv, level), sst), ConsumedPaths(level)))
              \subseteq OrphansOf(lv, fs)
         /\ OrphansOf(CompactedLevels(lv, level, sst), Unlinked(fs, ConsumedPaths(level)))
              \subseteq OrphansOf(lv, fs)
<1> DEFINE last == LastComponent(lv, level)
           kept == Components(lv) \ Inputs(lv, level)
           new == Components(CompactedLevels(lv, level, sst))
<1>1. new = kept \cup IF sst # ZeroBytes THEN {last} ELSE {}
  BY CompactedComponents
<1>2. ZeroBytes.kv = EmptyTable
  BY DEF ZeroBytes
<1> DEFINE written == Unlinked(Stored(fs, last, sst), ConsumedPaths(level))
<1> HIDE DEF last
<1>3. ASSUME NEW p \in DOMAIN written, p \notin new, written[p].kv # EmptyTable
      PROVE  p \in DOMAIN fs /\ p \notin Components(lv) /\ fs[p].kv # EmptyTable
  <2>1. p \notin ConsumedPaths(level) /\ p \in DOMAIN fs \cup {last}
        /\ written[p] = IF p = last THEN sst ELSE fs[p]
    BY DEF Stored, Unlinked
  <2>2. p # last
    <3> SUFFICES ASSUME p = last PROVE FALSE
      OBVIOUS
    <3>1. sst = ZeroBytes
      BY <1>1, <1>3
    <3> QED
      BY <1>2, <1>3, <2>1, <3>1
  <2> QED
    BY <1>1, <1>3, <2>1, <2>2
<1>4. ASSUME NEW p \in DOMAIN Unlinked(fs, ConsumedPaths(level)), p \notin new,
             Unlinked(fs, ConsumedPaths(level))[p].kv # EmptyTable
      PROVE  p \in DOMAIN fs /\ p \notin Components(lv) /\ fs[p].kv # EmptyTable
  <2>1. p \notin ConsumedPaths(level) /\ p \in DOMAIN fs
        /\ Unlinked(fs, ConsumedPaths(level))[p] = fs[p]
    BY DEF Unlinked
  <2> QED
    BY <1>1, <1>4, <2>1
<1>5. OrphansOf(CompactedLevels(lv, level, sst), written) \subseteq OrphansOf(lv, fs)
  <2> HIDE DEF written
  <2> QED
    BY <1>3 DEF OrphansOf
<1> QED
  BY <1>4, <1>5 DEF OrphansOf, last

LEMMA OrphansStep ==
  ASSUME TypeOK, [Next]_vars, open, open'
  PROVE  Orphans' \subseteq Orphans
<1>1. Orphans' = OrphansOf(levels', files')
  BY DEF Orphans, OrphansOf
<1>2. ASSUME NEW k \in Key, NEW e \in Entry, Insert(k, e)
      PROVE  OrphansOf(levels', files') \subseteq Orphans
  <2> DEFINE fs == FlushedFiles(Written(k, e))
  <2>1. levels \in Seq(Nat) /\ FlushedLevels \in Seq(Nat)
    BY FlushedType DEF TypeOK
  <2>2. OrphansOf(FlushedLevels, fs) \subseteq Orphans
    BY FlushOrphans
  <2>3. CASE InsertBuffered(k, e)
    BY <2>3 DEF InsertBuffered, Orphans, OrphansOf
  <2>4. CASE InsertFlushThrows(k, e)
    BY <2>1, <2>4, GrownComponents DEF InsertFlushThrows, Orphans, OrphansOf
  <2>5. CASE InsertFlushedNothing(k, e)
    BY <2>5 DEF InsertFlushedNothing, FlushedFiles, Stored, Orphans, OrphansOf, ZeroBytes
  <2>6. CASE InsertFlushed(k, e)
    BY <2>2, <2>6 DEF InsertFlushed
  <2>7. CASE InsertCompacted(k, e)
    <3>1. PICK level, sst :
            /\ level \in 1 .. Len(FlushedLevels)
            /\ IsCompactionTarget(FlushedLevels, level)
            /\ levels' = CompactedLevels(FlushedLevels, level, sst)
            /\ files' = Unlinked(Stored(fs, LastComponent(FlushedLevels, level), sst),
                                 ConsumedPaths(level))
      BY <2>7 DEF InsertCompacted
    <3>2. ConsumedPaths(level) = Inputs(FlushedLevels, level)
      BY <2>7, <3>1, ConsumedAreInputs DEF InsertCompacted, InsertFillsLevel
    <3> HIDE DEF fs
    <3> QED
      BY <2>1, <2>2, <3>1, <3>2, MergeOrphans
  <2>8. CASE InsertCompactionThrows(k, e)
    <3>1. PICK level \in 1 .. Len(FlushedLevels) :
            /\ levels' = Grown(FlushedLevels, level)
            /\ files' \in AfterThrow(fs, LastComponent(FlushedLevels, level))
      BY <2>8 DEF InsertCompactionThrows
    <3>2. Components(levels') = Components(FlushedLevels)
      <4>1. level \in 0 .. Len(FlushedLevels)
        BY <2>1
      <4> QED
        BY <2>1, <3>1, <4>1, GrownComponents
    <3> HIDE DEF fs
    <3>3. OrphansOf(levels', files') \subseteq OrphansOf(FlushedLevels, fs)
      BY <3>1, <3>2 DEF OrphansOf, Stored, ZeroBytes, AfterThrow
    <3> QED
      BY <2>2, <3>3
  <2>9. CASE InsertCompactedUnwritten(k, e)
    <3>1. PICK level, sst :
            /\ level \in 1 .. Len(FlushedLevels)
            /\ IsCompactionTarget(FlushedLevels, level)
            /\ levels' = CompactedLevels(FlushedLevels, level, sst)
            /\ files' = Unlinked(fs, ConsumedPaths(level))
      BY <2>9 DEF InsertCompactedUnwritten
    <3>2. ConsumedPaths(level) = Inputs(FlushedLevels, level)
      BY <2>9, <3>1, ConsumedAreInputs DEF InsertCompactedUnwritten, InsertFillsLevel
    <3> HIDE DEF fs
    <3> QED
      BY <2>1, <2>2, <3>1, <3>2, MergeOrphans
  <2> QED
    BY <1>2, <2>3, <2>4, <2>5, <2>6, <2>7, <2>8, <2>9 DEF Insert
<1>3. CASE UNCHANGED vars
  BY <1>3 DEF vars, Orphans
<1> QED
  BY <1>1, <1>2, <1>3 DEF Next, Create, Load, Close, CloseUnsaved, Destroyed

(* Whatever fails, an operation of an open tree leaves no new table with   *)
(* entries that no level names: a merge unlinks exactly what it has read.  *)
THEOREM NoOperationOrphans == Spec => NoNewOrphans
<1>1. ASSUME TypeOK, [Next]_vars
      PROVE  [open /\ open' => Orphans' \subseteq Orphans]_vars
  BY <1>1, OrphansStep
<1> QED
  BY <1>1, TypeCorrect, PTL DEF Spec, NoNewOrphans

----------------------------------------------------------------------------
(* The tree implements the map KVStore, as long as creating a table of     *)
(* level 0 and opening a reader are all that can fail.                     *)
(*                                                                         *)
(* What a caller sees of a key is the newest entry among the memtable and  *)
(* the components.  A flush moves the memtable's entries into the newest   *)
(* component; a merge replaces the components above a level, which are     *)
(* newer than all others, by one that answers for all of them.             *)


(* Of two different components one is newer, and only one. *)
LEMMA NewerAntisymmetric ==
  ASSUME NEW p \in Path, NEW q \in Path
  PROVE  ~ (Newer(p, q) /\ Newer(q, p))
<1>1. p[1] \in Nat /\ p[2] \in Nat /\ q[1] \in Nat /\ q[2] \in Nat
  BY DEF Path
<1> QED
  BY <1>1 DEF Newer

(* What decides is the one component that holds the key and is newer than  *)
(* all others that hold it.                                                *)
LEMMA NewestEntryIs ==
  ASSUME NEW lv \in Seq(Nat), NEW S, S \subseteq Components(lv), NEW fs, NEW k,
         NEW p \in Holding(fs, S, k),
         \A q \in Holding(fs, S, k) : q = p \/ Newer(p, q)
  PROVE  NewestEntry(fs, S, k) = fs[p].kv[k]
<1> DEFINE H == Holding(fs, S, k)
<1>1. H \subseteq Components(lv) /\ H \subseteq Path /\ H # {}
  BY ComponentsDef DEF Holding
<1>2. Newest(H) \in H /\ \A q \in H : q = Newest(H) \/ Newer(Newest(H), q)
  <2> HIDE DEF H
  <2> QED
    BY <1>1, NewestIsNewest
<1>3. Newest(H) = p
  <2>1. p \in Path /\ Newest(H) \in Path
    BY <1>1, <1>2
  <2>2. Newest(H) = p \/ (Newer(p, Newest(H)) /\ Newer(Newest(H), p))
    BY <1>2
  <2> QED
    BY <2>1, <2>2, NewerAntisymmetric
<1> QED
  BY <1>1, <1>3 DEF NewestEntry

(* The entry found is that of the newest table that has one. *)
LEMMA NewestEntryIn ==
  ASSUME NEW lv \in Seq(Nat), NEW S, S \subseteq Components(lv), NEW fs, NEW k
  PROVE  /\ Holding(fs, S, k) = {} => NewestEntry(fs, S, k) = nullopt
         /\ Holding(fs, S, k) # {} =>
              \E p \in Holding(fs, S, k) :
                /\ NewestEntry(fs, S, k) = fs[p].kv[k]
                /\ NewestEntry(fs, S, k) # nullopt
                /\ \A q \in Holding(fs, S, k) : q = p \/ Newer(p, q)
<1> DEFINE H == Holding(fs, S, k)
<1>1. H \subseteq Components(lv) /\ \A p \in H : fs[p].kv[k] # nullopt
  BY DEF Holding
<1>2. H # {} => /\ Newest(H) \in H
                /\ \A q \in H : q = Newest(H) \/ Newer(Newest(H), q)
  <2> HIDE DEF H
  <2> QED
    BY <1>1, NewestIsNewest
<1> QED
  BY <1>1, <1>2 DEF NewestEntry

(* Files that agree on the components give the same entry. *)
LEMMA NewestEntrySame ==
  ASSUME NEW S, NEW fs, NEW gs, NEW k,
         \A p \in S : p \in DOMAIN fs /\ p \in DOMAIN gs /\ fs[p] = gs[p],
         NEW lv \in Seq(Nat), S \subseteq Components(lv)
  PROVE  NewestEntry(fs, S, k) = NewestEntry(gs, S, k)
<1>1. Holding(fs, S, k) = Holding(gs, S, k)
  BY DEF Holding
<1>2. CASE Holding(fs, S, k) = {}
  BY <1>1, <1>2 DEF NewestEntry
<1>3. CASE Holding(fs, S, k) # {}
  <2>1. PICK p \in Holding(fs, S, k) :
          /\ NewestEntry(fs, S, k) = fs[p].kv[k]
          /\ \A q \in Holding(fs, S, k) : q = p \/ Newer(p, q)
    BY <1>3, NewestEntryIn
  <2>2. NewestEntry(gs, S, k) = gs[p].kv[k]
    BY <1>1, <2>1, NewestEntryIs
  <2>3. fs[p] = gs[p]
    BY DEF Holding
  <2> QED
    BY <2>1, <2>2, <2>3
<1> QED
  BY <1>2, <1>3

(* Where all of A is newer than all of B, A decides if it holds the key.   *)
LEMMA NewestEntrySplit ==
  ASSUME NEW lv \in Seq(Nat), NEW A, NEW B, NEW S, S \subseteq Components(lv),
         \A x : x \in S <=> x \in A \/ x \in B,
         \A p \in A, q \in B : Newer(p, q),
         NEW fs, NEW k
  PROVE  NewestEntry(fs, S, k) =
           IF NewestEntry(fs, A, k) # nullopt THEN NewestEntry(fs, A, k)
           ELSE NewestEntry(fs, B, k)
<1>1. Holding(fs, S, k) = Holding(fs, A, k) \cup Holding(fs, B, k)
  BY DEF Holding
<1>2. CASE Holding(fs, A, k) # {}
  <2>1. PICK p \in Holding(fs, A, k) :
          /\ NewestEntry(fs, A, k) = fs[p].kv[k]
          /\ NewestEntry(fs, A, k) # nullopt
          /\ \A q \in Holding(fs, A, k) : q = p \/ Newer(p, q)
    <3>1. A \subseteq Components(lv)
      OBVIOUS
    <3> QED
      BY <1>2, <3>1, NewestEntryIn
  <2>2. \A q \in Holding(fs, S, k) : q = p \/ Newer(p, q)
    BY <1>1, <2>1 DEF Holding
  <2>3. p \in Holding(fs, S, k)
    BY <1>1
  <2>4. NewestEntry(fs, S, k) = fs[p].kv[k]
    BY <2>2, <2>3, NewestEntryIs
  <2> QED
    BY <2>1, <2>4
<1>3. CASE Holding(fs, A, k) = {}
  <2>1. NewestEntry(fs, A, k) = nullopt
    BY <1>3 DEF NewestEntry
  <2>2. Holding(fs, S, k) = Holding(fs, B, k)
    BY <1>1, <1>3
  <2> QED
    BY <2>1, <2>2 DEF NewestEntry
<1> QED
  BY <1>2, <1>3

(* A single table decides if it holds the key. *)
LEMMA NewestEntryOne ==
  ASSUME NEW lv \in Seq(Nat), NEW p \in Components(lv), NEW S, \A x : x \in S <=> x = p,
         NEW fs, p \in DOMAIN fs, NEW k
  PROVE  NewestEntry(fs, S, k) = fs[p].kv[k]
<1>1. CASE fs[p].kv[k] = nullopt
  BY <1>1 DEF NewestEntry, Holding
<1>2. CASE fs[p].kv[k] # nullopt
  <2>0. S \subseteq Components(lv)
    OBVIOUS
  <2>1. p \in Holding(fs, S, k) /\ \A q \in Holding(fs, S, k) : q = p
    BY <1>2 DEF Holding
  <2> QED
    BY <2>0, <2>1, NewestEntryIs
<1> QED
  BY <1>1, <1>2

----------------------------------------------------------------------------
(* A flush moves the memtable into the newest component. *)

(* A flush that writes a table changes no answer. *)
LEMMA FlushKeepsLookup ==
  ASSUME TypeOK, Readable(levels, files),
         NEW mem \in Table, FlushedTable(mem) # ZeroBytes, NEW k \in Key
  PROVE  Lookup(EmptyTable, FlushedLevels, FlushedFiles(mem), k) = Lookup(mem, levels, files, k)
<1> DEFINE last == LastComponent(levels, 0)
           comps == Components(levels)
           fs == FlushedFiles(mem)
           sst == FlushedTable(mem)
<1>1. levels \in Seq(Nat) /\ 0 \in 0 .. Len(levels)
  BY DEF TypeOK
<1>2. /\ last \notin comps
      /\ Components(FlushedLevels) = {last} \cup comps
      /\ \A q \in comps : Newer(last, q)
  BY <1>1, FlushedComponents
<1>3. FlushedLevels \in Seq(Nat)
  <2>1. Grown(levels, 0) \in Seq(Nat) /\ Len(Grown(levels, 0)) \in Nat \ {0}
    BY <1>1, GrownType
  <2> QED
    BY <2>1 DEF FlushedLevels
<1>4. last \in DOMAIN fs /\ fs[last] = sst
  BY DEF FlushedFiles, Stored
<1>5. \A p \in comps : p \in DOMAIN fs /\ p \in DOMAIN files /\ fs[p] = files[p]
  BY <1>2 DEF FlushedFiles, Stored, Readable
<1>6. sst.kv = SkipDeleted(mem, CreatedJustNow(levels, 0))
  BY NonEmptyTables DEF FlushedTable
<1>7. NewestEntry(fs, Components(FlushedLevels), k) =
        IF sst.kv[k] # nullopt THEN sst.kv[k] ELSE NewestEntry(files, comps, k)
  <2> HIDE DEF last, comps, fs, sst
  <2>1. NewestEntry(fs, {last}, k) = sst.kv[k]
    BY <1>2, <1>3, <1>4, NewestEntryOne
  <2>2. NewestEntry(fs, comps, k) = NewestEntry(files, comps, k)
    BY <1>2, <1>3, <1>5, NewestEntrySame
  <2> QED
    BY <1>2, <1>3, <2>1, <2>2, NewestEntrySplit
<1>8. CreatedJustNow(levels, 0) => NewestEntry(files, comps, k) = nullopt
  <2>1. CreatedJustNow(levels, 0) => comps = {}
    BY <1>1 DEF CreatedJustNow, Components
  <2> QED
    BY <2>1 DEF NewestEntry, Holding
<1>9. sst.kv[k] = IF CreatedJustNow(levels, 0) /\ mem[k] = Empty THEN nullopt ELSE mem[k]
  BY <1>6 DEF SkipDeleted
<1>10. EmptyTable[k] = nullopt
  BY DEF EmptyTable
<1> HIDE DEF last, comps, fs, sst
<1>11. Lookup(EmptyTable, FlushedLevels, fs, k) = Visible(NewestEntry(fs, Components(FlushedLevels), k))
  BY <1>10 DEF Lookup
<1>12. Lookup(mem, levels, files, k) =
         Visible(IF mem[k] # nullopt THEN mem[k] ELSE NewestEntry(files, comps, k))
  BY DEF Lookup, comps
<1>13. Visible(NewestEntry(fs, Components(FlushedLevels), k)) =
         Visible(IF mem[k] # nullopt THEN mem[k] ELSE NewestEntry(files, comps, k))
  BY <1>7, <1>8, <1>9, SentinelAssumption DEF Visible
<1> QED
  BY <1>11, <1>12, <1>13 DEF fs

(* A merge replaces the newest components by one that answers for them;    *)
(* where it drops tombstones there is no older component to shine through. *)
LEMMA CompactionKeepsLookup ==
  ASSUME NEW lv \in Seq(Nat), NEW level \in 1 .. Len(lv), NEW fs, Readable(lv, fs),
         NEW mem, NEW k \in Key
  PROVE  LET sst == MergedTable(lv, fs, level)
         IN  Lookup(mem, CompactedLevels(lv, level, sst),
                    Unlinked(Stored(fs, LastComponent(lv, level), sst), ConsumedPaths(level)), k)
             = Lookup(mem, lv, fs, k)
<1> DEFINE sst  == MergedTable(lv, fs, level)
           last == LastComponent(lv, level)
           used == Inputs(lv, level)
           kept == Components(lv) \ used
           clv  == CompactedLevels(lv, level, sst)
           fs2  == Unlinked(Stored(fs, last, sst), ConsumedPaths(level))
<1>1. /\ last \notin Components(lv)
      /\ Components(clv) = kept \cup IF sst # ZeroBytes THEN {last} ELSE {}
      /\ \A q \in kept : Newer(last, q)
      /\ CreatedJustNow(lv, level) => kept = {}
      /\ (kept \cup {last}) \cap ConsumedPaths(level) = {}
  BY CompactedComponents
<1>2. clv \in Seq(Nat)
  BY CompactedLevelsType
<1>3. used \subseteq Components(lv) /\ used \cup kept = Components(lv)
  BY DEF Inputs
<1>4. \A p \in used, q \in kept : Newer(p, q)
  <2>1. Components(lv) \subseteq Path
    BY ComponentsDef
  <2>2. ASSUME NEW p \in used, NEW q \in kept PROVE Newer(p, q)
    <3>1. p \in Path /\ q \in Path /\ p[1] < level /\ ~ (q[1] < level)
      BY <2>1 DEF Inputs
    <3>2. p[1] \in Nat /\ q[1] \in Nat /\ level \in Nat
      BY <3>1 DEF Path
    <3> QED
      BY <3>1, <3>2 DEF Newer
  <2> QED
    BY <2>2
<1>5. \A p \in kept : p \in DOMAIN fs2 /\ p \in DOMAIN fs /\ fs2[p] = fs[p]
  <2> TAKE p \in kept
  <2>1. p \in DOMAIN fs /\ p # last /\ p \notin ConsumedPaths(level)
    BY <1>1 DEF Readable
  <2> HIDE DEF sst, last, kept
  <2> QED
    BY <2>1 DEF Stored, Unlinked
<1>6. last \in DOMAIN fs2 /\ fs2[last] = sst
  <2>1. last \notin ConsumedPaths(level)
    BY <1>1
  <2> HIDE DEF sst, last, kept
  <2> QED
    BY <2>1 DEF Stored, Unlinked
<1>7. sst.kv[k] = IF CreatedJustNow(lv, level) /\ NewestEntry(fs, used, k) = Empty
                  THEN nullopt ELSE NewestEntry(fs, used, k)
  BY DEF MergedTable, MergedKV, SkipDeleted, MergedEntry
<1>8. sst = ZeroBytes => sst.kv[k] = nullopt
  <2> HIDE DEF sst
  <2> QED
    BY DEF ZeroBytes, EmptyTable
<1> HIDE DEF sst, last, used, kept, clv, fs2
<1>9. NewestEntry(fs, Components(lv), k) =
        IF NewestEntry(fs, used, k) # nullopt THEN NewestEntry(fs, used, k)
        ELSE NewestEntry(fs, kept, k)
  BY <1>3, <1>4, NewestEntrySplit
<1>10. NewestEntry(fs2, Components(clv), k) =
         IF sst.kv[k] # nullopt THEN sst.kv[k] ELSE NewestEntry(fs, kept, k)
  <2>1. NewestEntry(fs2, kept, k) = NewestEntry(fs, kept, k)
    BY <1>3, <1>5, NewestEntrySame
  <2>2. CASE sst = ZeroBytes
    <3>1. Components(clv) = kept
      BY <1>1, <2>2
    <3> QED
      BY <1>8, <2>1, <2>2, <3>1
  <2>3. CASE sst # ZeroBytes
    <3>1. Components(clv) = {last} \cup kept
      BY <1>1, <2>3
    <3>0. last \in Components(clv)
      BY <3>1
    <3>2. NewestEntry(fs2, {last}, k) = sst.kv[k]
      BY <1>2, <1>6, <3>0, NewestEntryOne
    <3> QED
      BY <1>1, <1>2, <2>1, <3>1, <3>2, NewestEntrySplit
  <2> QED
    BY <2>2, <2>3
<1>11. CreatedJustNow(lv, level) => NewestEntry(fs, kept, k) = nullopt
  BY <1>1 DEF NewestEntry, Holding
<1>12. Visible(NewestEntry(fs2, Components(clv), k)) = Visible(NewestEntry(fs, Components(lv), k))
  BY <1>7, <1>9, <1>10, <1>11, SentinelAssumption DEF Visible
<1>13. Lookup(mem, clv, fs2, k) = Lookup(mem, lv, fs, k)
  BY <1>12 DEF Lookup, Visible
<1> QED
  BY <1>13 DEF sst, last, clv, fs2

----------------------------------------------------------------------------
(* The operations. *)

(* The memtable answers before any component. *)
LEMMA WrittenLookup ==
  ASSUME memtable \in Table, NEW k \in Key, NEW e \in Entry
  PROVE  ContentsOf(Written(k, e), levels) = [ContentsOf(memtable, levels) EXCEPT ![k] = Visible(e)]
<1>1. DOMAIN memtable = Key /\ e # nullopt
  BY SentinelAssumption DEF Table, Entry
<1>2. \A j \in Key : Written(k, e)[j] = IF j = k THEN e ELSE memtable[j]
  BY <1>1 DEF Written
<1>3. \A j \in Key : Lookup(Written(k, e), levels, files, j)
                       = IF j = k THEN Visible(e) ELSE Lookup(memtable, levels, files, j)
  BY <1>1, <1>2 DEF Lookup
<1> QED
  BY <1>3 DEF ContentsOf

(* Only tombstones, flushed into a tree without tables: nothing to see.    *)
LEMMA NothingFlushed ==
  ASSUME TypeOK, NEW k \in Key, NEW e \in Entry, FlushedTable(Written(k, e)) = ZeroBytes,
         NEW fs, NEW j \in Key
  PROVE  /\ Lookup(EmptyTable, levels, fs, j) = nullopt
         /\ Lookup(Written(k, e), levels, files, j) = nullopt
<1> DEFINE mem == Written(k, e)
           kv == SkipDeleted(mem, CreatedJustNow(levels, 0))
<1>1. kv = EmptyTable
  BY DEF FlushedTable, MakeSSTable, ZeroBytes
<1>2. \A i \in Key : (CreatedJustNow(levels, 0) /\ mem[i] = Empty) \/ mem[i] = nullopt
  BY <1>1 DEF EmptyTable, SkipDeleted
<1>3. mem[k] # nullopt
  BY SentinelAssumption DEF Written, TypeOK, Table, Entry
<1>4. levels \in Seq(Nat) /\ Len(levels) = 0
  BY <1>2, <1>3 DEF CreatedJustNow, TypeOK
<1>5. Components(levels) = {}
  BY <1>4 DEF Components
<1>6. NewestEntry(fs, Components(levels), j) = nullopt
      /\ NewestEntry(files, Components(levels), j) = nullopt
  BY <1>5 DEF NewestEntry, Holding
<1>7. EmptyTable[j] = nullopt /\ (mem[j] = Empty \/ mem[j] = nullopt)
  BY <1>2 DEF EmptyTable
<1> HIDE DEF mem
<1>8. Lookup(EmptyTable, levels, fs, j) = nullopt /\ Lookup(mem, levels, files, j) = nullopt
  BY <1>6, <1>7, SentinelAssumption DEF Lookup, Visible
<1> QED
  BY <1>8 DEF mem

(* Whatever path the insert takes, the caller sees its write and no other  *)
(* change.                                                                 *)
LEMMA InsertStep ==
  ASSUME WholeMerges, TypeOK, ComponentsReadable, NEW k \in Key, NEW e \in Entry, Insert(k, e)
  PROVE  open /\ open' /\ Contents' = [Contents EXCEPT ![k] = Visible(e)]
<1> DEFINE mem == Written(k, e)
           fs  == FlushedFiles(mem)
<1>0. /\ open /\ open'
      /\ Contents = ContentsOf(memtable, levels)
      /\ Contents' = ContentsOf(memtable, levels)'
      /\ CurrentLevels = levels
  <2>1. open /\ open' = open
    BY DEF Insert, InsertBuffered, InsertFlushThrows, InsertFlushedNothing, InsertFlushed,
           InsertCompacted, InsertCompactionThrows, InsertCompactedUnwritten, InsertFillsLevel
  <2> QED
    BY <2>1 DEF Contents, CurrentLevels
<1>1. /\ Readable(levels, files)
      /\ levels \in Seq(Nat) /\ FlushedLevels \in Seq(Nat)
      /\ memtable \in Table /\ mem \in Table
  BY <1>0, FlushedType DEF ComponentsReadable, Readable, TypeOK
<1>2. ContentsOf(mem, levels) = [Contents EXCEPT ![k] = Visible(e)]
  BY <1>0, <1>1, WrittenLookup
<1>3. SUFFICES \A j \in Key : Lookup(memtable', levels', files', j) = Lookup(mem, levels, files, j)
  <2>1. ContentsOf(memtable, levels)' = [j \in Key |-> Lookup(memtable', levels', files', j)]
    BY DEF ContentsOf
  <2>2. ContentsOf(mem, levels) = [j \in Key |-> Lookup(mem, levels, files, j)]
    BY DEF ContentsOf
  <2> HIDE DEF mem
  <2> QED
    BY <1>0, <1>2, <1>3, <2>1, <2>2
<1> TAKE j \in Key
<1>4. CASE InsertBuffered(k, e)
  BY <1>4 DEF InsertBuffered
<1>5. CASE InsertFlushThrows(k, e)
  <2>1. Components(levels') = Components(levels) /\ files' = files /\ memtable' = mem
    BY <1>1, <1>5, GrownComponents DEF InsertFlushThrows
  <2> QED
    BY <2>1 DEF Lookup
<1>6. CASE InsertFlushedNothing(k, e)
  BY <1>6, NothingFlushed DEF InsertFlushedNothing
<1>7. FlushedTable(mem) # ZeroBytes
      => /\ Readable(FlushedLevels, fs)
         /\ Lookup(EmptyTable, FlushedLevels, fs, j) = Lookup(mem, levels, files, j)
  BY <1>1, FlushKeepsReadable, FlushKeepsLookup
<1>8. CASE InsertFlushed(k, e)
  BY <1>7, <1>8 DEF InsertFlushed
<1>9. CASE InsertCompacted(k, e)
  <2>1. PICK level, sst :
          /\ level \in 1 .. Len(FlushedLevels)
          /\ sst \in MergedTables(FlushedLevels, fs, level)
          /\ levels' = CompactedLevels(FlushedLevels, level, sst)
          /\ files' = Unlinked(Stored(fs, LastComponent(FlushedLevels, level), sst),
                               ConsumedPaths(level))
    BY <1>9 DEF InsertCompacted
  <2>2. memtable' = EmptyTable /\ FlushedTable(mem) # ZeroBytes
    BY <1>9 DEF InsertCompacted, InsertFillsLevel
  <2> HIDE DEF fs, mem
  <2>4. sst = MergedTable(FlushedLevels, fs, level)
    BY <1>1, <1>7, <2>1, <2>2, MergedFromReadable
  <2>3. Lookup(EmptyTable, levels', files', j) = Lookup(EmptyTable, FlushedLevels, fs, j)
    BY <1>1, <1>7, <2>1, <2>2, <2>4, CompactionKeepsLookup
  <2> QED
    BY <1>7, <2>2, <2>3
<1>10. CASE InsertCompactionThrows(k, e)
  <2>1. PICK level \in 1 .. Len(FlushedLevels) :
          /\ levels' = Grown(FlushedLevels, level)
          /\ files' \in AfterThrow(fs, LastComponent(FlushedLevels, level))
    BY <1>10 DEF InsertCompactionThrows
  <2>2. memtable' = EmptyTable /\ FlushedTable(mem) # ZeroBytes
    BY <1>10 DEF InsertCompactionThrows, InsertFillsLevel
  <2>3. level \in 0 .. Len(FlushedLevels)
    BY <1>1
  <2> HIDE DEF fs, mem
  <2>4. /\ Components(levels') = Components(FlushedLevels)
        /\ LastComponent(FlushedLevels, level) \notin Components(FlushedLevels)
    BY <1>1, <2>1, <2>3, GrownComponents
  <2>5. \A p \in Components(FlushedLevels) :
          p \in DOMAIN files' /\ p \in DOMAIN fs /\ files'[p] = fs[p]
    BY <1>7, <2>1, <2>2, <2>4 DEF Readable, Stored, AfterThrow
  <2>6. NewestEntry(files', Components(FlushedLevels), j) = NewestEntry(fs, Components(FlushedLevels), j)
    <3> DEFINE comps == Components(FlushedLevels)
    <3>1. comps \subseteq Components(FlushedLevels)
      OBVIOUS
    <3> QED
      BY <1>1, <2>5, <3>1, NewestEntrySame
  <2>7. Lookup(EmptyTable, levels', files', j) = Lookup(EmptyTable, FlushedLevels, fs, j)
    BY <2>4, <2>6 DEF Lookup
  <2> QED
    BY <1>7, <2>2, <2>7
<1>11. CASE InsertCompactedUnwritten(k, e)
  BY <1>11 DEF InsertCompactedUnwritten, WholeMerges
<1> QED
  BY <1>4, <1>5, <1>6, <1>8, <1>9, <1>10, <1>11 DEF Insert

(* An insert is the insert or the erase of the map. *)
LEMMA InsertImplements ==
  ASSUME WholeMerges, TypeOK, ComponentsReadable, NEW k \in Key, NEW e \in Entry, Insert(k, e)
  PROVE  IF e = Empty THEN Store!Erase(k) ELSE Store!Insert(k, e)
<1>1. open /\ open' /\ Contents' = [Contents EXCEPT ![k] = Visible(e)]
  BY InsertStep
<1>2. UNCHANGED open
  BY <1>1 DEF TypeOK, Insert, InsertBuffered, InsertFlushThrows, InsertFlushedNothing, InsertFlushed,
     InsertCompacted, InsertCompactionThrows, InsertCompactedUnwritten, InsertFillsLevel
<1> QED
  BY <1>1, <1>2 DEF Store!Erase, Store!Insert, Visible

(* A tree without levels and entries is the empty map. *)
LEMMA NoContents ==
  \A fs : [k \in Key |-> Lookup(EmptyTable, <<>>, fs, k)] = Store!Nothing
<1>1. Components(<<>>) = {}
  BY DEF Components
<1>2. \A fs : \A k \in Key : Lookup(EmptyTable, <<>>, fs, k) = nullopt
  BY <1>1, SentinelAssumption DEF Lookup, NewestEntry, Holding, EmptyTable, Visible
<1> QED
  BY <1>2 DEF Store!Nothing

(* Every step of the tree is a step of the map, or none. *)
LEMMA RefinementStep ==
  ASSUME SafeFaults, TypeOK, ComponentsReadable, [Next]_vars
  PROVE  [Store!Next]_(Store!vars)
<1>1. CASE Create
  <2>1. ~open /\ open' = TRUE
    BY <1>1 DEF Create
  <2>2. Contents' = [k \in Key |-> Lookup(EmptyTable, <<>>, files', k)]
    BY <1>1 DEF Create, Contents, ContentsOf
  <2>3. Store!Create
    BY <2>1, <2>2, NoContents DEF Store!Create
  <2> QED
    BY <2>3 DEF Store!Next
<1>2. CASE Load
  <2>1. ~open /\ open' = TRUE
    BY <1>2 DEF Load
  <2>2. Contents' = Contents
    BY <1>2 DEF Load, Contents, ContentsOf
  <2>3. Store!Load
    BY <2>1, <2>2 DEF Store!Load
  <2> QED
    BY <2>3 DEF Store!Next
<1>3. CASE Close
  <2>1. open /\ open' = FALSE
    BY <1>3 DEF Close, Destroyed
  <2>2. tree_data' = [memtable |-> memtable, levels |-> levels] /\ files' = files
    BY <1>3 DEF Close, Destroyed
  <2>3. tree_data' # nullopt
    BY <2>2, SavedTreeAssumption DEF SavedTree, TypeOK
  <2>4. Contents' = Contents
    BY <2>1, <2>2, <2>3 DEF Contents, ContentsOf
  <2>5. Store!Close
    BY <2>1, <2>4 DEF Store!Close
  <2> QED
    BY <2>5 DEF Store!Next
<1>4. ASSUME NEW k \in Key, NEW e \in Entry, Insert(k, e)
      PROVE  Store!Next
  <2>0. WholeMerges
    BY DEF SafeFaults, WholeMerges
  <2>1. e = Empty => Store!Erase(k)
    BY <1>4, <2>0, InsertImplements
  <2>2. e # Empty => e \in Value /\ Store!Insert(k, e)
    BY <1>4, <2>0, InsertImplements DEF Entry
  <2> QED
    BY <2>1, <2>2 DEF Store!Next
<1>5. CASE CloseUnsaved
  BY <1>5 DEF CloseUnsaved, SafeFaults
<1>6. CASE UNCHANGED vars
  BY <1>6 DEF vars, Store!vars, Contents, ContentsOf
<1> QED
  BY <1>1, <1>2, <1>3, <1>4, <1>5, <1>6 DEF Next

(* Every behaviour of the tree is a behaviour of the map: flushes, merges, *)
(* dropped tombstones, operations that throw, saving and loading change    *)
(* nothing a caller can see.                                               *)
THEOREM TreeImplementsMap ==
  ASSUME SafeFaults
  PROVE  Spec => ImplementsMap
<1>1. Init => Store!Init
  <2>1. SUFFICES ASSUME Init PROVE Contents = Store!Nothing /\ open = FALSE
    BY DEF Store!Init
  <2> QED
    BY <2>1 DEF Init, Contents, EmptyTable, Store!Nothing
<1>2. TypeOK /\ ComponentsReadable /\ [Next]_vars => [Store!Next]_(Store!vars)
  BY RefinementStep
<1> QED
  BY <1>1, <1>2, TypeCorrect, ReadableAlways, PTL DEF Spec, ImplementsMap, Store!Spec

(* Every Insert and Erase has the effect it was called for and no other,   *)
(* even the one that ends in an exception.                                 *)
THEOREM WritesTakeEffectAlways ==
  ASSUME SafeFaults
  PROVE  Spec => WritesTakeEffect
<1>1. TypeOK /\ ComponentsReadable /\ [Next]_vars
      => [\A k \in Key, e \in Entry :
            Insert(k, e) => IF e = Empty THEN Store!Erase(k) ELSE Store!Insert(k, e)]_vars
  BY InsertImplements DEF SafeFaults, WholeMerges
<1> QED
  BY <1>1, TypeCorrect, ReadableAlways, PTL DEF Spec, WritesTakeEffect

----------------------------------------------------------------------------
(* What Find and FindRange answer: the loops over levels and tables, which *)
(* the model writes as recursive functions, compute the lookup among all   *)
(* components, and the newest visible entry of every key.                  *)

(* Both lookups walk through the components in the order of their age.     *)
(* From(i): those of level i and of deeper ones; Older(i, j): the first j  *)
(* of level i and those of deeper levels.                                  *)

From(i) == {p \in Components(levels) : p[1] >= i}
Older(i, j) == {p \in Components(levels) : p[1] > i \/ (p[1] = i /\ p[2] < j)}

LEMMA OlderSets ==
  ASSUME levels \in Seq(Nat)
  PROVE  /\ From(0) = Components(levels)
         /\ From(Len(levels)) = {}
         /\ \A i \in 0 .. Len(levels) - 1 : /\ Older(i, 0) = From(i + 1)
                                            /\ Older(i, levels[i + 1]) = From(i)
<1>1. \A p \in Components(levels) :
        p[1] \in Nat /\ p[2] \in Nat /\ p[1] < Len(levels) /\ p[2] < levels[p[1] + 1]
  <2>1. Components(levels) \subseteq Path
    BY ComponentsDef
  <2>2. ASSUME NEW p \in Components(levels)
        PROVE  p = <<p[1], p[2]>> /\ p[1] \in Nat /\ p[2] \in Nat
    BY <2>1 DEF Path
  <2> QED
    BY <2>2, ComponentsDef
<1>2. Len(levels) \in Nat /\ \A i \in 0 .. Len(levels) - 1 : levels[i + 1] \in Nat
  OBVIOUS
<1>3. From(0) = Components(levels) /\ From(Len(levels)) = {}
  BY <1>1, <1>2 DEF From
<1>4. ASSUME NEW i \in 0 .. Len(levels) - 1
      PROVE  Older(i, 0) = From(i + 1) /\ Older(i, levels[i + 1]) = From(i)
  <2>1. ASSUME NEW p \in Components(levels)
        PROVE  /\ (p[1] > i \/ (p[1] = i /\ p[2] < 0)) <=> p[1] >= i + 1
               /\ (p[1] > i \/ (p[1] = i /\ p[2] < levels[i + 1])) <=> p[1] >= i
    BY <1>1, <1>2
  <2> QED
    BY <2>1 DEF From, Older
<1> QED
  BY <1>3, <1>4

(* One component more: it decides if it holds the key. *)
LEMMA OlderEntry ==
  ASSUME levels \in Seq(Nat), Readable(levels, files), NEW k,
         NEW i \in 0 .. Len(levels) - 1, NEW j \in 1 .. levels[i + 1]
  PROVE  NewestEntry(files, Older(i, j), k) =
           IF files[<<i, j - 1>>].kv[k] # nullopt THEN files[<<i, j - 1>>].kv[k]
           ELSE NewestEntry(files, Older(i, j - 1), k)
<1> DEFINE p == <<i, j - 1>>
<1>1. i \in Nat /\ j \in Nat /\ j - 1 \in Nat /\ levels[i + 1] \in Nat /\ i < Len(levels)
  OBVIOUS
<1>2. p \in Components(levels) /\ p \in DOMAIN files
  BY <1>1, ComponentsDef DEF Readable
<1>3. ASSUME NEW q \in Components(levels)
      PROVE  /\ q = <<q[1], q[2]>> /\ q[1] \in Nat /\ q[2] \in Nat
             /\ q \in Older(i, j) <=> q = p \/ q \in Older(i, j - 1)
             /\ q \in Older(i, j - 1) => Newer(p, q)
  <2>1. q = <<q[1], q[2]>> /\ q[1] \in Nat /\ q[2] \in Nat
    BY ComponentsDef DEF Path
  <2>2. q = p <=> q[1] = i /\ q[2] = j - 1
    BY <2>1
  <2>3. q \in Older(i, j) <=> q = p \/ q \in Older(i, j - 1)
    BY <1>1, <2>1, <2>2 DEF Older
  <2>4. q \in Older(i, j - 1) => Newer(p, q)
    BY <1>1, <2>1 DEF Older, Newer
  <2> QED
    BY <2>1, <2>3, <2>4
<1>4. Older(i, j) \subseteq Components(levels) /\ Older(i, j - 1) \subseteq Components(levels)
  BY DEF Older
<1> HIDE DEF p
<1>5. \A q : q \in Older(i, j) <=> q \in {p} \/ q \in Older(i, j - 1)
  BY <1>2, <1>3, <1>4
<1>6. NewestEntry(files, {p}, k) = files[p].kv[k]
  BY <1>2, NewestEntryOne
<1>7. \A a \in {p}, b \in Older(i, j - 1) : Newer(a, b)
  BY <1>3, <1>4
<1>8. NewestEntry(files, Older(i, j), k) =
        IF NewestEntry(files, {p}, k) # nullopt THEN NewestEntry(files, {p}, k)
        ELSE NewestEntry(files, Older(i, j - 1), k)
  <2> DEFINE A == {p}
             B == Older(i, j - 1)
             S == Older(i, j)
  <2>1. /\ S \subseteq Components(levels)
        /\ \A x : x \in S <=> x \in A \/ x \in B
        /\ \A a \in A, b \in B : Newer(a, b)
    BY <1>4, <1>5, <1>7
  <2> HIDE DEF A, B, S
  <2>2. NewestEntry(files, S, k) =
          IF NewestEntry(files, A, k) # nullopt THEN NewestEntry(files, A, k)
          ELSE NewestEntry(files, B, k)
    BY <2>1, NewestEntrySplit
  <2> QED
    BY <2>2 DEF A, B, S
<1> QED
  BY <1>6, <1>8 DEF p

----------------------------------------------------------------------------
(* Find: its two loops as equations, and what solves them. *)

(* The loop over the components of level i; l is what the levels answer.   *)
ReadEquation(k, i, l, r) ==
  r = [j \in 0 .. levels[i + 1] |->
         IF j = 0 THEN l[i + 1]
         ELSE LET sst == files[<<i, j - 1>>]
              IN  IF TestHashes(sst, k) /\ sst.kv[k] # nullopt
                  THEN Visible(sst.kv[k])
                  ELSE r[j - 1]]

LevelEquation(k, l) ==
  l = [i \in 0 .. Len(levels) |->
         IF i = Len(levels) THEN nullopt
         ELSE (CHOOSE r : ReadEquation(k, i, l, r))[levels[i + 1]]]

LEMMA FindInComponentsIs ==
  ASSUME NEW k
  PROVE  FindInComponents(k) = (CHOOSE l : LevelEquation(k, l))[0]
BY DEF FindInComponents, LevelEquation, ReadEquation

Answer(i, k) == Visible(NewestEntry(files, From(i), k))

LEMMA ReadUnique ==
  ASSUME NEW k, NEW i, levels[i + 1] \in Nat, NEW l, NEW r, NEW s,
         ReadEquation(k, i, l, r), ReadEquation(k, i, l, s)
  PROVE  r = s
<1> DEFINE n == levels[i + 1]
           T == {j \in 0 .. n : r[j] # s[j]}
<1>1. SUFFICES ASSUME T # {} PROVE FALSE
  BY DEF ReadEquation
<1>2. PICK j \in T : \A m \in T : j <= m
  <2>1. T \subseteq Nat
    OBVIOUS
  <2> HIDE DEF T
  <2> QED
    BY <1>1, <2>1, LeastNat
<1>3. j \in 0 .. n /\ r[j] # s[j]
  OBVIOUS
<1>4. j # 0
  BY <1>3 DEF ReadEquation
<1>5. j - 1 \in 0 .. n /\ j - 1 \notin T
  BY <1>2, <1>3, <1>4
<1>6. r[j - 1] = s[j - 1]
  BY <1>5
<1>7. r[j] = s[j]
  BY <1>3, <1>4, <1>6 DEF ReadEquation
<1> QED
  BY <1>3, <1>7

(* Where the deeper levels answer the newest entry, the loop over the      *)
(* components of level i does.                                             *)
LEMMA ReadAnswers ==
  ASSUME levels \in Seq(Nat), Readable(levels, files), FiltersSound, NEW k \in Key,
         NEW i \in 0 .. Len(levels) - 1, NEW l, l[i + 1] = Answer(i + 1, k)
  PROVE  (CHOOSE r : ReadEquation(k, i, l, r))[levels[i + 1]] = Answer(i, k)
<1> DEFINE n == levels[i + 1]
           R == [j \in 0 .. n |-> Visible(NewestEntry(files, Older(i, j), k))]
<1>1. n \in Nat
  OBVIOUS
<1>2. ASSUME NEW j \in 0 .. n
      PROVE  R[j] = IF j = 0 THEN l[i + 1]
                    ELSE IF TestHashes(files[<<i, j - 1>>], k) /\ files[<<i, j - 1>>].kv[k] # nullopt
                         THEN Visible(files[<<i, j - 1>>].kv[k])
                         ELSE R[j - 1]
  <2>1. CASE j = 0
    BY <2>1, OlderSets DEF Answer
  <2>2. CASE j # 0
    <3>1. j \in 1 .. n /\ j - 1 \in 0 .. n /\ j - 1 \in Nat /\ i \in Nat /\ i < Len(levels)
      BY <2>2
    <3>2. <<i, j - 1>> \in DOMAIN files
      BY <3>1, ComponentsDef DEF Readable
    <3>3. files[<<i, j - 1>>].kv[k] # nullopt => TestHashes(files[<<i, j - 1>>], k)
      BY <3>2 DEF FiltersSound, Keys
    <3> QED
      BY <2>2, <3>1, <3>3, OlderEntry
  <2> QED
    BY <2>1, <2>2
<1>3. ReadEquation(k, i, l, R)
  BY <1>2 DEF ReadEquation
<1>4. R[n] = Answer(i, k)
  BY <1>1, OlderSets DEF Answer
<1> HIDE DEF R
<1>5. PICK s : s = CHOOSE r : ReadEquation(k, i, l, r)
  OBVIOUS
<1>6. ReadEquation(k, i, l, s)
  BY <1>3, <1>5
<1>7. s = R
  BY <1>1, <1>3, <1>6, ReadUnique
<1> QED
  BY <1>4, <1>5, <1>7

LEMMA FindAnswers ==
  ASSUME levels \in Seq(Nat), Readable(levels, files), FiltersSound, NEW k \in Key
  PROVE  FindInComponents(k) = Visible(NewestEntry(files, Components(levels), k))
<1> DEFINE L == Len(levels)
           A == [i \in 0 .. L |-> Answer(i, k)]
<1>1. L \in Nat
  OBVIOUS
<1>2. Answer(L, k) = nullopt
  BY OlderSets, SentinelAssumption DEF Answer, NewestEntry, Holding, Visible
<1>3. ASSUME NEW i \in 0 .. L, i # L
      PROVE  i \in 0 .. L - 1 /\ i + 1 \in 0 .. L
  BY <1>1, <1>3
<1>4. LevelEquation(k, A)
  <2>1. ASSUME NEW i \in 0 .. L, i # L
        PROVE  A[i] = (CHOOSE r : ReadEquation(k, i, A, r))[levels[i + 1]]
    <3>1. A[i + 1] = Answer(i + 1, k) /\ i \in 0 .. L - 1
      BY <1>3, <2>1
    <3> HIDE DEF A
    <3>2. (CHOOSE r : ReadEquation(k, i, A, r))[levels[i + 1]] = Answer(i, k)
      BY <3>1, ReadAnswers
    <3> QED
      BY <3>2 DEF A
  <2> QED
    BY <1>2, <2>1 DEF LevelEquation
<1> HIDE DEF A
<1>5. PICK l : l = CHOOSE m : LevelEquation(k, m)
  OBVIOUS
<1>6. LevelEquation(k, l)
  BY <1>4, <1>5
<1>7. \A i \in 0 .. L : l[i] = Answer(i, k)
  <2> DEFINE T == {n \in 0 .. L : l[L - n] # Answer(L - n, k)}
  <2>1. SUFFICES ASSUME T # {} PROVE FALSE
    <3>1. \A i \in 0 .. L : L - i \in 0 .. L /\ L - (L - i) = i
      BY <1>1
    <3>2. T = {} => \A n \in 0 .. L : l[L - n] = Answer(L - n, k)
      OBVIOUS
    <3> HIDE DEF T, L
    <3>3. ASSUME T = {}, NEW i \in 0 .. L PROVE l[i] = Answer(i, k)
      <4>1. l[L - (L - i)] = Answer(L - (L - i), k)
        BY <3>1, <3>2, <3>3
      <4> QED
        BY <3>1, <4>1
    <3> QED
      BY <3>3
  <2>2. PICK n \in T : \A m \in T : n <= m
    <3>1. T \subseteq Nat
      BY <1>1
    <3> HIDE DEF T
    <3> QED
      BY <2>1, <3>1, LeastNat
  <2>3. n \in 0 .. L /\ l[L - n] # Answer(L - n, k)
    OBVIOUS
  <2>4. CASE n = 0
    BY <1>1, <1>2, <1>6, <2>3, <2>4 DEF LevelEquation
  <2>5. CASE n # 0
    <3> DEFINE i == L - n
    <3>0. n \in Nat /\ n # 0 /\ n <= L
      BY <1>1, <2>3, <2>5
    <3>1. i \in 0 .. L - 1 /\ i \in 0 .. L /\ i # L /\ n - 1 \in 0 .. L /\ L - (n - 1) = i + 1
      <4> HIDE DEF L
      <4> QED
        BY <1>1, <3>0
    <3>2. l[i + 1] = Answer(i + 1, k)
      <4>1. n - 1 \notin T
        <5> HIDE DEF T
        <5> QED
          BY <2>2, <3>0, <3>1
      <4> QED
        BY <3>1, <4>1
    <3>3. (CHOOSE r : ReadEquation(k, i, l, r))[levels[i + 1]] = Answer(i, k)
      <4> HIDE DEF i
      <4> QED
        BY <3>1, <3>2, ReadAnswers
    <3>4. l[i] = (CHOOSE r : ReadEquation(k, i, l, r))[levels[i + 1]]
      <4> HIDE DEF i
      <4> QED
        BY <1>6, <3>1 DEF LevelEquation
    <3> QED
      BY <2>3, <3>3, <3>4
  <2> QED
    BY <2>4, <2>5
<1>8. l[0] = Answer(0, k)
  BY <1>1, <1>7
<1> QED
  BY <1>5, <1>8, FindInComponentsIs, OlderSets DEF Answer

(* Find answers the newest entry of its key. *)
THEOREM FindAnswersNewest ==
  ASSUME SafeFaults
  PROVE  Spec => []FindIsLookup
<1>1. TypeOK /\ ComponentsReadable /\ FiltersSound => FindIsLookup
  <2> SUFFICES ASSUME TypeOK, ComponentsReadable, FiltersSound, open, NEW k \in Key
               PROVE  Find(k) = Contents[k]
    BY DEF FindIsLookup
  <2>1. levels \in Seq(Nat) /\ Readable(levels, files)
    BY DEF TypeOK, ComponentsReadable, CurrentLevels, Readable
  <2>2. Contents[k] = Lookup(memtable, levels, files, k)
    BY DEF Contents, ContentsOf
  <2> QED
    BY <2>1, <2>2, FindAnswers DEF Find, Lookup
<1> QED
  BY <1>1, TypeCorrect, ReadableAlways, FiltersSoundAlways, PTL

----------------------------------------------------------------------------
(* FindRange, in the same way. *)

ScanEquation(range, i, l, r) ==
  r = [j \in 0 .. levels[i + 1] |->
         IF j = 0 THEN l[i + 1]
         ELSE Overlay(r[j - 1], files[<<i, j - 1>>].kv, range)]

RangeEquation(range, l) ==
  l = [i \in 0 .. Len(levels) |->
         IF i = Len(levels) THEN EmptyTable
         ELSE (CHOOSE r : ScanEquation(range, i, l, r))[levels[i + 1]]]

LEMMA FindRangeIs ==
  ASSUME NEW range
  PROVE  FindRange(range) = Overlay((CHOOSE l : RangeEquation(range, l))[0], memtable, range)
BY DEF FindRange, RangeEquation, ScanEquation

(* What the components of a set show in the range. *)
Shown(S, range) ==
  [k \in Key |-> IF k \in range THEN Visible(NewestEntry(files, S, k)) ELSE nullopt]

LEMMA ScanUnique ==
  ASSUME NEW range, NEW i, levels[i + 1] \in Nat, NEW l, NEW r, NEW s,
         ScanEquation(range, i, l, r), ScanEquation(range, i, l, s)
  PROVE  r = s
<1> DEFINE n == levels[i + 1]
           T == {j \in 0 .. n : r[j] # s[j]}
<1>1. SUFFICES ASSUME T # {} PROVE FALSE
  BY DEF ScanEquation
<1>2. PICK j \in T : \A m \in T : j <= m
  <2>1. T \subseteq Nat
    OBVIOUS
  <2> HIDE DEF T
  <2> QED
    BY <1>1, <2>1, LeastNat
<1>3. j \in 0 .. n /\ r[j] # s[j]
  OBVIOUS
<1>4. j # 0
  BY <1>3 DEF ScanEquation
<1>5. j - 1 \in 0 .. n /\ j - 1 \notin T
  BY <1>2, <1>3, <1>4
<1>6. r[j - 1] = s[j - 1]
  BY <1>5
<1>7. r[j] = s[j]
  BY <1>3, <1>4, <1>6 DEF ScanEquation
<1> QED
  BY <1>3, <1>7

LEMMA ScanShows ==
  ASSUME levels \in Seq(Nat), Readable(levels, files), NEW range \in SUBSET Key,
         NEW i \in 0 .. Len(levels) - 1, NEW l, l[i + 1] = Shown(From(i + 1), range)
  PROVE  (CHOOSE r : ScanEquation(range, i, l, r))[levels[i + 1]] = Shown(From(i), range)
<1> DEFINE n == levels[i + 1]
           R == [j \in 0 .. n |-> Shown(Older(i, j), range)]
<1>1. n \in Nat
  OBVIOUS
<1>2. ASSUME NEW j \in 0 .. n
      PROVE  R[j] = IF j = 0 THEN l[i + 1]
                    ELSE Overlay(R[j - 1], files[<<i, j - 1>>].kv, range)
  <2>1. CASE j = 0
    BY <2>1, OlderSets
  <2>2. CASE j # 0
    <3> DEFINE kv == files[<<i, j - 1>>].kv
    <3>1. j \in 1 .. n /\ j - 1 \in 0 .. n
      BY <2>2
    <3>2. ASSUME NEW k \in Key
          PROVE  NewestEntry(files, Older(i, j), k) =
                   IF kv[k] # nullopt THEN kv[k] ELSE NewestEntry(files, Older(i, j - 1), k)
      BY <3>1, OlderEntry
    <3> HIDE DEF kv
    <3>3. Shown(Older(i, j), range) = Overlay(Shown(Older(i, j - 1), range), kv, range)
      BY <3>2 DEF Shown, Overlay, Keys
    <3> QED
      BY <2>2, <3>1, <3>3 DEF kv
  <2> QED
    BY <2>1, <2>2
<1>3. ScanEquation(range, i, l, R)
  BY <1>2 DEF ScanEquation
<1>4. R[n] = Shown(From(i), range)
  BY <1>1, OlderSets
<1> HIDE DEF R
<1>5. PICK s : s = CHOOSE r : ScanEquation(range, i, l, r)
  OBVIOUS
<1>6. ScanEquation(range, i, l, s)
  BY <1>3, <1>5
<1>7. s = R
  BY <1>1, <1>3, <1>6, ScanUnique
<1> QED
  BY <1>4, <1>5, <1>7

LEMMA RangeShows ==
  ASSUME levels \in Seq(Nat), Readable(levels, files), NEW range \in SUBSET Key
  PROVE  FindRange(range) = Overlay(Shown(Components(levels), range), memtable, range)
<1> DEFINE L == Len(levels)
           A == [i \in 0 .. L |-> Shown(From(i), range)]
<1>1. L \in Nat
  OBVIOUS
<1>2. Shown(From(L), range) = EmptyTable
  BY OlderSets, SentinelAssumption DEF Shown, EmptyTable, NewestEntry, Holding, Visible
<1>3. ASSUME NEW i \in 0 .. L, i # L
      PROVE  i \in 0 .. L - 1 /\ i + 1 \in 0 .. L
  BY <1>1, <1>3
<1>4. RangeEquation(range, A)
  <2>1. ASSUME NEW i \in 0 .. L, i # L
        PROVE  A[i] = (CHOOSE r : ScanEquation(range, i, A, r))[levels[i + 1]]
    <3>1. A[i + 1] = Shown(From(i + 1), range) /\ i \in 0 .. L - 1
      BY <1>3, <2>1
    <3> HIDE DEF A
    <3>2. (CHOOSE r : ScanEquation(range, i, A, r))[levels[i + 1]] = Shown(From(i), range)
      BY <3>1, ScanShows
    <3> QED
      BY <3>2 DEF A
  <2> QED
    BY <1>2, <2>1 DEF RangeEquation
<1> HIDE DEF A
<1>5. PICK l : l = CHOOSE m : RangeEquation(range, m)
  OBVIOUS
<1>6. RangeEquation(range, l)
  BY <1>4, <1>5
<1>7. \A i \in 0 .. L : l[i] = Shown(From(i), range)
  <2> DEFINE T == {n \in 0 .. L : l[L - n] # Shown(From(L - n), range)}
  <2>1. SUFFICES ASSUME T # {} PROVE FALSE
    <3>1. \A i \in 0 .. L : L - i \in 0 .. L /\ L - (L - i) = i
      BY <1>1
    <3>2. T = {} => \A n \in 0 .. L : l[L - n] = Shown(From(L - n), range)
      OBVIOUS
    <3> HIDE DEF T, L
    <3>3. ASSUME T = {}, NEW i \in 0 .. L PROVE l[i] = Shown(From(i), range)
      <4>1. l[L - (L - i)] = Shown(From(L - (L - i)), range)
        BY <3>1, <3>2, <3>3
      <4> QED
        BY <3>1, <4>1
    <3> QED
      BY <3>3
  <2>2. PICK n \in T : \A m \in T : n <= m
    <3>1. T \subseteq Nat
      BY <1>1
    <3> HIDE DEF T
    <3> QED
      BY <2>1, <3>1, LeastNat
  <2>3. n \in 0 .. L /\ l[L - n] # Shown(From(L - n), range)
    OBVIOUS
  <2>4. CASE n = 0
    BY <1>1, <1>2, <1>6, <2>3, <2>4 DEF RangeEquation
  <2>5. CASE n # 0
    <3> DEFINE i == L - n
    <3>0. n \in Nat /\ n # 0 /\ n <= L
      BY <1>1, <2>3, <2>5
    <3>1. i \in 0 .. L - 1 /\ i \in 0 .. L /\ i # L /\ n - 1 \in 0 .. L /\ L - (n - 1) = i + 1
      <4> HIDE DEF L
      <4> QED
        BY <1>1, <3>0
    <3>2. l[i + 1] = Shown(From(i + 1), range)
      <4>1. n - 1 \notin T
        <5> HIDE DEF T
        <5> QED
          BY <2>2, <3>0, <3>1
      <4> QED
        BY <3>1, <4>1
    <3>3. (CHOOSE r : ScanEquation(range, i, l, r))[levels[i + 1]] = Shown(From(i), range)
      <4> HIDE DEF i
      <4> QED
        BY <3>1, <3>2, ScanShows
    <3>4. l[i] = (CHOOSE r : ScanEquation(range, i, l, r))[levels[i + 1]]
      <4> HIDE DEF i
      <4> QED
        BY <1>6, <3>1 DEF RangeEquation
    <3> QED
      BY <2>3, <3>3, <3>4
  <2> QED
    BY <2>4, <2>5
<1>8. l[0] = Shown(From(0), range)
  BY <1>1, <1>7
<1> QED
  BY <1>5, <1>8, FindRangeIs, OlderSets

(* FindRange answers the newest entries of the keys in the range. *)
THEOREM FindRangeAnswersNewest ==
  ASSUME SafeFaults
  PROVE  Spec => []FindRangeIsLookup
<1>1. TypeOK /\ ComponentsReadable => FindRangeIsLookup
  <2> SUFFICES ASSUME TypeOK, ComponentsReadable, open, NEW range \in SUBSET Key
               PROVE  FindRange(range) =
                        [k \in Key |-> IF k \in range THEN Contents[k] ELSE nullopt]
    BY DEF FindRangeIsLookup
  <2>1. levels \in Seq(Nat) /\ Readable(levels, files)
    BY DEF TypeOK, ComponentsReadable, CurrentLevels, Readable
  <2>2. \A k \in Key : Contents[k] = Lookup(memtable, levels, files, k)
    BY DEF Contents, ContentsOf
  <2>3. FindRange(range) = Overlay(Shown(Components(levels), range), memtable, range)
    BY <2>1, RangeShows
  <2> QED
    BY <2>2, <2>3 DEF Overlay, Shown, Keys, Lookup
<1> QED
  BY <1>1, TypeCorrect, ReadableAlways, PTL
============================================================================

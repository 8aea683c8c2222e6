SPECIFICATION MCSpec
CONSTANTS
  k1 = k1
  k2 = k2
  b1 = b1
  b2 = b2
  Thread = {t1}
  Key = {k1, k2}
  Value = {v1}
  Empty = Empty
  nullopt = nullopt
  exception = exception
  Bit = {b1, b2}
  HashBits <- Bits
  sstable_scaling_factor = 2
  memtable_kv_count_limit = 1
  Faults = {"save", "reader", "compaction"}
  MaxWrites = 5
INVARIANTS
  SavedReadable
PROPERTIES
  CrashRestoresSaved

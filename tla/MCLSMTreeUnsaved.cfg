SPECIFICATION MCSpec
CONSTANTS
  k1 = k1
  k2 = k2
  b1 = b1
  b2 = b2
  Key = {k1, k2}
  Value = {v1}
  Empty = Empty
  nullopt = nullopt
  Bit = {b1, b2}
  HashBits <- Bits
  sstable_scaling_factor = 2
  memtable_kv_count_limit = 1
  Faults = {"compaction", "save"}
  MaxLevels = 3
  MaxComponents = 2
  OneTree = FALSE
INVARIANTS
  FiltersSound
  LevelsBelowFactor

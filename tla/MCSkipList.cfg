SPECIFICATION Spec
CONSTANTS
  Key = {1, 2, 3}
  Value = {v1, v2}
  Empty = Empty
  nullopt = nullopt
  v1 = v1
  v2 = v2
  level_count_limit = 2
INVARIANTS LevelsSorted DataBlockSorted FindRangeIsMap
PROPERTY ImplementsEntryMap

SPECIFICATION MCSpec
CONSTANTS
  Key = {1, 2, 3}
  Value = {v1}
  Empty = Empty
  nullopt = nullopt
  sstable_scaling_factor = 2
  MaxLevel = 2
INVARIANTS
  ReadersNewestFirst
  OutputIsMerged
  OutputWithinCount
PROPERTIES
  MergeEnds
CHECK_DEADLOCK FALSE

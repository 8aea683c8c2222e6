SPECIFICATION MCSpec
CONSTANTS
  Key = {1, 2, 3}
  Value = {v1, v2}
  Empty = Empty
  nullopt = nullopt
  v1 = v1
  v2 = v2
  KeySize <- MCKeySize
  ValueSize <- MCValueSize
  SizesSize = 2
  OffsetSize = 2
  MetaSize = 5
  WordSize = 2
  WordBits = 8
  HashLow <- MCHashLow
  HashHigh <- MCHashHigh
  HashBase = 64
  milli_bits_per_key = 4792
  kv_count_limit = 4
INVARIANTS
  IndexLeadsToEntries
  IteratorFollowsEntries
  FilterKeepsItsAnswers
  FindAnswersEntry
  FindRangeOverlays
PROPERTIES
  CallsReturn
CHECK_DEADLOCK FALSE

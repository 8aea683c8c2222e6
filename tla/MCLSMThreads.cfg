SPECIFICATION MCSpec
CONSTANTS
  t1 = t1
  k1 = k1
  k2 = k2
  b1 = b1
  b2 = b2
  Thread = {t1, t2}
  Key = {k1, k2}
  Value = {v1}
  Empty = Empty
  nullopt = nullopt
  exception = exception
  Bit = {b1, b2}
  HashBits <- Bits
  sstable_scaling_factor = 2
  memtable_kv_count_limit = 1
  Faults = {"flush", "reader"}
  MaxWrites = 3
  MaxThrows = 1
INVARIANTS
  AnswersAreCurrent
PROPERTIES
  ImplementsLSMTree
  Linearizable
  MutexReleased
  SomeCallReturns

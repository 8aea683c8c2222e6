SPECIFICATION SaveSpec
CONSTANTS
  Base = 2
  WordSize = 2
  Fixed <- MCFixed
  Levels <- MCLevels
  Memtables <- MCMemtables
  junk = {0, 1}
INVARIANTS
  SavedComesBack
  LevelsWithinSaved
  WholeEntriesLoaded
CHECK_DEADLOCK FALSE

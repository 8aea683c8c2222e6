SPECIFICATION MCSpec
CONSTANTS
  slice_size = 3
  Key <- LongKeys
  Value <- MCValue
  MaxNodes = 2
  MaxSlices = 6
INVARIANT StoredKeyIsFound

SPECIFICATION MCSpec
CONSTANTS
  slice_size = 3
  Key <- ShortKeys
  Value <- MCValue
  MaxNodes = 2
  MaxSlices = 6
INVARIANT ReadsBack
INVARIANT CompareIsLexicographic
